---------------------- MODULE RepositoryCommandsProofs ----------------------
(***************************************************************************)
(* What the commands on remotes, histories, files, releases, packages, the *)
(* model client, the tasks of a workflow and the web page promise, for any *)
(* tags, packages, requests and files, whoever else works on them: one     *)
(* inductive invariant for each command.                                   *)
(***************************************************************************)
EXTENDS NamespaceRewrite, RemoteUpdate, HistoryPurge, DefaultMigration, Releases,
        PackageRetention, ModelRequests, WorkflowTasks, WebWorkspace, SequenceTheorems,
        FiniteSetTheorems, NaturalsInduction, WellFoundedInduction, TLAPS

----------------------------------------
\* NamespaceRewrite: what a rewrite reported as done has left

\* The files a change plan names, and what they are to hold.
NamespacePlanned ==
    {file \in NamespaceAll :
        /\ namespaceAsked.place[file] \notin {"vendored", "ignored"}
        /\ namespaceAsked.names[file] \cap NamespaceTouched(file) # {}}

\* Every file of the plan rewritten, the others as they were
NamespaceGoal ==
    [file \in NamespaceAll |->
        IF file \in namespacePlan THEN NamespaceRewritten(file, namespaceAsked.names[file])
        ELSE namespaceAsked.names[file]]

\* Where nothing is committed yet, and where everything is
NamespaceBegan == {"guards", "plan", "branch", "apply", "stage", "commit"}
NamespaceOver == {"push", "report", "done"}

\* Nothing is in the index or in a commit before its step.
NamespaceFilesOK ==
    /\ namespaceAt \in (NamespaceBegan \ {"stage", "commit"}) \cup {"skipped"} =>
            namespaceFiles = namespaceAsked.names
    /\ namespaceAt \in {"stage", "commit"} \cup NamespaceOver => namespaceFiles = NamespaceGoal
    /\ namespaceAt \in NamespaceBegan \ {"commit"} => namespaceIndex = namespaceAsked.names
    /\ namespaceAt \in {"commit"} \cup NamespaceOver => namespaceIndex = NamespaceGoal
    /\ namespaceAt \in NamespaceBegan \cup {"skipped"} =>
            namespaceCommitted = namespaceAsked.names
    /\ namespaceAt \in NamespaceOver => namespaceCommitted = NamespaceGoal

\* From the plan on, it is the one that the files of the start call for.
NamespacePlanOK ==
    namespaceAt \in {"branch", "apply", "stage", "commit"} \cup NamespaceOver =>
        namespacePlan = NamespacePlanned /\ namespacePlan # {}

\* The branch is the new one once it was made, and the variable follows a push.
NamespaceBranchOK ==
    /\ namespaceAt \in {"guards", "plan", "branch", "skipped"} => namespaceBranch = "original"
    /\ namespaceAt \in {"apply", "stage", "commit"} \cup NamespaceOver =>
            namespaceBranch = "rewrite"
    /\ namespaceVariable => namespacePushed
    /\ namespaceAt \notin {"report", "done", "failed"} => ~ namespacePushed

\* The inductive invariant of a namespace rewrite
NamespaceIInv ==
    /\ namespaceAsked \in NamespaceInvocations
    /\ namespaceAt \in {"guards", "plan", "branch", "apply", "stage", "commit", "push",
                        "report", "done", "skipped", "failed"}
    /\ {namespacePushed, namespaceVariable} \subseteq BOOLEAN
    /\ NamespaceFilesOK /\ NamespacePlanOK /\ NamespaceBranchOK

\* The files of an invocation hold names and are somewhere.
LEMMA NamespaceInputs ==
    ASSUME namespaceAsked \in NamespaceInvocations
    PROVE  /\ namespaceAsked.names \in [NamespaceAll -> SUBSET {"root", "below", "beside"}]
           /\ namespaceAsked.place \in [NamespaceAll -> {"ordinary", "ignored", "vendored", "nested"}]
BY NamespaceAssumption, SMT

\* What a file of the plan is rewritten to is something else, without the old paths.
LEMMA NamespaceChanges ==
    ASSUME NEW file, NEW names \in SUBSET {"root", "below", "beside"}
    PROVE  /\ "below" \notin NamespaceRewritten(file, names)
           /\ "beside" \in names <=> "beside" \in NamespaceRewritten(file, names)
           /\ names \cap NamespaceTouched(file) # {} => NamespaceRewritten(file, names) # names
           /\ names \cap NamespaceTouched(file) = {} => "below" \notin names
<1>1. "below" \in NamespaceTouched(file) /\ NamespaceTouched(file) \subseteq {"root", "below"}
  BY DEF NamespaceTouched
<1>2. \A name : name \in NamespaceRewritten(file, names) <=>
          \E old \in names : name = IF old \notin NamespaceTouched(file) THEN old
                                    ELSE IF old = "root" THEN "new root" ELSE "new below"
  BY DEF NamespaceRewritten
<1>3. \A old \in names : old \in {"root", "below", "beside"}
  OBVIOUS
<1>4. "below" \notin NamespaceRewritten(file, names)
  <2>1. SUFFICES ASSUME NEW old \in names,
                        "below" = IF old \notin NamespaceTouched(file) THEN old
                                  ELSE IF old = "root" THEN "new root" ELSE "new below"
                 PROVE  FALSE
    BY <1>2
  <2>2. CASE old \notin NamespaceTouched(file)
    BY <1>1, <2>1, <2>2
  <2>3. CASE old \in NamespaceTouched(file)
    BY <2>1, <2>3
  <2>4. QED BY <2>2, <2>3
<1>5. "beside" \in names <=> "beside" \in NamespaceRewritten(file, names)
  <2>1. ASSUME "beside" \in names PROVE "beside" \in NamespaceRewritten(file, names)
    <3>1. "beside" \notin NamespaceTouched(file)
      BY <1>1
    <3>2. QED BY <1>2, <2>1, <3>1, Zenon
  <2>2. ASSUME NEW old \in names,
               "beside" = IF old \notin NamespaceTouched(file) THEN old
                          ELSE IF old = "root" THEN "new root" ELSE "new below"
        PROVE  "beside" \in names
    BY <2>2
  <2>3. QED BY <1>2, <2>1, <2>2
<1>6. ASSUME names \cap NamespaceTouched(file) # {} PROVE NamespaceRewritten(file, names) # names
  <2>1. PICK old \in names : old \in NamespaceTouched(file)
    BY <1>6
  <2>2. (IF old = "root" THEN "new root" ELSE "new below") \in NamespaceRewritten(file, names)
    BY <1>2, <2>1, Zenon
  <2>3. (IF old = "root" THEN "new root" ELSE "new below") \notin names
    BY <1>3
  <2>4. QED BY <2>2, <2>3
<1>7. QED BY <1>1, <1>4, <1>5, <1>6

\* A plan that is not empty changes something.
LEMMA NamespaceGoalChanges ==
    ASSUME namespaceAsked \in NamespaceInvocations, namespacePlan = NamespacePlanned,
           namespacePlan # {}
    PROVE  NamespaceGoal # namespaceAsked.names
<1>1. PICK file \in namespacePlan : TRUE
  OBVIOUS
<1>2. /\ file \in NamespaceAll
      /\ namespaceAsked.names[file] \cap NamespaceTouched(file) # {}
  BY <1>1 DEF NamespacePlanned
<1>3. namespaceAsked.names[file] \in SUBSET {"root", "below", "beside"}
  BY <1>2, NamespaceInputs
<1>4. NamespaceGoal[file] = NamespaceRewritten(file, namespaceAsked.names[file])
  BY <1>1, <1>2 DEF NamespaceGoal
<1>5. NamespaceGoal[file] # namespaceAsked.names[file]
  BY <1>2, <1>3, <1>4, NamespaceChanges
<1>6. QED BY <1>5

\* It holds at the start.
LEMMA NamespaceInitially == NamespaceInit => NamespaceIInv
BY DEF NamespaceInit, NamespaceIInv, NamespaceFilesOK, NamespacePlanOK, NamespaceBranchOK, NamespaceBegan,
  NamespaceOver

\* Every step keeps it.
LEMMA NamespaceStep ==
    ASSUME NamespaceIInv, NamespaceNext
    PROVE  NamespaceIInv'
<1> USE DEF NamespaceIInv, NamespaceBegan, NamespaceOver, namespaceTree, namespaceRest
<1>1. CASE NamespaceGuard
  BY <1>1 DEF NamespaceGuard, NamespaceFilesOK, NamespacePlanOK, NamespaceBranchOK
<1>2. CASE NamespaceMakePlan
  BY <1>2 DEF NamespaceMakePlan, NamespaceKept, NamespaceWalked, NamespaceNames, NamespacePlanned,
    NamespaceFilesOK, NamespacePlanOK, NamespaceBranchOK
<1>3. CASE NamespaceCreateBranch
  BY <1>3 DEF NamespaceCreateBranch, NamespacePlanOK, NamespacePlanned, NamespaceFilesOK, NamespaceBranchOK
<1>4. CASE NamespaceApply
  <2>1. PICK written \in SUBSET namespacePlan :
           /\ namespaceFiles' = [file \in NamespaceAll |->
                   IF file \in written THEN NamespaceRewritten(file, namespaceFiles[file])
                   ELSE namespaceFiles[file]]
           /\ namespaceAt' = IF written = namespacePlan THEN "stage" ELSE "failed"
    BY <1>4 DEF NamespaceApply
  <2>2. /\ namespaceAt = "apply"
        /\ UNCHANGED <<namespacePlan, namespaceIndex, namespaceBranch, namespaceCommitted,
                       namespaceRest>>
    BY <1>4 DEF NamespaceApply
  <2>3. namespacePlan' = NamespacePlanned' /\ namespacePlan' # {}
    BY <2>2 DEF NamespacePlanOK, NamespacePlanned
  <2>4. namespaceAt' = "stage" => namespaceFiles' = NamespaceGoal'
    BY <2>1, <2>2 DEF NamespaceFilesOK, NamespaceGoal
  <2>5. QED BY <2>1, <2>2, <2>3, <2>4 DEF NamespaceFilesOK, NamespacePlanOK, NamespaceBranchOK
<1>5. CASE NamespaceStage
  BY <1>5 DEF NamespaceStage, NamespaceStaged, NamespacePlanOK, NamespacePlanned, NamespaceGoal,
    NamespaceFilesOK, NamespaceBranchOK
<1>6. CASE NamespaceCommit
  BY <1>6, NamespaceGoalChanges DEF NamespaceCommit, NamespacePlanOK, NamespacePlanned, NamespaceGoal,
    NamespaceFilesOK, NamespaceBranchOK
<1>7. CASE NamespacePush
  <2>1. PICK accepted \in BOOLEAN :
          /\ namespacePushed' = (namespaceAsked.remote /\ accepted)
          /\ namespaceVariable' = (namespaceAsked.remote /\ accepted)
    BY <1>7 DEF NamespacePush, NamespaceTells
  <2>2. /\ namespaceAt = "push" /\ namespaceAt' = "report"
        /\ UNCHANGED <<namespaceAsked, namespacePlan, namespaceTree>>
    BY <1>7 DEF NamespacePush
  <2>3. /\ namespacePlan' = NamespacePlanned' /\ namespacePlan' # {}
        /\ NamespaceGoal' = NamespaceGoal
    BY <2>2 DEF NamespacePlanOK, NamespacePlanned, NamespaceGoal
  <2>4. /\ namespaceFiles = NamespaceGoal /\ namespaceIndex = NamespaceGoal
        /\ namespaceCommitted = NamespaceGoal
    BY <2>2 DEF NamespaceFilesOK
  <2>5. NamespaceFilesOK' /\ NamespacePlanOK'
    BY <2>2, <2>3, <2>4 DEF NamespaceFilesOK, NamespacePlanOK
  <2>6. {namespacePushed, namespaceVariable}' \subseteq BOOLEAN
    BY <2>1
  <2>7. namespaceVariable' => namespacePushed'
    BY <2>1, Zenon
  <2>8. NamespaceBranchOK'
    BY <2>2, <2>7 DEF NamespaceBranchOK
  <2>9. QED BY <2>2, <2>5, <2>6, <2>8
<1>8. CASE NamespaceReport
  BY <1>8 DEF NamespaceReport, NamespacePlanOK, NamespacePlanned, NamespaceGoal, NamespaceFilesOK,
    NamespaceBranchOK
<1>9. QED
  BY <1>1, <1>2, <1>3, <1>4, <1>5, <1>6, <1>7, <1>8 DEF NamespaceNext

\* What it says of a rewrite that ended
LEMMA NamespaceWhole == NamespaceIInv => RewriteIsWhole
<1>1. SUFFICES ASSUME NamespaceIInv PROVE RewriteIsWhole
  OBVIOUS
<1>2. ASSUME namespaceAt = "done"
      PROVE  /\ namespaceBranch = "rewrite"
             /\ namespaceFiles = NamespaceGoal /\ namespaceIndex = NamespaceGoal
             /\ namespaceCommitted = NamespaceGoal /\ namespacePlan = NamespacePlanned
             /\ namespaceVariable => namespacePushed
  BY <1>1, <1>2 DEF NamespaceIInv, NamespaceFilesOK, NamespacePlanOK, NamespaceBranchOK, NamespaceOver
<1>3. ASSUME namespaceAt = "done", NEW file \in NamespaceAll
      PROVE  /\ "below" \in namespaceFiles[file]
                    => namespaceAsked.place[file] \in {"ignored", "vendored"}
             /\ "beside" \in namespaceAsked.names[file] <=> "beside" \in namespaceFiles[file]
  <2>1. /\ namespaceAsked.names[file] \in SUBSET {"root", "below", "beside"}
        /\ namespaceAsked \in NamespaceInvocations
    BY <1>1, <1>3, NamespaceInputs DEF NamespaceIInv
  <2>2. namespaceFiles[file] = IF file \in namespacePlan
                               THEN NamespaceRewritten(file, namespaceAsked.names[file])
                               ELSE namespaceAsked.names[file]
    BY <1>2, <1>3 DEF NamespaceGoal
  <2>3. CASE file \in namespacePlan
    BY <2>1, <2>2, <2>3, NamespaceChanges
  <2>4. CASE file \notin namespacePlan
    BY <1>2, <1>3, <2>4, <2>1, <2>2, NamespaceChanges DEF NamespacePlanned
  <2>5. QED BY <2>3, <2>4
<1>4. ASSUME namespaceAt = "skipped"
      PROVE  /\ namespaceFiles = namespaceAsked.names
             /\ namespaceCommitted = namespaceAsked.names
             /\ namespaceBranch = "original"
  BY <1>1, <1>4 DEF NamespaceIInv, NamespaceFilesOK, NamespaceBranchOK, NamespaceBegan
<1>5. QED BY <1>2, <1>3, <1>4 DEF RewriteIsWhole

\* The types of a namespace rewrite
LEMMA NamespaceTypesFirst == NamespaceInit => NamespaceTypeOK
BY NamespaceInputs DEF NamespaceInit, NamespaceKinds, NamespaceTypeOK

\* They are kept.
LEMMA NamespaceTypesStay ==
    ASSUME NamespaceIInv, NamespaceTypeOK, [NamespaceNext]_namespaceVars
    PROVE  NamespaceTypeOK'
<1> DEFINE contents == [NamespaceAll -> SUBSET NamespaceKinds]
<1>1. CASE UNCHANGED namespaceVars
  BY <1>1 DEF NamespaceTypeOK, namespaceVars
<1>2. CASE NamespaceGuard
  BY <1>2 DEF NamespaceGuard, NamespaceTypeOK, namespaceTree, namespaceRest
<1>3. CASE NamespaceMakePlan
  BY <1>3 DEF NamespaceMakePlan, NamespaceTypeOK, namespaceTree, namespaceRest, NamespaceKept, NamespaceWalked
<1>4. CASE NamespaceCreateBranch
  BY <1>4 DEF NamespaceCreateBranch, NamespaceTypeOK, namespaceRest
<1>5. CASE NamespaceApply
  <2>1. \A file \in NamespaceAll : /\ namespaceFiles[file] \subseteq NamespaceKinds
                                   /\ NamespaceRewritten(file, namespaceFiles[file])
                                        \subseteq NamespaceKinds
    BY DEF NamespaceTypeOK, NamespaceRewritten, NamespaceKinds
  <2>2. namespaceFiles' \in contents
    BY <1>5, <2>1 DEF NamespaceApply
  <2>3. /\ namespaceAt' \in {"stage", "failed"}
        /\ UNCHANGED <<namespaceAsked, namespacePlan, namespaceIndex, namespaceBranch,
                       namespaceCommitted, namespacePushed, namespaceVariable>>
    BY <1>5 DEF NamespaceApply, namespaceRest
  <2>4. QED BY <2>2, <2>3 DEF NamespaceTypeOK
<1>6. CASE NamespaceStage
  BY <1>6 DEF NamespaceStage, NamespaceTypeOK, namespaceRest
<1>7. CASE NamespaceCommit
  BY <1>7 DEF NamespaceCommit, NamespaceTypeOK, namespaceRest
<1>8. CASE NamespacePush \/ NamespaceReport
  BY NamespaceAssumption, <1>8 DEF NamespaceTypeOK, NamespacePush, NamespaceReport, NamespaceTells,
    namespaceRest, namespaceTree
<1>9. QED BY <1>1, <1>2, <1>3, <1>4, <1>5, <1>6, <1>7, <1>8 DEF NamespaceNext

----------------------------------------
\* RemoteUpdate: the repository that set-url keeps

\* What leads to the repository of an origin that was seen, or at least bears its
\* name once a lookup has failed.
RemoteKept(slug) ==
    \E seen \in remoteSeen :
        \/ RemoteOr(RemoteLookup(seen), seen) = RemoteOr(RemoteLookup(slug), slug)
        \/ remoteBlind /\ RemoteFolded[seen.name] = RemoteFolded[slug.name]

\* What is held are repositories and addresses of repositories.
RemoteSlugsOK ==
    /\ remoteAsked \in RemoteInvocations
    /\ remoteOrigin \in RemoteURL \cup {RemoteNone}
    /\ remoteTarget \in RemoteURL \cup {RemoteNone}
    /\ remoteResolved \in RemoteSlug \cup {RemoteNone}
    /\ remoteSeen \subseteq RemoteSlug
    /\ remoteInspection.canonical \in RemoteSlug \cup {RemoteNone}

\* origin is one that was seen until gix itself has set it.
RemoteOriginSeen ==
    remoteAt \notin {"refresh", "done"} /\ remoteOrigin # RemoteNone => remoteOrigin.slug \in remoteSeen

\* What the inspection, the resolution and the choice have come to
RemoteFound ==
    /\ remoteAt \in {"resolve", "search", "choose"} /\ remoteInspection.canonical # RemoteNone =>
            RemoteKept(remoteInspection.canonical)
    /\ remoteAt = "search" => remoteResolved \in remoteSeen /\ remoteBlind
    /\ remoteAt = "choose" => remoteResolved \in RemoteSlug /\ RemoteKept(remoteResolved)
    /\ remoteAt \in {"current", "ask", "set"} =>
            remoteTarget \in RemoteURL /\ RemoteKept(remoteTarget.slug)
    /\ remoteOutcome = "updated" => remoteAt \in {"refresh", "done"}
    /\ remoteAt \in {"refresh", "done"} /\ remoteOutcome = "updated" =>
            RemoteKept(remoteTarget.slug)

\* The places of the command, and what it reports
RemotePlaces ==
    /\ remoteAt \in RemotePCs /\ remoteOutcome \in RemoteOutcomes
    /\ remoteBlind \in BOOLEAN

\* The inductive invariant of a remote update
RemoteIInv == RemotePlaces /\ RemoteSlugsOK /\ RemoteOriginSeen /\ RemoteFound

\* An invocation: redirections of GitHub lead to where nothing is moved further.
LEMMA RemoteInputs ==
    ASSUME remoteAsked \in RemoteInvocations
    PROVE  /\ remoteAsked.origin \in RemoteURL \cup {RemoteNone}
           /\ remoteAsked.leads \in [RemoteSlug -> RemoteSlug \cup {RemoteNone}]
           /\ remoteAsked.found \in Seq(RemoteSlug)
           /\ remoteAsked.operator \subseteq RemoteURL \cup {RemoteNone}
           /\ RemoteNone \notin RemoteSlug /\ RemoteNone \notin RemoteURL
           /\ \A slug \in RemoteSlug : remoteAsked.leads[slug] # RemoteNone =>
                 remoteAsked.leads[remoteAsked.leads[slug]] = remoteAsked.leads[slug]
BY RemoteAssumption

\* An address names a repository.
LEMMA RemoteURLSlug == \A url \in RemoteURL : url.slug \in RemoteSlug /\ url.hub \in BOOLEAN
BY DEF RemoteURL

\* Whatever GitHub leads a seen slug to is kept, and so is the slug itself.
LEMMA RemoteLedIsKept ==
    ASSUME RemoteSlugsOK, NEW seen \in remoteSeen
    PROVE  /\ RemoteLookup(seen) \in RemoteSlug \cup {RemoteNone}
           /\ RemoteKept(seen)
           /\ RemoteLookup(seen) # RemoteNone => RemoteKept(RemoteLookup(seen))
BY RemoteInputs DEF RemoteSlugsOK, RemoteLookup, RemoteOr, RemoteKept

\* An address that gix builds names the repository it is built for.
LEMMA RemoteBuilds ==
    ASSUME NEW protocol, NEW slug \in RemoteSlug
    PROVE  RemoteBuild(protocol, slug) \in RemoteURL /\ RemoteBuild(protocol, slug).slug = slug
BY DEF RemoteBuild, RemoteURL, RemoteForms

\* It holds at the start.
LEMMA RemoteInitially == RemoteInit => RemoteIInv
<1>1. SUFFICES ASSUME RemoteInit PROVE RemoteIInv
  OBVIOUS
<1>2. RemotePlaces
  BY <1>1 DEF RemoteInit, RemotePlaces, RemotePCs, RemoteOutcomes
<1>3. RemoteSlugsOK
  BY <1>1, RemoteInputs, RemoteURLSlug DEF RemoteInit, RemoteSlugsOK, RemoteNothing
<1>4. RemoteOriginSeen /\ RemoteFound
  BY <1>1 DEF RemoteInit, RemoteOriginSeen, RemoteFound
<1>5. QED BY <1>2, <1>3, <1>4 DEF RemoteIInv

\* The inspection asks GitHub for the repository of the origin it has read.
LEMMA RemoteInspectStep ==
    ASSUME RemoteIInv, RemoteInspect
    PROVE  RemoteIInv'
<1> USE DEF RemoteIInv
<1>1. /\ remoteAt = "inspect"
      /\ UNCHANGED <<remoteAsked, remoteOrigin, remoteResolved, remoteTarget, remoteSeen>>
      /\ \/ remoteAt' = "done" /\ remoteOutcome' = "unlisted"
              /\ UNCHANGED <<remoteInspection, remoteBlind>>
         \/ /\ RemoteListed
            /\ \E canonical \in RemoteCanonicals :
                  /\ remoteInspection' = RemoteInspected(canonical)
                  /\ remoteBlind' = (canonical = RemoteNone)
            /\ \/ remoteAt' = "done" /\ remoteOutcome' = "skipped"
               \/ remoteAt' = "resolve" /\ UNCHANGED remoteOutcome
  BY DEF RemoteInspect, RemoteEnds
<1>2. CASE UNCHANGED <<remoteInspection, remoteBlind>>
             /\ remoteAt' = "done" /\ remoteOutcome' = "unlisted"
  BY <1>1, <1>2 DEF RemotePlaces, RemotePCs, RemoteOutcomes, RemoteSlugsOK, RemoteOriginSeen, RemoteFound
<1>3. CASE /\ RemoteListed
           /\ \E canonical \in RemoteCanonicals :
                  /\ remoteInspection' = RemoteInspected(canonical)
                  /\ remoteBlind' = (canonical = RemoteNone)
           /\ \/ remoteAt' = "done" /\ remoteOutcome' = "skipped"
              \/ remoteAt' = "resolve" /\ UNCHANGED remoteOutcome
  <2>1. PICK canonical \in RemoteCanonicals :
                  /\ remoteInspection' = RemoteInspected(canonical)
                  /\ remoteBlind' = (canonical = RemoteNone)
    BY <1>3
  <2>2. /\ canonical = RemoteNone \/ canonical \in RemoteSlug
        /\ canonical # RemoteNone => RemoteKept(canonical)' \/ remoteOrigin = RemoteNone
    BY <1>1, RemoteLedIsKept, RemoteInputs DEF RemoteCanonicals, RemoteLookup, RemoteOwnerRepository,
      RemoteOriginSeen, RemoteSlugsOK, RemoteOr, RemoteKept
  <2>3. remoteInspection'.canonical = RemoteNone \/
            (remoteInspection'.canonical = canonical /\ remoteOrigin # RemoteNone)
    BY <2>1 DEF RemoteInspected, RemoteNothing
  <2>4. RemotePlaces'
    BY <1>1, <1>3, <2>1 DEF RemotePlaces, RemotePCs, RemoteOutcomes
  <2>5. RemoteSlugsOK'
    BY <1>1, <2>2, <2>3 DEF RemoteSlugsOK
  <2>6. RemoteOriginSeen'
    BY <1>1, <1>3 DEF RemoteOriginSeen
  <2>7. RemoteFound'
    BY <1>1, <1>3, <2>2, <2>3 DEF RemoteFound
  <2>8. QED BY <2>4, <2>5, <2>6, <2>7
<1>4. QED BY <1>1, <1>2, <1>3

\* The executor takes the canonical repository, the origin, or a search.
LEMMA RemoteResolveStep ==
    ASSUME RemoteIInv, RemoteResolve
    PROVE  RemoteIInv'
<1> USE DEF RemoteIInv
<1>1. /\ remoteAt = "resolve"
      /\ UNCHANGED <<remoteAsked, remoteOrigin, remoteInspection, remoteTarget, remoteSeen>>
      /\ \/ remoteAt' = "done" /\ remoteOutcome' = "skipped"
              /\ UNCHANGED <<remoteResolved, remoteBlind>>
         \/ /\ remoteOrigin # RemoteNone /\ UNCHANGED remoteOutcome
            /\ RemoteLookup(remoteOrigin.slug) # RemoteNone
            /\ remoteResolved' = RemoteLookup(remoteOrigin.slug)
            /\ remoteAt' = "choose" /\ UNCHANGED remoteBlind
         \/ /\ remoteOrigin # RemoteNone /\ UNCHANGED remoteOutcome
            /\ remoteResolved' = remoteOrigin.slug
            /\ remoteAt' = "search" /\ remoteBlind' = TRUE
  BY DEF RemoteResolve, RemoteEnds, RemoteCandidate
<1>2. RemotePlaces'
  BY <1>1 DEF RemotePlaces, RemotePCs, RemoteOutcomes
<1>3. ASSUME remoteOrigin # RemoteNone
      PROVE  /\ remoteOrigin.slug \in remoteSeen /\ remoteOrigin.slug \in RemoteSlug
             /\ RemoteLookup(remoteOrigin.slug) \in RemoteSlug \cup {RemoteNone}
             /\ RemoteLookup(remoteOrigin.slug) # RemoteNone =>
                    RemoteKept(RemoteLookup(remoteOrigin.slug))
  BY <1>1, <1>3, RemoteLedIsKept DEF RemoteOriginSeen, RemoteSlugsOK
<1>4. RemoteSlugsOK'
  BY <1>1, <1>3 DEF RemoteSlugsOK
<1>5. RemoteOriginSeen'
  BY <1>1 DEF RemoteOriginSeen
<1>6. RemoteFound'
  BY <1>1, <1>3 DEF RemoteFound, RemoteKept, RemoteOr, RemoteLookup
<1>7. QED BY <1>2, <1>4, <1>5, <1>6

\* The search keeps the name of the repository.
LEMMA RemoteSearchStep ==
    ASSUME RemoteIInv, RemoteSearch
    PROVE  RemoteIInv'
BY RemoteInputs, ElementOfSeq, LenProperties DEF RemoteIInv, RemoteSearch, RemoteFound, RemoteSlugsOK,
  RemoteKept, RemoteOr, RemoteLookup, RemotePlaces, RemotePCs, RemoteOutcomes, RemoteOriginSeen

\* The owner is checked and the address is built.
LEMMA RemoteChooseStep ==
    ASSUME RemoteIInv, RemoteChoose
    PROVE  RemoteIInv'
<1> USE DEF RemoteIInv
<1> DEFINE canonical == RemoteOr(remoteInspection.canonical, remoteResolved)
<1>1. /\ remoteAt = "choose"
      /\ UNCHANGED <<remoteAsked, remoteOrigin, remoteInspection, remoteResolved, remoteBlind,
                     remoteSeen>>
      /\ \/ /\ remoteTarget' = RemoteBuild(remoteAsked.to, canonical)
            /\ remoteAt' = "current" /\ UNCHANGED remoteOutcome
         \/ remoteAt' = "refresh" /\ remoteOutcome' = "kept" /\ UNCHANGED remoteTarget
         \/ remoteAt' = "done" /\ remoteOutcome' = "skipped" /\ UNCHANGED remoteTarget
         \/ /\ remoteTarget' = RemoteBuild(remoteInspection.protocol, canonical)
            /\ remoteAt' = "ask" /\ UNCHANGED remoteOutcome
  BY DEF RemoteChoose, RemoteEnds
<1>2. canonical \in RemoteSlug /\ RemoteKept(canonical)
  BY <1>1 DEF RemoteFound, RemoteSlugsOK, RemoteOr
<1>3. RemoteKept(canonical)'
  BY <1>1, <1>2 DEF RemoteKept, RemoteOr, RemoteLookup
<1> HIDE DEF canonical
<1>4. remoteAt' \in {"current", "ask"} =>
          remoteTarget' \in RemoteURL /\ remoteTarget'.slug = canonical
  BY <1>1, <1>2, RemoteBuilds
<1>5. RemotePlaces' /\ RemoteSlugsOK' /\ RemoteOriginSeen'
  BY <1>1, <1>4 DEF RemotePlaces, RemotePCs, RemoteOutcomes, RemoteSlugsOK, RemoteOriginSeen
<1>6. RemoteKept(canonical') <=> RemoteKept(canonical)
  BY <1>1 DEF canonical, RemoteOr
<1>7. remoteAt' \in {"current", "ask"} => RemoteKept(remoteTarget.slug)'
  BY <1>1, <1>2, <1>4 DEF RemoteKept, RemoteOr, RemoteLookup
<1>8. RemoteFound'
  BY <1>1, <1>4, <1>7 DEF RemoteFound
<1>9. QED BY <1>5, <1>8

\* Steps after the choice: the target stays.
LEMMA RemoteLateStep ==
    ASSUME RemoteIInv, RemoteCurrent \/ RemoteAsk \/ RemoteSet \/ RemoteRefresh
    PROVE  RemoteIInv'
<1> USE DEF RemoteIInv
<1>1. /\ remoteAt \in {"current", "ask", "set", "refresh"}
      /\ remoteAt' \in {"refresh", "done"}
             \/ (remoteAt # "refresh" /\ remoteAt' \in {"ask", "set"} /\ UNCHANGED remoteOrigin)
      /\ remoteOutcome' \in RemoteOutcomes
      /\ remoteOutcome' = "updated" =>
             \/ remoteAt = "set" /\ remoteAt' = "refresh"
             \/ remoteOutcome = "updated"
      /\ remoteOrigin' \in {remoteOrigin, remoteTarget}
      /\ UNCHANGED <<remoteAsked, remoteResolved, remoteTarget, remoteBlind, remoteSeen>>
  BY DEF RemoteCurrent, RemoteAsk, RemoteSet, RemoteRefresh, RemoteEnds, RemotePlaces, RemoteOutcomes
<1>2. remoteInspection' = remoteInspection
         \/ \E canonical \in RemoteCanonicals : remoteInspection' = RemoteInspected(canonical)
  BY DEF RemoteCurrent, RemoteAsk, RemoteSet, RemoteRefresh
<1>3. remoteInspection'.canonical \in RemoteSlug \cup {RemoteNone}
  BY RemoteInputs, RemoteURLSlug, <1>2 DEF RemoteLookup, RemoteSlugsOK, RemoteOwnerRepository, RemoteCanonicals,
    RemoteInspected, RemoteNothing
<1>4. remoteTarget \in RemoteURL \/ remoteAt = "refresh"
  BY <1>1 DEF RemoteFound
<1>5. RemotePlaces' /\ RemoteSlugsOK'
  BY <1>1, <1>3 DEF RemotePlaces, RemotePCs, RemoteSlugsOK
<1>6. RemoteOriginSeen'
  BY <1>1 DEF RemoteOriginSeen
<1>7. RemoteKept(remoteTarget.slug) => RemoteKept(remoteTarget.slug)'
  BY <1>1 DEF RemoteKept, RemoteOr, RemoteLookup
<1>8. RemoteFound'
  BY <1>1, <1>7 DEF RemoteFound
<1>9. QED BY <1>5, <1>6, <1>8

\* The operator sets another origin meanwhile.
LEMMA RemoteOperatorStep ==
    ASSUME RemoteIInv, NEW url \in remoteAsked.operator, RemoteOperator(url)
    PROVE  RemoteIInv'
BY RemoteInputs, RemoteURLSlug DEF RemoteIInv, RemoteOperator, RemoteSlugsOK, RemotePlaces, RemoteOriginSeen,
  RemoteKept, RemoteOr, RemoteLookup, RemoteFound

\* Every step keeps it.
LEMMA RemoteStep ==
    ASSUME RemoteIInv, RemoteNext
    PROVE  RemoteIInv'
BY RemoteInspectStep, RemoteResolveStep, RemoteSearchStep, RemoteChooseStep, RemoteLateStep, RemoteOperatorStep
  DEF RemoteNext, RemoteRuns

\* What it says of an update
LEMMA RemoteIsKept == RemoteIInv => RemoteKeepsRepository
BY DEF RemoteIInv, RemoteFound, RemoteKept, RemoteKeepsRepository

----------------------------------------
\* HistoryPurge: what a purge that is reported done has left

\* The branches of the server are rewritten too.
PurgeWithOrigin == purgeAsked.push /\ purgeRemoteName = PurgeOrigin

\* Where the history has been rewritten
PurgeRewritten == {"cleanup", "remote", "push", "attach", "purged"}

\* The fetch has every branch of the server, and the filter makes a local branch
\* of each one fetched from origin; a colleague pushes to those that exist.
PurgeDomainsOK ==
    /\ purgeAt \in {"ignore", "inspect", "filter"} => DOMAIN purgeTracking = DOMAIN purgeRemote
    /\ purgeAt \in PurgeRewritten \ {"purged"} /\ purgeRemoteName = PurgeOrigin =>
            DOMAIN purgeRemote \subseteq DOMAIN purgeHeads
    /\ purgeLast \subseteq DOMAIN purgeRemote

\* What was rewritten holds nothing of the paths, here and on the server.
PurgeCleanOK ==
    /\ purgeAt \in PurgeRewritten => ~ PurgeHolds(purgeHeads)
    /\ purgeAt \in {"attach", "purged"} /\ PurgeWithOrigin =>
            \A b \in DOMAIN purgeRemote \ purgeLast :
                \A c \in purgeRemote[b] : c.holds = "none"
    /\ (purgeAt = "skipped" /\ purgeInspected) =>
            ~ PurgeHolds(purgeHeads) /\ ~ PurgeHolds(purgeTracking)

\* The places of a purge
PurgePlaces ==
    purgeAt \in {"prepare", "fetch", "ignore", "inspect", "filter", "cleanup", "remote", "push",
                 "attach", "purged", "skipped", "failed"}

\* The inductive invariant of a purge
PurgeIInv == PurgePlaces /\ PurgeDomainsOK /\ PurgeCleanOK

\* What the filter leaves holds nothing of the paths.
LEMMA PurgeCleanedHoldNothing ==
    ASSUME NEW branches
    PROVE  /\ ~ PurgeHolds(PurgeCleaned(branches))
           /\ DOMAIN PurgeCleaned(branches) = DOMAIN branches
BY DEF PurgeCleaned, PurgeCommit, PurgeHolds

\* Branches laid over others
LEMMA PurgeOverIs ==
    ASSUME NEW new, NEW old
    PROVE  /\ DOMAIN PurgeOver(new, old) = DOMAIN new \cup DOMAIN old
           /\ \A b \in DOMAIN new : PurgeOver(new, old)[b] = new[b]
           /\ \A b \in DOMAIN old \ DOMAIN new : PurgeOver(new, old)[b] = old[b]
BY DEF PurgeOver

\* It holds at the start.
LEMMA PurgeInitially == PurgeInit => PurgeIInv
BY DEF PurgeInit, PurgeIInv, PurgePlaces, PurgeDomainsOK, PurgeCleanOK, PurgeRewritten

\* The steps up to the inspection: nothing is rewritten yet.
LEMMA PurgeEarlyStep ==
    ASSUME PurgeIInv, PurgePrepare \/ PurgeFetch \/ PurgeIgnore \/ PurgeInspect \/ PurgeFail
    PROVE  PurgeIInv'
<1> USE DEF PurgePlaces, PurgeDomainsOK, PurgeCleanOK, PurgeRewritten
<1> USE DEF PurgeIInv, purgeServer, purgeLocal, purgePlan
<1>1. CASE PurgePrepare
  BY <1>1 DEF PurgePrepare
<1>2. CASE PurgeFetch
  BY <1>2 DEF PurgeFetch
<1>3. CASE PurgeIgnore
  BY <1>3 DEF PurgeIgnore
<1>4. CASE PurgeInspect
  BY <1>4 DEF PurgeInspect, PurgeSeen, PurgeHolds
<1>5. CASE PurgeFail
  BY <1>5 DEF PurgeFail, PurgeFails
<1>6. QED BY <1>1, <1>2, <1>3, <1>4, <1>5

\* The filter rewrites every local branch, with those of origin.
LEMMA PurgeFilterStep ==
    ASSUME PurgeIInv, PurgeFilter
    PROVE  PurgeIInv'
<1> USE DEF PurgeIInv, purgeServer, purgeLocal, purgePlan
<1> DEFINE heads == PurgeOver(purgeHeads, IF purgeRemoteName = PurgeOrigin
                                          THEN purgeTracking ELSE <<>>)
<1>1. /\ purgeAt = "filter" /\ purgeAt' = "cleanup"
      /\ purgeHeads' = PurgeCleaned(heads)
      /\ UNCHANGED <<purgePlan, purgeServer>>
  BY DEF PurgeFilter
<1>2. ~ PurgeHolds(PurgeCleaned(heads)) /\ DOMAIN PurgeCleaned(heads) = DOMAIN heads
  BY PurgeCleanedHoldNothing
<1>3. purgeRemoteName = PurgeOrigin => DOMAIN purgeTracking \subseteq DOMAIN heads
  BY PurgeOverIs
<1> HIDE DEF heads
<1>4. ~ PurgeHolds(purgeHeads)'
  BY <1>1, <1>2 DEF PurgeHolds
<1>5. QED
  BY <1>1, <1>2, <1>3, <1>4 DEF PurgePlaces, PurgeDomainsOK, PurgeCleanOK, PurgeRewritten

\* The cleanup and the restoration of the remote touch no branch.
LEMMA PurgeLateStep ==
    ASSUME PurgeIInv, PurgeCleanup \/ PurgeRestoreRemote
    PROVE  PurgeIInv'
BY DEF PurgeIInv, purgeServer, purgeLocal, purgePlan, PurgeCleanup, PurgeRestoreRemote, PurgeCleanOK,
  PurgeRewritten, PurgeHolds, PurgePlaces, PurgeDomainsOK, PurgeWithOrigin

\* The push puts the local branches over those of the server.
LEMMA PurgePushStep ==
    ASSUME PurgeIInv, PurgePush
    PROVE  PurgeIInv'
<1> USE DEF PurgeIInv, purgeServer, purgeLocal, purgePlan
<1>1. /\ purgeAt = "push" /\ purgeAt' \in {"attach", "purged"}
      /\ purgeRemote' = PurgeOver(purgeHeads, purgeRemote)
      /\ purgeLast' = purgeLast \ DOMAIN purgeHeads
      /\ UNCHANGED <<purgePlan, purgeHeads>>
  BY DEF PurgePush, PurgePushed
<1>2. ~ PurgeHolds(purgeHeads) /\ ~ PurgeHolds(purgeHeads)'
  BY <1>1 DEF PurgeCleanOK, PurgeRewritten, PurgeHolds
<1>3. /\ DOMAIN purgeRemote' = DOMAIN purgeHeads \cup DOMAIN purgeRemote
      /\ \A b \in DOMAIN purgeHeads : purgeRemote'[b] = purgeHeads[b]
  BY <1>1, PurgeOverIs
<1>4. ASSUME purgeRemoteName = PurgeOrigin
      PROVE  /\ DOMAIN purgeRemote' \subseteq DOMAIN purgeHeads'
             /\ \A b \in DOMAIN purgeRemote' : \A c \in purgeRemote'[b] : c.holds = "none"
  BY <1>1, <1>2, <1>3, <1>4 DEF PurgeDomainsOK, PurgeRewritten, PurgeHolds
<1>5. PurgeDomainsOK'
  BY <1>1, <1>3, <1>4 DEF PurgeDomainsOK
<1>6. PurgeCleanOK'
  BY <1>1, <1>2, <1>4 DEF PurgeCleanOK, PurgeWithOrigin
<1>7. QED BY <1>1, <1>5, <1>6 DEF PurgePlaces

\* The fetch after the push, and the upstreams
LEMMA PurgeAttachStep ==
    ASSUME PurgeIInv, PurgeAttach
    PROVE  PurgeIInv'
<1> USE DEF PurgeIInv, purgeServer, purgeLocal, purgePlan
<1>1. PICK missing \in SUBSET DOMAIN purgeHeads :
        purgeRemote' = PurgeOver([b \in missing |-> purgeHeads[b]], purgeRemote)
  <2> DEFINE missing == IF purgeAsked.missing THEN DOMAIN purgeHeads \ DOMAIN purgeRemote ELSE {}
  <2>1. missing \in SUBSET DOMAIN purgeHeads
    OBVIOUS
  <2>2. purgeRemote' = PurgeOver([b \in missing |-> purgeHeads[b]], purgeRemote)
    BY DEF PurgeAttach
  <2>3. QED BY <2>1, <2>2
<1>2. /\ purgeAt = "attach" /\ purgeAt' = "purged"
      /\ UNCHANGED <<purgePlan, purgeHeads, purgeLast>>
  BY DEF PurgeAttach
<1>3. ~ PurgeHolds(purgeHeads) /\ ~ PurgeHolds(purgeHeads)'
  BY <1>2 DEF PurgeCleanOK, PurgeRewritten, PurgeHolds
<1>4. /\ DOMAIN purgeRemote' = missing \cup DOMAIN purgeRemote
      /\ \A b \in missing : purgeRemote'[b] = purgeHeads[b]
      /\ \A b \in DOMAIN purgeRemote \ missing : purgeRemote'[b] = purgeRemote[b]
  <2> DEFINE new == [b \in missing |-> purgeHeads[b]]
  <2>1. DOMAIN new = missing /\ \A b \in missing : new[b] = purgeHeads[b]
    OBVIOUS
  <2> HIDE DEF new
  <2>2. purgeRemote' = PurgeOver(new, purgeRemote)
    BY <1>1 DEF new
  <2>3. /\ DOMAIN PurgeOver(new, purgeRemote) = DOMAIN new \cup DOMAIN purgeRemote
        /\ \A b \in DOMAIN new : PurgeOver(new, purgeRemote)[b] = new[b]
        /\ \A b \in DOMAIN purgeRemote \ DOMAIN new :
               PurgeOver(new, purgeRemote)[b] = purgeRemote[b]
    BY PurgeOverIs
  <2>4. QED BY <2>1, <2>2, <2>3
<1>5. PurgeDomainsOK'
  BY <1>2, <1>4 DEF PurgeDomainsOK, PurgeRewritten
<1>6. ASSUME PurgeWithOrigin,
             NEW b \in DOMAIN purgeRemote' \ purgeLast, NEW c \in purgeRemote'[b]
      PROVE  c.holds = "none"
  BY <1>3, <1>4, <1>6, <1>2 DEF PurgeHolds, PurgeCleanOK
<1>7. PurgeCleanOK'
  BY <1>2, <1>3, <1>6 DEF PurgeCleanOK, PurgeWithOrigin
<1>8. QED BY <1>2, <1>5, <1>7 DEF PurgePlaces

\* A colleague pushes one commit more.
LEMMA PurgeColleagueStep ==
    ASSUME PurgeIInv, PurgeColleague
    PROVE  PurgeIInv'
<1> USE DEF PurgeIInv, purgeServer, purgeLocal, purgePlan
<1>1. PICK b \in DOMAIN purgeRemote, holds \in {"none", "some"} :
          /\ purgeRemote' = [purgeRemote EXCEPT ![b] = @ \cup {PurgeCommit(PurgeLater, holds)}]
          /\ purgeLast' = {b}
  BY DEF PurgeColleague
<1>2. /\ purgeLast = {} /\ purgeAt \notin {"purged", "skipped", "failed"}
      /\ UNCHANGED <<purgePlan, purgeLocal, purgeAt>>
  BY DEF PurgeColleague
<1>3. /\ DOMAIN purgeRemote' = DOMAIN purgeRemote
      /\ \A d \in DOMAIN purgeRemote \ {b} : purgeRemote'[d] = purgeRemote[d]
  BY <1>1
<1>4. PurgeDomainsOK'
  BY <1>1, <1>2, <1>3 DEF PurgeDomainsOK
<1>5. PurgeHolds(purgeHeads)' <=> PurgeHolds(purgeHeads)
  BY <1>2 DEF PurgeHolds
<1>6. ASSUME purgeAt = "attach", PurgeWithOrigin, NEW d \in DOMAIN purgeRemote' \ purgeLast',
             NEW c \in purgeRemote'[d]
      PROVE  c.holds = "none"
  BY <1>1, <1>2, <1>3, <1>6 DEF PurgeCleanOK
<1>7. PurgeCleanOK'
  BY <1>2, <1>5, <1>6 DEF PurgeCleanOK, PurgeWithOrigin
<1>8. QED BY <1>2, <1>4, <1>7 DEF PurgePlaces

\* Every step keeps it.
LEMMA PurgeStep ==
    ASSUME PurgeIInv, PurgeNext
    PROVE  PurgeIInv'
BY PurgeEarlyStep, PurgeFilterStep, PurgeLateStep, PurgePushStep, PurgeAttachStep, PurgeColleagueStep DEF
  PurgeNext, PurgeRuns

\* What it says of a purge that ended
LEMMA PurgeIsTrue == PurgeIInv => PurgeReportsTrue
BY DEF PurgeIInv, PurgeCleanOK, PurgeWithOrigin, PurgeRewritten, PurgeReportsTrue

\* The types of a purge, and that a remote whose URL is known is one
PurgeTypes == PurgeTypeOK /\ (purgeURLKnown => purgeRemoteName \in PurgeRemotes)

\* They hold at the start.
LEMMA PurgeTypesFirst == PurgeInit => PurgeTypes
BY PurgeAssumption DEF PurgeInit, PurgeTypes, PurgeTypeOK

\* They are kept.
LEMMA PurgeTypesStay ==
    ASSUME PurgeTypes, [PurgeNext]_purgeVars
    PROVE  PurgeTypes'
<1> USE DEF PurgeTypes, PurgeTypeOK
<1>1. CASE UNCHANGED purgeVars
  BY <1>1 DEF purgeVars
<1>2. CASE PurgePrepare
  BY PurgeAssumption, <1>2 DEF PurgeSelected, PurgeDetected, Range, PurgePrepare, purgeLocal, purgeServer
<1>3. CASE PurgeFetch \/ PurgeInspect \/ PurgeCleanup \/ PurgeFail
  BY <1>3 DEF PurgeFetch, PurgeInspect, PurgeCleanup, PurgeFail, PurgeFails, purgeLocal, purgeServer, purgePlan
<1>4. CASE PurgeIgnore
  BY <1>4 DEF PurgeIgnore, purgeServer, purgePlan
<1>5. CASE PurgeFilter
  BY <1>5, PurgeCleanedHoldNothing DEF PurgeFilter, purgeServer, purgePlan, PurgeFollowed
<1>6. CASE PurgeRestoreRemote
  BY <1>6 DEF PurgeRestoreRemote, purgeServer, purgePlan
<1>7. CASE PurgePush
  BY <1>7 DEF PurgePush, purgePlan, PurgeOver, PurgePushed
<1>8. CASE PurgeAttach
  BY <1>8 DEF PurgeAttach, purgePlan, PurgeOver
<1>9. CASE PurgeColleague
  BY <1>9 DEF PurgeColleague, purgePlan, purgeLocal
<1>10. QED
  BY <1>1, <1>2, <1>3, <1>4, <1>5, <1>6, <1>7, <1>8, <1>9 DEF PurgeNext, PurgeRuns

----------------------------------------
\* DefaultMigration: what a migration deletes, and what one that fails has changed

\* Until the default branch is set, and where setting it fails
MigrateEarly == {"begin", "local", "remote", "verify", "rewrite", "commit", "push", "pages",
"default"}

MigrateUntouched ==
    /\ migrateOpen = migrateAsked.requests
    /\ migrateLocal["source"] = migrateAsked.local["source"]
    /\ migrateDeleted = MigrateAbsent

MigrateEarlyIsUntouched ==
    /\ migrateAt \in MigrateEarly
         \/ (migrateAt = "done" /\ migrateOutcome \in {"failed", "update error"}) => MigrateUntouched
    /\ migrateAt \in MigrateEarly \/ (migrateAt = "done" /\ migrateOutcome = "failed") =>
         migrateDefault = migrateAsked.default

\* The target is there once it has been prepared.
MigratePrepared ==
    migrateAt \in {"remote", "verify", "rewrite", "commit", "push"}
        => migrateLocal["target"] # MigrateAbsent

\* Only a repository whose default is the target is found to be unprotected.
MigratePromoted ==
    migrateAt \in {"list", "requests", "protection"} \/ ~migrateGuarded
        => migrateDefault = "target"

\* From the comparison to the deletion the remote target has what was compared.
MigrateStillContained ==
    MigrateDeletes /\ ~migrateMissing
        /\ migrateAt \in {"rewrite", "commit", "push", "pages", "default", "list", "requests",
                          "protection", "delete"} =>
        /\ migrateRemote["target"] # MigrateAbsent
        /\ MigrateTree(migrateVerified) \subseteq MigrateTree(migrateRemote["target"])

\* The source is deleted last.
MigrateNotYetDeleted ==
    migrateAt \notin {"prune", "review", "done"} => migrateDeleted = MigrateAbsent

\* The types
MigrateTyped == MigrateTypeOK /\ migrateAsked \in MigrateInvocations

\* The inductive invariant of a migration
MigrateIInv ==
    /\ MigrateTyped /\ MigrateEarlyIsUntouched /\ MigratePrepared /\ MigratePromoted
    /\ MigrateStillContained /\ MigrateNotYetDeleted
    /\ MigrateDeletesVerified

----------------------------------------
\* Lemmas on the operators

\* A larger branch makes a larger tree.
LEMMA MigrateTreeGrows ==
    ASSUME NEW branch, NEW larger, branch \subseteq larger
    PROVE  MigrateTree(branch) \subseteq MigrateTree(larger)
  BY DEF MigrateTree

\* A source that lacks nothing is a part of the target, as far as trees go.
LEMMA MigrateLacksNothing ==
    ASSUME NEW source, NEW target, ~MigrateLacks(source, target)
    PROVE  MigrateTree(source) \subseteq MigrateTree(target)
  BY MigrateTreeGrows DEF MigrateLacks

\* A branch is a set of commits or absent, and not both.
LEMMA MigrateBranchesDiffer ==
    /\ "source" \in MigrateBranches /\ "target" \in MigrateBranches
    /\ \A b \in MigrateBranch : b # MigrateAbsent => b \subseteq MigrateCommits
    /\ \A b \in SUBSET MigrateCommits : b # MigrateAbsent /\ b \in MigrateBranch
    /\ MigrateAbsent \in MigrateBranch
  BY MigrateAssumption DEF MigrateBranches, MigrateBranch

----------------------------------------
\* The initial states, and the steps

\* It holds at the start.
LEMMA MigrateInitHolds == MigrateInit => MigrateIInv
  BY MigrateBranchesDiffer, MigrateAssumption DEF MigrateInit, MigrateIInv, MigrateTyped, MigrateTypeOK,
    MigratePCs, MigrateEarlyIsUntouched, MigrateUntouched, MigratePrepared, MigratePromoted,
    MigrateStillContained, MigrateNotYetDeleted, MigrateDeletesVerified

\* The invocation is checked.
LEMMA MigrateBeginHolds ==
    ASSUME MigrateIInv, MigrateBegin
    PROVE  MigrateIInv'
<1> USE DEF MigrateBegin, MigrateIInv, MigrateGoes, MigrateEnds
<1>1. MigrateTyped'
  BY DEF MigrateTyped, MigrateTypeOK, migrateGit, migrateHub, migrateSeen, MigratePCs
<1>2. MigrateEarlyIsUntouched'
  BY DEF migrateGit, migrateHub, MigrateEarlyIsUntouched, MigrateUntouched, MigrateEarly
<1>3. (MigratePrepared /\ MigratePromoted)'
  BY DEF migrateHub, migrateSeen, MigratePrepared, MigratePromoted
<1>4. (MigrateStillContained /\ MigrateNotYetDeleted /\ MigrateDeletesVerified)'
  BY DEF MigrateStillContained, MigrateNotYetDeleted, MigrateDeletesVerified
<1>5. QED BY <1>1, <1>2, <1>3, <1>4 DEF MigrateIInv

\* The target is made here, unless it is there.
LEMMA MigratePrepareLocalHolds ==
    ASSUME MigrateIInv, MigratePrepareLocal
    PROVE  MigrateIInv'
<1> USE DEF MigratePrepareLocal, MigrateIInv, MigrateGoes, MigrateEnds
<1>1. MigrateTyped'
  BY MigrateBranchesDiffer DEF MigrateTyped, MigrateTypeOK, migrateHub, migrateSeen, MigratePCs
<1>2. MigrateEarlyIsUntouched'
  BY MigrateBranchesDiffer DEF MigrateTyped, MigrateTypeOK, migrateHub, MigrateEarlyIsUntouched,
    MigrateUntouched, MigrateEarly
<1>3. (MigratePrepared /\ MigratePromoted)'
  BY MigrateBranchesDiffer DEF MigrateTyped, MigrateTypeOK, migrateHub, migrateSeen, MigratePrepared,
    MigratePromoted
<1>4. (MigrateStillContained /\ MigrateNotYetDeleted /\ MigrateDeletesVerified)'
  BY DEF MigrateStillContained, MigrateNotYetDeleted, MigrateDeletesVerified
<1>5. QED BY <1>1, <1>2, <1>3, <1>4 DEF MigrateIInv

\* The target may be pushed.
LEMMA MigratePrepareRemoteHolds ==
    ASSUME MigrateIInv, MigratePrepareRemote
    PROVE  MigrateIInv'
<1> USE DEF MigratePrepareRemote, MigratePushes, MigrateIInv, MigrateGoes, MigrateEnds
<1>1. MigrateTyped'
  BY DEF MigrateTyped, MigrateTypeOK, migrateHub, migrateSeen, MigratePCs
<1>2. MigrateEarlyIsUntouched'
  BY DEF migrateHub, MigrateEarlyIsUntouched, MigrateUntouched, MigrateEarly
<1>3. (MigratePrepared /\ MigratePromoted)'
  BY DEF migrateHub, migrateSeen, MigratePrepared, MigratePromoted
<1>4. (MigrateStillContained /\ MigrateNotYetDeleted /\ MigrateDeletesVerified)'
  BY DEF MigrateStillContained, MigrateNotYetDeleted, MigrateDeletesVerified
<1>5. QED BY <1>1, <1>2, <1>3, <1>4 DEF MigrateIInv

\* What the comparison finds is where MigrateStillContained begins.
LEMMA MigrateVerifyHolds ==
    ASSUME MigrateIInv, MigrateVerify
    PROVE  MigrateIInv'
<1> USE DEF MigrateVerify, MigrateIInv, MigrateGoes, MigrateEnds
<1>1. MigrateTyped'
  BY MigrateBranchesDiffer DEF MigrateTyped, MigrateTypeOK, migrateGit, migrateHub, MigratePCs
<1>2. MigrateEarlyIsUntouched'
  BY DEF migrateGit, migrateHub, MigrateEarlyIsUntouched, MigrateUntouched, MigrateEarly
<1>3. (MigratePrepared /\ MigratePromoted)'
  BY DEF migrateGit, migrateHub, MigratePrepared, MigratePromoted
<1>4. (MigrateStillContained /\ MigrateNotYetDeleted /\ MigrateDeletesVerified)'
  BY MigrateBranchesDiffer, MigrateLacksNothing DEF migrateGit, MigrateStillContained, MigrateNotYetDeleted,
    MigrateDeletes, MigrateDeletesVerified
<1>5. QED BY <1>1, <1>2, <1>3, <1>4 DEF MigrateIInv

\* The workflow files are rewritten.
LEMMA MigrateRewriteFilesHolds ==
    ASSUME MigrateIInv, MigrateRewriteFiles
    PROVE  MigrateIInv'
<1> USE DEF MigrateRewriteFiles, MigrateIInv, MigrateGoes, MigrateEnds
<1>1. MigrateTyped'
  BY DEF MigrateTyped, MigrateTypeOK, migrateGit, migrateHub, MigratePCs
<1>2. MigrateEarlyIsUntouched'
  BY DEF migrateGit, migrateHub, MigrateEarlyIsUntouched, MigrateUntouched, MigrateEarly
<1>3. (MigratePrepared /\ MigratePromoted)'
  BY DEF migrateGit, migrateHub, MigratePrepared, MigratePromoted
<1>4. (MigrateStillContained /\ MigrateNotYetDeleted /\ MigrateDeletesVerified)'
  BY DEF migrateGit, MigrateStillContained, MigrateNotYetDeleted, MigrateDeletes, MigrateDeletesVerified
<1>5. QED BY <1>1, <1>2, <1>3, <1>4 DEF MigrateIInv

\* They are committed.
LEMMA MigrateCommitHolds ==
    ASSUME MigrateIInv, MigrateCommit
    PROVE  MigrateIInv'
<1> USE DEF MigrateCommit, MigrateIInv, MigrateGoes, MigrateEnds
<1>1. MigrateTyped'
  BY MigrateBranchesDiffer, MigrateAssumption DEF MigrateTyped, MigrateTypeOK, MigratePrepared, migrateHub,
    migrateSeen, MigratePCs
<1>2. MigrateEarlyIsUntouched'
  BY MigrateBranchesDiffer DEF MigrateTyped, MigrateTypeOK, migrateHub, MigrateEarlyIsUntouched,
    MigrateUntouched, MigrateEarly
<1>3. (MigratePrepared /\ MigratePromoted)'
  BY MigrateBranchesDiffer, MigrateAssumption DEF MigrateTyped, MigrateTypeOK, migrateHub, migrateSeen,
    MigratePrepared, MigratePromoted
<1>4. (MigrateStillContained /\ MigrateNotYetDeleted /\ MigrateDeletesVerified)'
  BY DEF migrateSeen, MigrateStillContained, MigrateNotYetDeleted, MigrateDeletes, MigrateDeletesVerified
<1>5. QED BY <1>1, <1>2, <1>3, <1>4 DEF MigrateIInv

\* The commit is pushed.
LEMMA MigratePushHolds ==
    ASSUME MigrateIInv, MigratePush
    PROVE  MigrateIInv'
<1> USE DEF MigratePush, MigratePushes, MigrateIInv, MigrateGoes, MigrateEnds
<1>1. MigrateTyped'
  BY DEF MigrateTyped, MigrateTypeOK, migrateHub, migrateSeen, MigratePCs
<1>2. MigrateEarlyIsUntouched'
  BY DEF migrateHub, MigrateEarlyIsUntouched, MigrateUntouched, MigrateEarly
<1>3. (MigratePrepared /\ MigratePromoted)'
  BY DEF migrateHub, migrateSeen, MigratePrepared, MigratePromoted
<1>4. (MigrateStillContained /\ MigrateNotYetDeleted /\ MigrateDeletesVerified)'
  BY MigrateTreeGrows DEF MigrateTyped, MigrateTypeOK, migrateSeen, MigratePrepared, MigrateStillContained,
    MigrateNotYetDeleted, MigrateDeletes, MigrateDeletesVerified
<1>5. QED BY <1>1, <1>2, <1>3, <1>4 DEF MigrateIInv

\* GitHub Pages follow the target.
LEMMA MigratePagesBranchHolds ==
    ASSUME MigrateIInv, MigratePagesBranch
    PROVE  MigrateIInv'
<1> USE DEF MigratePagesBranch, MigrateIInv, MigrateGoes, MigrateEnds
<1>1. MigrateTyped'
  BY DEF MigrateTyped, MigrateTypeOK, migrateGit, migrateSeen, MigratePCs
<1>2. MigrateEarlyIsUntouched'
  BY DEF migrateGit, MigrateEarlyIsUntouched, MigrateUntouched, MigrateEarly
<1>3. (MigratePrepared /\ MigratePromoted)'
  BY DEF migrateSeen, MigratePrepared, MigratePromoted
<1>4. (MigrateStillContained /\ MigrateNotYetDeleted /\ MigrateDeletesVerified)'
  BY DEF migrateGit, migrateSeen, MigrateStillContained, MigrateNotYetDeleted, MigrateDeletes,
    MigrateDeletesVerified
<1>5. QED BY <1>1, <1>2, <1>3, <1>4 DEF MigrateIInv

\* The last step that can end with an error, even if the default branch was set.
LEMMA MigrateSetDefaultHolds ==
    ASSUME MigrateIInv, MigrateSetDefault
    PROVE  MigrateIInv'
<1> USE DEF MigrateSetDefault, MigrateIInv, MigrateGoes, MigrateEnds
<1>1. MigrateTyped'
  BY DEF MigrateTyped, MigrateTypeOK, migrateGit, MigratePCs
<1>2. MigrateEarlyIsUntouched'
  BY DEF migrateGit, MigrateEarlyIsUntouched, MigrateUntouched, MigrateEarly
<1>3. (MigratePrepared /\ MigratePromoted)'
  BY DEF MigratePrepared, MigratePromoted
<1>4. (MigrateStillContained /\ MigrateNotYetDeleted /\ MigrateDeletesVerified)'
  BY DEF migrateGit, MigrateStillContained, MigrateNotYetDeleted, MigrateDeletes, MigrateDeletesVerified
<1>5. QED BY <1>1, <1>2, <1>3, <1>4 DEF MigrateIInv

\* The pull requests are listed.
LEMMA MigrateListHolds ==
    ASSUME MigrateIInv, MigrateList
    PROVE  MigrateIInv'
<1> USE DEF MigrateList, MigrateIInv, MigrateGoes, MigrateEnds
<1>1. MigrateTyped'
  BY DEF MigrateTyped, MigrateTypeOK, migrateGit, migrateHub, MigratePCs
<1>2. MigrateEarlyIsUntouched'
  BY DEF MigrateEarlyIsUntouched, MigrateEarly
<1>3. (MigratePrepared /\ MigratePromoted)'
  BY DEF migrateHub, MigratePrepared, MigratePromoted
<1>4. (MigrateStillContained /\ MigrateNotYetDeleted /\ MigrateDeletesVerified)'
  BY DEF migrateGit, MigrateStillContained, MigrateNotYetDeleted, MigrateDeletes, MigrateDeletesVerified
<1>5. QED BY <1>1, <1>2, <1>3, <1>4 DEF MigrateIInv

\* A pull request is retargeted.
LEMMA MigrateTransitionHolds ==
    ASSUME MigrateIInv, MigrateTransition
    PROVE  MigrateIInv'
<1> USE DEF MigrateTransition, MigrateIInv, MigrateGoes, MigrateEnds
<1>1. MigrateTyped'
  BY DEF MigrateTyped, MigrateTypeOK, migrateGit, MigratePCs
<1>2. MigrateEarlyIsUntouched'
  BY DEF MigrateEarlyIsUntouched, MigrateEarly
<1>3. (MigratePrepared /\ MigratePromoted)'
  BY DEF MigratePrepared, MigratePromoted
<1>4. (MigrateStillContained /\ MigrateNotYetDeleted /\ MigrateDeletesVerified)'
  BY DEF migrateGit, MigrateStillContained, MigrateNotYetDeleted, MigrateDeletes, MigrateDeletesVerified
<1>5. QED BY <1>1, <1>2, <1>3, <1>4 DEF MigrateIInv

\* The protection of the source is looked up.
LEMMA MigrateProtectionHolds ==
    ASSUME MigrateIInv, MigrateProtection
    PROVE  MigrateIInv'
<1> USE DEF MigrateProtection, MigrateIInv, MigrateGoes, MigrateEnds
<1>1. MigrateTyped'
  BY DEF MigrateTyped, MigrateTypeOK, migrateGit, migrateHub, MigratePCs
<1>2. MigrateEarlyIsUntouched'
  BY DEF MigrateEarlyIsUntouched, MigrateEarly
<1>3. (MigratePrepared /\ MigratePromoted)'
  BY DEF migrateHub, MigratePrepared, MigratePromoted
<1>4. (MigrateStillContained /\ MigrateNotYetDeleted /\ MigrateDeletesVerified)'
  BY DEF migrateGit, MigrateStillContained, MigrateNotYetDeleted, MigrateDeletes, MigrateDeletesVerified
<1>5. QED BY <1>1, <1>2, <1>3, <1>4 DEF MigrateIInv

\* What is deleted is what was verified, and the target still contains it.
LEMMA MigrateDeleteRemoteHolds ==
    ASSUME MigrateIInv, MigrateDeleteRemote
    PROVE  MigrateIInv'
<1> USE DEF MigrateDeleteRemote, MigrateIInv, MigrateGoes, MigrateEnds
<1>1. MigrateTyped'
  BY MigrateBranchesDiffer DEF MigrateTyped, MigrateTypeOK, migrateHub, migrateSeen, MigratePCs
<1>2. MigrateEarlyIsUntouched'
  BY DEF MigrateEarlyIsUntouched, MigrateEarly
<1>3. (MigratePrepared /\ MigratePromoted)'
  BY DEF migrateHub, migrateSeen, MigratePrepared, MigratePromoted
<1>4. (MigrateStillContained /\ MigrateNotYetDeleted)'
  BY DEF MigrateStillContained, MigrateNotYetDeleted
<1>5. MigrateDeletesVerified'
  BY MigrateBranchesDiffer DEF MigrateTyped, MigrateTypeOK, migrateHub, migrateSeen, MigratePromoted,
    MigrateStillContained, MigrateDeletesVerified, MigrateSafe
<1>6. QED BY <1>1, <1>2, <1>3, <1>4, <1>5 DEF MigrateIInv

\* The source is deleted here.
LEMMA MigrateDeleteLocalHolds ==
    ASSUME MigrateIInv, MigrateDeleteLocal
    PROVE  MigrateIInv'
<1> USE DEF MigrateDeleteLocal, MigrateIInv, MigrateGoes, MigrateEnds
<1>1. MigrateTyped'
  BY MigrateBranchesDiffer DEF MigrateTyped, MigrateTypeOK, migrateHub, migrateSeen, MigratePCs
<1>2. MigrateEarlyIsUntouched'
  BY DEF MigrateEarlyIsUntouched, MigrateEarly
<1>3. (MigratePrepared /\ MigratePromoted)'
  BY DEF migrateHub, migrateSeen, MigratePrepared, MigratePromoted
<1>4. (MigrateStillContained /\ MigrateNotYetDeleted)'
  BY DEF MigrateStillContained, MigrateNotYetDeleted
<1>5. MigrateDeletesVerified'
  BY DEF migrateHub, migrateSeen, MigrateDeletesVerified
<1>6. QED BY <1>1, <1>2, <1>3, <1>4, <1>5 DEF MigrateIInv

\* What is left over is reported.
LEMMA MigrateReviewHolds ==
    ASSUME MigrateIInv, MigrateReview
    PROVE  MigrateIInv'
<1> USE DEF MigrateReview, MigrateIInv, MigrateGoes, MigrateEnds
<1>1. MigrateTyped'
  BY DEF MigrateTyped, MigrateTypeOK, migrateGit, migrateHub, migrateSeen, MigratePCs
<1>2. MigrateEarlyIsUntouched'
  BY DEF MigrateEarlyIsUntouched, MigrateEarly
<1>3. (MigratePrepared /\ MigratePromoted)'
  BY DEF migrateHub, migrateSeen, MigratePrepared, MigratePromoted
<1>4. (MigrateStillContained /\ MigrateNotYetDeleted)'
  BY DEF MigrateStillContained, MigrateNotYetDeleted
<1>5. MigrateDeletesVerified'
  BY DEF migrateGit, migrateHub, migrateSeen, MigrateDeletesVerified
<1>6. QED BY <1>1, <1>2, <1>3, <1>4, <1>5 DEF MigrateIInv

\* A colleague only adds: the target contains what it contained.
LEMMA MigrateColleagueHolds ==
    ASSUME MigrateIInv, NEW b \in MigrateBranches, NEW c \in MigrateCommits,
           MigrateColleaguePushes(b, c)
    PROVE  MigrateIInv'
<1> USE DEF MigrateColleaguePushes, MigrateIInv
<1>1. MigrateTyped'
  BY MigrateBranchesDiffer DEF MigrateTyped, MigrateTypeOK, migrateHub, migrateSeen
<1>2. MigrateEarlyIsUntouched'
  BY DEF migrateHub, MigrateEarlyIsUntouched, MigrateUntouched
<1>3. (MigratePrepared /\ MigratePromoted)'
  BY DEF migrateHub, migrateSeen, MigratePrepared, MigratePromoted
<1>4. (MigrateStillContained /\ MigrateNotYetDeleted)'
  BY MigrateBranchesDiffer, MigrateTreeGrows DEF MigrateTyped, MigrateTypeOK, migrateSeen,
    MigrateStillContained, MigrateNotYetDeleted, MigrateDeletes
<1>5. MigrateDeletesVerified'
  BY MigrateBranchesDiffer, MigrateTreeGrows DEF MigrateTyped, MigrateTypeOK, migrateHub, migrateSeen,
    MigrateDeletesVerified
<1>6. QED BY <1>1, <1>2, <1>3, <1>4, <1>5 DEF MigrateIInv

\* Nothing changes in a stuttering step.
LEMMA MigrateStutterHolds ==
    ASSUME MigrateIInv, UNCHANGED migrateVars
    PROVE  MigrateIInv'
  BY DEF migrateVars, migrateGit, migrateHub, migrateSeen, MigrateIInv, MigrateTyped, MigrateTypeOK,
    MigrateEarlyIsUntouched, MigrateUntouched, MigratePrepared, MigratePromoted, MigrateStillContained,
    MigrateDeletes, MigrateNotYetDeleted, MigrateDeletesVerified

\* Every step keeps it.
LEMMA MigrateStep ==
    ASSUME MigrateIInv, [MigrateNext]_migrateVars
    PROVE  MigrateIInv'
BY MigrateBeginHolds, MigratePrepareLocalHolds, MigratePrepareRemoteHolds, MigrateVerifyHolds,
  MigrateRewriteFilesHolds, MigrateCommitHolds, MigratePushHolds, MigratePagesBranchHolds,
  MigrateSetDefaultHolds, MigrateListHolds, MigrateTransitionHolds, MigrateProtectionHolds,
  MigrateDeleteRemoteHolds, MigrateDeleteLocalHolds, MigrateReviewHolds, MigrateColleagueHolds,
  MigrateStutterHolds DEF MigrateNext, MigrateRuns

\* What it says of the deletion and of failures
LEMMA MigrateKeeps == MigrateIInv => MigrateIsSafe /\ MigrateTypeOK
BY DEF MigrateIInv, MigrateTyped, MigrateIsSafe, MigrateFailsEarly, MigrateEarlyIsUntouched, MigrateUntouched

----------------------------------------
\* Releases: what is published stays where it is

\* A table of tags
ReleaseTagged == [ReleaseTags -> ReleaseCommits \cup {ReleaseNoCommit}]

\* A command is at hand until the script is over.
ReleaseScriptOK ==
    /\ releaseLeft \in Seq(ReleaseCommands)
    /\ releaseAt # "done" => releaseLeft # <<>>

\* In a retag a mapping is at hand.
ReleaseMappingOK ==
    releaseAt \in {"resolve", "delete", "recreate", "force"} =>
        /\ releaseCommand.op = "retag"
        /\ releaseMapped \in Nat /\ releaseMapped + 1 <= Len(releaseCommand.mappings)

\* What each tag names is a commit or nothing, and what is pushed is a tag.
ReleaseTagsOK ==
    /\ releaseLocal \in ReleaseTagged /\ releaseRemote \in ReleaseTagged
    /\ releaseHead \in ReleaseCommits
    /\ releaseAt = "push" => releaseTag \in ReleaseTags

\* What retag has reported is where it was moved.
ReleaseMovedOK ==
    /\ releaseMoved \subseteq ReleaseTags \X ReleaseCommits
    /\ MovedTagsAreThere

\* The inductive invariant of a script of releases and retags
ReleaseIInv == ReleaseScriptOK /\ ReleaseMappingOK /\ ReleaseTagsOK /\ ReleaseMovedOK

----------------------------------------
\* Lemmas

\* The command at hand is the first that is left.
LEMMA ReleaseCommandAtHand ==
    ASSUME ReleaseScriptOK, releaseAt # "done"
    PROVE  /\ releaseCommand \in ReleaseCommands
           /\ Len(releaseLeft) \in Nat /\ Len(releaseLeft) > 0
           /\ Tail(releaseLeft) \in Seq(ReleaseCommands)
           /\ Len(releaseLeft) > 1 => Tail(releaseLeft) # <<>>
<1>1. releaseLeft \in Seq(ReleaseCommands) /\ releaseLeft # <<>>
  BY DEF ReleaseScriptOK
<1>2. Len(releaseLeft) \in Nat /\ Len(releaseLeft) > 0
  BY <1>1, EmptySeq
<1>3. /\ releaseCommand \in ReleaseCommands /\ Tail(releaseLeft) \in Seq(ReleaseCommands)
      /\ Len(Tail(releaseLeft)) = Len(releaseLeft) - 1
  BY <1>1, HeadTailProperties DEF releaseCommand
<1>4. Tail(releaseLeft) = <<>> => Len(Tail(releaseLeft)) = 0
  BY EmptySeq, Zenon
<1>5. QED BY <1>2, <1>3, <1>4

\* The mapping at hand is one of those of the retag.
LEMMA ReleaseMappingAtHand ==
    ASSUME ReleaseScriptOK, ReleaseMappingOK, releaseAt \in {"resolve", "delete", "recreate",
    "force"}
    PROVE  /\ releaseMapping.tag \in ReleaseTags
           /\ \E i \in DOMAIN releaseCommand.mappings :
                releaseCommand.mappings[i].tag = releaseMapping.tag
           /\ Len(releaseCommand.mappings) \in Nat
<1>1. releaseCommand \in ReleaseCommands /\ releaseCommand.op = "retag"
  BY ReleaseCommandAtHand DEF ReleaseMappingOK
<1>2. releaseCommand.mappings
        \in Seq([tag: ReleaseTags, target: ReleaseTags \cup ReleaseCommits])
  BY <1>1, ReleaseAssumption
<1>3. releaseMapped + 1 \in 1 .. Len(releaseCommand.mappings)
  BY <1>2, LenProperties DEF ReleaseMappingOK
<1>4. releaseMapping \in [tag: ReleaseTags, target: ReleaseTags \cup ReleaseCommits]
  BY <1>2, <1>3, ElementOfSeq DEF releaseMapping
<1>5. QED BY <1>2, <1>3, <1>4, LenProperties DEF releaseMapping

\* A command that is over is followed by the next one, or by nothing.
LEMMA ReleaseEndHolds ==
    ASSUME ReleaseScriptOK, releaseAt # "done", NEW ok \in BOOLEAN, ReleaseEnd(ok)
    PROVE  ReleaseScriptOK' /\ ReleaseMappingOK' /\ releaseAt' \in {"start", "done"}
  BY ReleaseCommandAtHand DEF ReleaseScriptOK, ReleaseMappingOK, ReleaseEnd

\* The tags that were moved stay where they are, when only others are published.
LEMMA ReleaseMovedStay ==
    ASSUME ReleaseMovedOK, UNCHANGED releaseMoved,
           \A t \in ReleaseTags : ReleaseExists(releaseRemote, t)
                                    => releaseRemote'[t] = releaseRemote[t]
    PROVE  ReleaseMovedOK'
BY ReleaseAssumption DEF ReleaseMovedOK, MovedTagsAreThere, ReleaseExists

----------------------------------------
\* The initial states, and the steps

\* It holds at the start.
LEMMA ReleaseInitHolds == ReleaseInit => ReleaseIInv
  BY ReleaseAssumption DEF ReleaseInit, ReleaseIInv, ReleaseScriptOK, ReleaseMappingOK, ReleaseTagsOK,
    ReleaseTagged, ReleaseMovedOK, MovedTagsAreThere

\* A command fails.
LEMMA ReleaseFailsHolds ==
    ASSUME ReleaseIInv, ReleaseFails
    PROVE  ReleaseIInv'
BY ReleaseEndHolds, ReleaseMovedStay DEF ReleaseIInv, ReleaseFails, releaseTags, ReleaseTagsOK

\* A command starts.
LEMMA ReleaseStartHolds ==
    ASSUME ReleaseIInv, ReleaseStart
    PROVE  ReleaseIInv'
BY ReleaseCommandAtHand, ReleaseAssumption, ReleaseMovedStay DEF ReleaseIInv, ReleaseScriptOK, ReleaseStart,
  releaseCommand, ReleaseMappingOK, releaseTags, ReleaseTagsOK

\* The tags are listed.
LEMMA ReleaseReadHolds ==
    ASSUME ReleaseIInv, ReleaseRead
    PROVE  ReleaseIInv'
BY ReleaseMovedStay DEF ReleaseIInv, ReleaseScriptOK, ReleaseMappingOK, ReleaseRead, releaseTags, releaseRun,
  ReleaseTagsOK

\* A release ends before anything is tagged.
LEMMA ReleaseDecideHolds ==
    ASSUME ReleaseIInv, ReleaseDecide
    PROVE  ReleaseIInv'
<1>1. PICK ok \in BOOLEAN : ReleaseEnd(ok)
  BY DEF ReleaseDecide
<1>2. ReleaseScriptOK' /\ ReleaseMappingOK' /\ releaseAt' \in {"start", "done"}
  BY <1>1, ReleaseEndHolds DEF ReleaseIInv, ReleaseDecide
<1>3. ReleaseTagsOK' /\ ReleaseMovedOK'
  BY <1>2, ReleaseMovedStay DEF ReleaseIInv, ReleaseDecide, releaseTags, ReleaseTagsOK
<1>4. QED BY <1>2, <1>3 DEF ReleaseIInv

\* The tag is made here.
LEMMA ReleaseCreateHolds ==
    ASSUME ReleaseIInv, ReleaseCreate
    PROVE  ReleaseIInv'
BY ReleaseMovedStay DEF ReleaseIInv, ReleaseScriptOK, ReleaseMappingOK, ReleaseCreate, releaseRun,
  ReleaseTagsOK, ReleaseTagged

\* An accepted push makes a tag of its own, and no other.
LEMMA ReleasePushHolds ==
    ASSUME ReleaseIInv, ReleasePush
    PROVE  ReleaseIInv'
BY ReleaseEndHolds, ReleaseMovedStay DEF ReleaseIInv, ReleasePush, ReleaseTagsOK, ReleaseTagged,
  ReleasePushAccepted

\* The target of a mapping is resolved.
LEMMA ReleaseResolveHolds ==
    ASSUME ReleaseIInv, ReleaseResolve
    PROVE  ReleaseIInv'
BY ReleaseMovedStay DEF ReleaseIInv, ReleaseScriptOK, ReleaseMappingOK, ReleaseResolve, releaseRun,
  releaseCommand, releaseTags, ReleaseTagsOK

\* The tag is deleted here.
LEMMA ReleaseDeleteHolds ==
    ASSUME ReleaseIInv, ReleaseDelete
    PROVE  ReleaseIInv'
BY ReleaseMovedStay DEF ReleaseIInv, ReleaseScriptOK, ReleaseMappingOK, ReleaseDelete, releaseRun,
  releaseCommand, ReleaseTagsOK, ReleaseTagged

\* The tag is made again.
LEMMA ReleaseRecreateHolds ==
    ASSUME ReleaseIInv, ReleaseRecreate
    PROVE  ReleaseIInv'
BY ReleaseMovedStay DEF ReleaseIInv, ReleaseScriptOK, ReleaseMappingOK, ReleaseRecreate, releaseRun,
  releaseCommand, ReleaseTagsOK, ReleaseTagged, ReleaseNamed, ReleaseExists

\* A forced push moves the tag of the mapping at hand, and no other.
LEMMA ReleaseForceHolds ==
    ASSUME ReleaseIInv, ReleaseForce
    PROVE  ReleaseIInv'
<1> DEFINE tag == releaseMapping.tag
<1>1. tag \in ReleaseTags /\ Len(releaseCommand.mappings) \in Nat
  BY ReleaseMappingAtHand DEF ReleaseIInv, ReleaseForce
<1>2. releaseLocal[tag] \in ReleaseCommits
  BY <1>1 DEF ReleaseIInv, ReleaseForce, ReleaseExists, ReleaseTagsOK, ReleaseTagged
<1>3. ReleaseScriptOK' /\ ReleaseMappingOK' /\ releaseAt' # "push"
  <2>1. CASE releaseMapped + 1 = Len(releaseCommand.mappings)
    BY <2>1, ReleaseEndHolds DEF ReleaseForce, ReleaseIInv
  <2>2. CASE releaseMapped + 1 # Len(releaseCommand.mappings)
    BY <1>1, <2>2 DEF ReleaseIInv, ReleaseForce, ReleaseScriptOK, ReleaseMappingOK, releaseCommand
  <2>3. QED BY <2>1, <2>2
<1>4. releaseRemote' = [releaseRemote EXCEPT ![tag] = releaseLocal[tag]]
  BY DEF ReleaseForce, ReleaseForced
<1>5. ReleaseTagsOK'
  BY <1>2, <1>3, <1>4 DEF ReleaseIInv, ReleaseForce, ReleaseTagsOK, ReleaseTagged
<1>6. ReleaseMovedOK'
  BY <1>1, <1>2, <1>4 DEF ReleaseForce, ReleaseIInv, ReleaseMovedOK, MovedTagsAreThere, ReleaseTagsOK,
    ReleaseTagged
<1>7. QED BY <1>3, <1>5, <1>6 DEF ReleaseIInv

\* Others publish, fetch and commit; what is published already is left alone.
LEMMA ReleaseOthersHold ==
    ASSUME ReleaseIInv, ReleaseColleague \/ ReleaseFetch \/ ReleaseOperatorCommits
    PROVE  ReleaseIInv'
BY ReleaseAssumption, ReleaseMovedStay DEF ReleaseColleague, ReleaseFetch, ReleaseOperatorCommits, releaseRun,
  ReleaseIInv, ReleaseScriptOK, ReleaseMappingOK, releaseCommand, ReleaseTagsOK, ReleaseTagged, releaseTags

\* Nothing changes in a stuttering step.
LEMMA ReleaseStutterHolds ==
    ASSUME ReleaseIInv, UNCHANGED releaseVars
    PROVE  ReleaseIInv'
  BY DEF releaseVars, releaseTags, releaseRun, ReleaseIInv, ReleaseScriptOK, ReleaseMappingOK, ReleaseTagsOK,
    ReleaseMovedOK, MovedTagsAreThere, releaseCommand

\* Every step keeps it.
LEMMA ReleaseStep ==
    ASSUME ReleaseIInv, [ReleaseNextStep]_releaseVars
    PROVE  ReleaseIInv'
BY ReleaseStartHolds, ReleaseReadHolds, ReleaseDecideHolds, ReleaseCreateHolds, ReleasePushHolds,
  ReleaseResolveHolds, ReleaseDeleteHolds, ReleaseRecreateHolds, ReleaseForceHolds, ReleaseFailsHolds,
  ReleaseOthersHold, ReleaseStutterHolds DEF ReleaseNextStep, ReleaseRuns

\* A published tag that a step changes is named by a mapping of the retag at hand.
LEMMA ReleaseStepLeavesTags ==
    ASSUME ReleaseIInv, ReleaseNextStep, NEW t \in ReleaseTags,
           ReleaseExists(releaseRemote, t), releaseRemote'[t] # releaseRemote[t]
    PROVE  /\ releaseCommand.op = "retag"
           /\ \E i \in DOMAIN releaseCommand.mappings : releaseCommand.mappings[i].tag = t
<1>1. CASE ReleaseForce
  BY <1>1, ReleaseMappingAtHand DEF ReleaseForce, ReleaseForced, ReleaseIInv, ReleaseTagsOK, ReleaseTagged,
    ReleaseMappingOK
<1>2. CASE ReleasePush
  BY <1>2 DEF ReleasePush, ReleasePushAccepted, ReleaseIInv, ReleaseTagsOK, ReleaseTagged
<1>3. CASE ReleaseColleague
  BY <1>3 DEF ReleaseColleague, ReleaseIInv, ReleaseTagsOK, ReleaseTagged
<1>4. CASE ~(ReleaseForce \/ ReleasePush \/ ReleaseColleague)
  BY <1>4 DEF ReleaseNextStep, ReleaseRuns, ReleaseStart, ReleaseRead, ReleaseDecide, ReleaseCreate,
    ReleaseResolve, ReleaseDelete, ReleaseRecreate, ReleaseFails, ReleaseFetch, ReleaseOperatorCommits,
    releaseTags
<1>5. QED BY <1>1, <1>2, <1>3, <1>4

----------------------------------------
\* Releases: the version that is chosen

\* What has been read to choose a version, and the version chosen
ReleaseVersionOK ==
    /\ releaseAsked \in ReleaseInvocations
    /\ releaseLeft \in Seq(Range(releaseAsked.commands))
    /\ IsFiniteSet(ReleaseThere(releaseLocal)) /\ IsFiniteSet(ReleaseThere(releaseRemote))
    /\ releaseListed \subseteq ReleaseTags /\ IsFiniteSet(releaseListed)
    /\ releaseAt \in {"read", "decide"} => releaseCommand.op = "next"
    /\ releaseAt = "decide" =>
          releaseNext = <<>> /\ releasePrevious = ReleaseLatest(releaseCommand, releaseListed)
    /\ NextVersionIsNew

\* Every set of numbers that is not empty has a least one.
LEMMA ReleaseFewest ==
    ASSUME NEW S \in SUBSET Nat, S # {}
    PROVE  \E x \in S : \A y \in S : x <= y
<1>1. IsWellFoundedOn(OpToRel(<, Nat), Nat)
  BY NatLessThanWellFounded
<1>2. PICK x \in S : \A y \in S : ~(<<y, x>> \in OpToRel(<, Nat))
  BY <1>1, WFMin
<1>3. \A y \in S : ~(y < x)
  BY <1>2, Zenon DEF OpToRel
<1>4. QED BY <1>3

\* Versions are compared by their numbers from the left, times as numbers.
LEMMA ReleaseOlderIs ==
    /\ \A t, u \in Seq(Nat) : Len(t) = 3 /\ Len(u) = 3 =>
         (ReleaseOlder(t, u) <=>
            \/ t[1] < u[1]
            \/ t[1] = u[1] /\ t[2] < u[2]
            \/ t[1] = u[1] /\ t[2] = u[2] /\ t[3] < u[3])
    /\ \A t, u \in Seq(Nat) : Len(t) = 1 /\ Len(u) = 1 => (ReleaseOlder(t, u) <=> t[1] < u[1])
<1>1. ASSUME NEW t \in Seq(Nat), NEW u \in Seq(Nat), Len(t) = 3, Len(u) = 3
      PROVE  ReleaseOlder(t, u) <=> \/ t[1] < u[1]
                                    \/ t[1] = u[1] /\ t[2] < u[2]
                                    \/ t[1] = u[1] /\ t[2] = u[2] /\ t[3] < u[3]
  BY <1>1 DEF ReleaseOlder
<1>2. ASSUME NEW t \in Seq(Nat), NEW u \in Seq(Nat), Len(t) = 1, Len(u) = 1
      PROVE  ReleaseOlder(t, u) <=> t[1] < u[1]
  BY <1>2 DEF ReleaseOlder
<1>3. QED BY <1>1, <1>2

\* On the tags of one line the order is strict, transitive and total.
LEMMA ReleaseLineOrdered ==
    ASSUME NEW policy, NEW tags \in SUBSET ReleaseTags,
           NEW t \in ReleaseLine(policy, tags), NEW u \in ReleaseLine(policy, tags),
           NEW w \in ReleaseLine(policy, tags)
    PROVE  /\ ~ReleaseOlder(t, t)
           /\ t # u => ReleaseOlder(t, u) \/ ReleaseOlder(u, t)
           /\ ReleaseOlder(t, u) /\ ReleaseOlder(u, w) => ReleaseOlder(t, w)
<1>1. t \in Seq(Nat) /\ u \in Seq(Nat) /\ w \in Seq(Nat)
  BY ReleaseAssumption DEF ReleaseLine
<1>2. CASE policy.scheme = "calver"
  BY <1>2, <1>1, ElementOfSeq, SeqEqual, ReleaseOlderIs DEF ReleaseLine
<1>3. CASE policy.scheme # "calver"
  <2>1. Len(t) = 3 /\ Len(u) = 3 /\ Len(w) = 3
    BY <1>3 DEF ReleaseLine
  <2>2. \A i \in 1 .. 3 : t[i] \in Nat /\ u[i] \in Nat /\ w[i] \in Nat
    BY <1>1, <2>1, ElementOfSeq
  <2>3. ASSUME t[1] = u[1], t[2] = u[2], t[3] = u[3] PROVE t = u
    <3>1. \A i \in 1 .. Len(t) : t[i] = u[i]
      BY <2>1, <2>3
    <3>2. QED BY <1>1, <2>1, <3>1, SeqEqual
  <2>4. \A a, b \in {t, u, w} :
          ReleaseOlder(a, b) <=> \/ a[1] < b[1]
                                 \/ a[1] = b[1] /\ a[2] < b[2]
                                 \/ a[1] = b[1] /\ a[2] = b[2] /\ a[3] < b[3]
    BY <1>1, <2>1, ReleaseOlderIs
  <2>5. /\ t[1] \in Nat /\ t[2] \in Nat /\ t[3] \in Nat
        /\ u[1] \in Nat /\ u[2] \in Nat /\ u[3] \in Nat
        /\ w[1] \in Nat /\ w[2] \in Nat /\ w[3] \in Nat
    BY <2>2
  <2>6. ~ReleaseOlder(t, t)
    BY <2>4, <2>5
  <2>7. t # u => ReleaseOlder(t, u) \/ ReleaseOlder(u, t)
    BY <2>3, <2>4, <2>5
  <2>8. ReleaseOlder(t, u) /\ ReleaseOlder(u, w) => ReleaseOlder(t, w)
    BY <2>4, <2>5
  <2>9. QED BY <2>6, <2>7, <2>8
<1>4. QED BY <1>2, <1>3

\* The latest tag of a line is later than every other one.
LEMMA ReleaseLatestIs ==
    ASSUME NEW policy, NEW tags \in SUBSET ReleaseTags, IsFiniteSet(tags),
           ReleaseLine(policy, tags) # {}
    PROVE  /\ ReleaseLatest(policy, tags) \in ReleaseLine(policy, tags)
           /\ \A u \in ReleaseLine(policy, tags) :
                u # ReleaseLatest(policy, tags) => ReleaseOlder(u, ReleaseLatest(policy, tags))
<1> DEFINE line == ReleaseLine(policy, tags)
           Later(t) == {u \in line : ReleaseOlder(t, u)}
           counts == {Cardinality(Later(t)) : t \in line}
<1>1. IsFiniteSet(line)
  BY FS_Subset DEF ReleaseLine
<1>2. \A t \in line : IsFiniteSet(Later(t)) /\ Cardinality(Later(t)) \in Nat
  BY <1>1, FS_Subset, FS_CardinalityType
<1>3. counts \in SUBSET Nat /\ counts # {}
  BY <1>2
<1>4. PICK t \in line : \A u \in line : Cardinality(Later(t)) <= Cardinality(Later(u))
  <2>1. PICK n \in counts : \A m \in counts : n <= m
    BY <1>3, ReleaseFewest
  <2>2. QED BY <2>1
<1>5. ASSUME NEW u \in line, ReleaseOlder(t, u) PROVE FALSE
  <2>1. Later(u) \subseteq Later(t)
    BY <1>4, <1>5, ReleaseLineOrdered
  <2>2. u \in Later(t) /\ u \notin Later(u)
    BY <1>4, <1>5, ReleaseLineOrdered
  <2>3. Cardinality(Later(u)) <= Cardinality(Later(t))
        /\ Cardinality(Later(u)) # Cardinality(Later(t))
    BY <1>2, <1>4, <2>1, <2>2, FS_Subset
  <2>4. Cardinality(Later(t)) <= Cardinality(Later(u))
    BY <1>4
  <2>5. QED BY <1>2, <1>4, <2>3, <2>4
<1>6. \A u \in line : u # t => ReleaseOlder(u, t)
  BY <1>4, <1>5, ReleaseLineOrdered
<1>7. ReleaseLatest(policy, tags) = CHOOSE x \in line : \A u \in line : u # x => ReleaseOlder(u, x)
  BY DEF ReleaseLatest
<1>8. QED BY <1>4, <1>6, <1>7

\* A successor of a version is later than it and everything before it.
LEMMA ReleaseSuccessorIsLater ==
    ASSUME NEW v \in Seq(Nat), Len(v) = 3, NEW bump, NEW t \in Seq(Nat), Len(t) = 3,
           t = v \/ ReleaseOlder(t, v)
    PROVE  ReleaseOlder(t, ReleaseSuccessor(v, bump))
<1> DEFINE s == ReleaseSuccessor(v, bump)
<1>1. v[1] \in Nat /\ v[2] \in Nat /\ v[3] \in Nat /\ t[1] \in Nat /\ t[2] \in Nat /\ t[3] \in Nat
  <2>1. \A i \in 1 .. 3 : v[i] \in Nat /\ t[i] \in Nat
    BY ElementOfSeq
  <2>2. QED BY <2>1
<1>2. /\ s \in Seq(Nat) /\ Len(s) = 3
      /\ \/ s[1] = v[1] + 1
         \/ s[1] = v[1] /\ s[2] = v[2] + 1
         \/ s[1] = v[1] /\ s[2] = v[2] /\ s[3] = v[3] + 1
  BY <1>1 DEF ReleaseSuccessor
<1>3. /\ t = v => t[1] = v[1] /\ t[2] = v[2] /\ t[3] = v[3]
      /\ t # v => \/ t[1] < v[1]
                  \/ t[1] = v[1] /\ t[2] < v[2]
                  \/ t[1] = v[1] /\ t[2] = v[2] /\ t[3] < v[3]
  BY ReleaseOlderIs
<1>4. ReleaseOlder(t, s) <=> \/ t[1] < s[1]
                             \/ t[1] = s[1] /\ t[2] < s[2]
                             \/ t[1] = s[1] /\ t[2] = s[2] /\ t[3] < s[3]
  BY <1>2, ReleaseOlderIs
<1>5. t[1] < s[1] \/ (t[1] = s[1] /\ t[2] < s[2]) \/ (t[1] = s[1] /\ t[2] = s[2] /\ t[3] < s[3])
  <2>1. CASE t = v
    BY <1>1, <1>2, <1>3, <2>1
  <2>2. CASE t # v
    <3>1. s[1] \in Nat /\ s[2] \in Nat /\ s[3] \in Nat
      <4>1. \A i \in 1 .. 3 : s[i] \in Nat
        BY <1>2, ElementOfSeq
      <4>2. QED BY <4>1
    <3>2. CASE t[1] < v[1]
      BY <1>1, <1>2, <3>1, <3>2
    <3>3. CASE t[1] = v[1] /\ t[2] < v[2]
      BY <1>1, <1>2, <3>1, <3>3
    <3>4. CASE t[1] = v[1] /\ t[2] = v[2] /\ t[3] < v[3]
      BY <1>1, <1>2, <3>1, <3>4
    <3>5. QED BY <1>3, <2>2, <3>2, <3>3, <3>4
  <2>3. QED BY <2>1, <2>2
<1>6. QED BY <1>4, <1>5

\* Whatever is chosen is later than every tag of the line that was listed.
LEMMA ReleaseChoiceIsNew ==
    ASSUME ReleaseIInv, ReleaseVersionOK, releaseAt = "decide",
           NEW v \in IF releaseCommand.scheme = "calver" THEN ReleaseCalVerChoices
                     ELSE ReleaseSemVerChoices
    PROVE  \A t \in ReleaseLine(releaseCommand, releaseListed) : ReleaseOlder(t, v)
<1> DEFINE line == ReleaseLine(releaseCommand, releaseListed)
<1>1. /\ releaseListed \in SUBSET ReleaseTags /\ IsFiniteSet(releaseListed)
      /\ releasePrevious = ReleaseLatest(releaseCommand, releaseListed)
      /\ releaseCommand.op = "next"
  BY DEF ReleaseVersionOK
<1>2. releaseCommand.fixedMajor \in Nat /\ releaseCommand.time \in Nat
  BY <1>1, ReleaseCommandAtHand, ReleaseAssumption DEF ReleaseIInv
<1> SUFFICES ASSUME NEW t \in line PROVE ReleaseOlder(t, v)
  OBVIOUS
<1>3. releasePrevious \in line /\ (t = releasePrevious \/ ReleaseOlder(t, releasePrevious))
  BY <1>1, ReleaseLatestIs
<1>4. t \in Seq(Nat) /\ releasePrevious \in Seq(Nat)
  BY <1>1, <1>3, ReleaseAssumption DEF ReleaseLine
<1>5. CASE releaseCommand.scheme = "calver"
  <2>1. Len(t) = 1 /\ Len(releasePrevious) = 1
    BY <1>3, <1>5 DEF ReleaseLine
  <2>2. v = <<releaseCommand.time>> /\ ReleaseOlder(releasePrevious, v)
    BY <2>1, EmptySeq, <1>5 DEF ReleaseCalVerChoices
  <2>3. v \in Seq(Nat) /\ Len(v) = 1
    BY <1>2, <2>2
  <2>4. t[1] \in Nat /\ releasePrevious[1] \in Nat /\ v[1] \in Nat
    <3>1. 1 \in 1 .. 1
      OBVIOUS
    <3>2. QED BY <1>4, <2>1, <2>3, <3>1, ElementOfSeq
  <2>5. t[1] <= releasePrevious[1] /\ releasePrevious[1] < v[1]
    BY <1>3, <1>4, <2>1, <2>2, <2>3, <2>4, ReleaseOlderIs
  <2>6. QED BY <1>4, <2>1, <2>3, <2>4, <2>5, ReleaseOlderIs
<1>6. CASE releaseCommand.scheme # "calver"
  BY <1>3, <1>6, <1>4, EmptySeq, ReleaseSuccessorIsLater DEF ReleaseLine, ReleaseSemVerChoices
<1>7. QED BY <1>5, <1>6

\* Tags come one at a time, or are fetched: there are finitely many.
LEMMA ReleaseTagsStayFinite ==
    ASSUME ReleaseIInv, ReleaseVersionOK, ReleaseNextStep
    PROVE  IsFiniteSet(ReleaseThere(releaseLocal))' /\ IsFiniteSet(ReleaseThere(releaseRemote))'
<1>1. releaseLocal \in ReleaseTagged /\ releaseRemote \in ReleaseTagged
  BY DEF ReleaseIInv, ReleaseTagsOK
<1>2. IsFiniteSet(ReleaseThere(releaseLocal)) /\ IsFiniteSet(ReleaseThere(releaseRemote))
  BY DEF ReleaseVersionOK
<1>3. \A t : IsFiniteSet(ReleaseThere(releaseLocal) \cup {t})
             /\ IsFiniteSet(ReleaseThere(releaseRemote) \cup {t})
  BY <1>2, FS_AddElement
<1>4. IsFiniteSet(ReleaseThere(releaseLocal) \cup ReleaseThere(releaseRemote))
  BY <1>2, FS_Union
<1>5. CASE \E t, c : releaseLocal' = [releaseLocal EXCEPT ![t] = c] /\ releaseRemote' = releaseRemote
  <2>1. PICK t, c : releaseLocal' = [releaseLocal EXCEPT ![t] = c]
    BY <1>5
  <2>2. ReleaseThere(releaseLocal') \subseteq ReleaseThere(releaseLocal) \cup {t}
    BY <1>1, <2>1 DEF ReleaseThere, ReleaseTagged
  <2>3. IsFiniteSet(ReleaseThere(releaseLocal'))
    BY <1>3, <2>2, FS_Subset
  <2>4. QED BY <1>2, <1>5, <2>3 DEF ReleaseThere
<1>6. CASE \E t, c : releaseRemote' = [releaseRemote EXCEPT ![t] = c] /\ releaseLocal' = releaseLocal
  <2>1. PICK t, c : releaseRemote' = [releaseRemote EXCEPT ![t] = c]
    BY <1>6
  <2>2. ReleaseThere(releaseRemote') \subseteq ReleaseThere(releaseRemote) \cup {t}
    BY <1>1, <2>1 DEF ReleaseThere, ReleaseTagged
  <2>3. IsFiniteSet(ReleaseThere(releaseRemote'))
    BY <1>3, <2>2, FS_Subset
  <2>4. QED BY <1>2, <1>6, <2>3 DEF ReleaseThere
<1>7. CASE ReleaseFetch
  BY <1>1, <1>7, <1>4, FS_Subset, <1>2 DEF ReleaseFetch, ReleaseThere, ReleaseExists
<1>8. CASE UNCHANGED releaseTags
  BY <1>2, <1>8 DEF releaseTags, ReleaseThere
<1>9. CASE ReleaseCreate \/ ReleaseDelete \/ ReleaseRecreate
  BY <1>5, <1>9 DEF ReleaseCreate, ReleaseDelete, ReleaseRecreate
<1>10. CASE ReleasePush \/ ReleaseForce \/ ReleaseColleague
  BY <1>6, <1>10 DEF ReleasePush, ReleaseForce, ReleaseForced, ReleaseColleague
<1>11. CASE ReleaseStart \/ ReleaseRead \/ ReleaseDecide \/ ReleaseResolve \/ ReleaseFails
            \/ ReleaseOperatorCommits
  BY <1>8, <1>11 DEF ReleaseStart, ReleaseRead, ReleaseDecide, ReleaseResolve, ReleaseFails,
    ReleaseOperatorCommits
<1>12. QED BY <1>7, <1>9, <1>10, <1>11 DEF ReleaseNextStep, ReleaseRuns

\* Where no version is read or chosen, what was chosen stays.
LEMMA ReleaseVersionStays ==
    ASSUME ReleaseIInv, ReleaseVersionOK,
           UNCHANGED <<releaseAsked, releaseListed, releasePrevious, releaseNext>>,
           releaseLeft' = releaseLeft \/ (releaseLeft # <<>> /\ releaseLeft' = Tail(releaseLeft)),
           releaseAt' \in {"read", "decide"} => UNCHANGED <<releaseAt, releaseLeft>>,
           IsFiniteSet(ReleaseThere(releaseLocal))', IsFiniteSet(ReleaseThere(releaseRemote))'
    PROVE  ReleaseVersionOK'
BY HeadTailProperties DEF ReleaseVersionOK, NextVersionIsNew, releaseCommand

\* Every step keeps what was read and what is chosen.
LEMMA ReleaseVersionStep ==
    ASSUME ReleaseIInv, ReleaseVersionOK, ReleaseNextStep
    PROVE  ReleaseVersionOK'
<1>1. IsFiniteSet(ReleaseThere(releaseLocal))' /\ IsFiniteSet(ReleaseThere(releaseRemote))'
  BY ReleaseTagsStayFinite
<1>2. releaseAt # "done" => releaseLeft # <<>>
  BY DEF ReleaseIInv, ReleaseScriptOK
<1>3. CASE ReleaseStart
  BY <1>3, <1>1 DEF ReleaseStart, releaseChoice, ReleaseVersionOK, NextVersionIsNew, releaseCommand
<1>4. CASE ReleaseRead
  BY <1>4, FS_Subset, <1>1 DEF ReleaseRead, ReleaseVersionOK, ReleaseThere, releaseCommand, NextVersionIsNew
<1>5. CASE ReleaseDecide
  <2>1. /\ UNCHANGED <<releaseAsked, releaseListed>> /\ releaseAt = "decide"
        /\ releaseLeft' = Tail(releaseLeft) /\ releaseAt' \in {"start", "done"}
    BY <1>5 DEF ReleaseDecide, ReleaseEnd
  <2>2. releaseLeft' \in Seq(Range(releaseAsked.commands)) /\ releaseCommand \in Range(releaseAsked.commands)
    BY <1>2, <2>1, HeadTailProperties DEF ReleaseVersionOK, releaseCommand
  <2>3. releaseNext' # <<>> => \A t \in ReleaseLine(releaseCommand, releaseListed) :
                                  ReleaseOlder(t, releaseNext')
    BY <1>5, <2>1, ReleaseChoiceIsNew DEF ReleaseDecide, ReleaseVersionOK
  <2>4. PICK i \in DOMAIN releaseAsked.commands : releaseAsked.commands[i] = releaseCommand
    BY <2>2 DEF Range
  <2>5. releaseCommand.op = "next"
    BY <2>1 DEF ReleaseVersionOK
  <2>6. NextVersionIsNew'
    BY <2>1, <2>3, <2>4, <2>5 DEF NextVersionIsNew
  <2>7. QED BY <1>1, <2>1, <2>2, <2>6 DEF ReleaseVersionOK
<1>6. CASE ReleasePush \/ ReleaseFails
  BY <1>1, <1>2, <1>6, ReleaseVersionStays DEF ReleasePush, ReleaseFails, ReleaseEnd, releaseChoice
<1>7. CASE ReleaseForce
  BY <1>7, <1>2, <1>1, ReleaseVersionStays DEF ReleaseForce, releaseChoice, ReleaseEnd
<1>8. CASE ReleaseCreate \/ ReleaseResolve \/ ReleaseDelete \/ ReleaseRecreate
  BY <1>8, <1>1, ReleaseVersionStays DEF ReleaseCreate, ReleaseResolve, ReleaseDelete, ReleaseRecreate,
    releaseChoice
<1>9. CASE ReleaseColleague \/ ReleaseFetch \/ ReleaseOperatorCommits
  BY <1>9, <1>1, ReleaseVersionStays DEF ReleaseColleague, ReleaseFetch, ReleaseOperatorCommits, releaseChoice
<1>10. QED BY <1>3, <1>4, <1>5, <1>6, <1>7, <1>8, <1>9 DEF ReleaseNextStep, ReleaseRuns

\* Nothing changes in a stuttering step.
LEMMA ReleaseVersionStutters ==
    ASSUME ReleaseIInv, ReleaseVersionOK, UNCHANGED releaseVars
    PROVE  ReleaseVersionOK'
BY ReleaseVersionStays DEF releaseVars, releaseTags, releaseChoice, ReleaseVersionOK, ReleaseThere

\* Nothing is chosen at the start.
LEMMA ReleaseVersionInitially == ReleaseInit => ReleaseVersionOK
<1> SUFFICES ASSUME ReleaseInit PROVE ReleaseVersionOK
  OBVIOUS
<1>1. /\ releaseAsked \in ReleaseInvocations /\ releaseAt = "start" /\ releaseNext = <<>>
      /\ releaseLeft = releaseAsked.commands /\ releaseListed = {}
      /\ releaseLocal = releaseAsked.local /\ releaseRemote = releaseAsked.remote
  BY DEF ReleaseInit
<1>2. releaseLeft \in Seq(Range(releaseAsked.commands))
  <2>1. releaseLeft \in Seq(ReleaseCommands)
    BY <1>1, ReleaseAssumption
  <2>2. \A i \in 1 .. Len(releaseLeft) : releaseLeft[i] \in Range(releaseAsked.commands)
    BY <1>1, <2>1 DEF Range
  <2>3. QED BY <2>1, <2>2
<1>3. IsFiniteSet(releaseListed)
  BY <1>1, FS_EmptySet
<1>4. QED BY <1>1, <1>2, <1>3, ReleaseAssumption DEF ReleaseVersionOK, NextVersionIsNew

\* The types of a script hold at the start.
LEMMA ReleaseTypesFirst == ReleaseInit => ReleaseTypeOK
BY ReleaseInitHolds DEF ReleaseIInv, ReleaseTagsOK, ReleaseInit, ReleaseTypeOK, ReleaseTagged

\* A version that is chosen is one.
LEMMA ReleaseChosen ==
    ASSUME ReleaseIInv, ReleaseVersionOK, releaseAt = "decide"
    PROVE  /\ ReleaseSemVerChoices \subseteq Seq(Nat) \/ releaseCommand.scheme = "calver"
           /\ ReleaseCalVerChoices \subseteq Seq(Nat)
<1>1. /\ releaseCommand \in ReleaseCommands /\ releaseCommand.op = "next"
  BY ReleaseCommandAtHand DEF ReleaseIInv, ReleaseVersionOK
<1>2. /\ releaseCommand.fixedMajor \in Nat /\ releaseCommand.time \in Nat
  BY <1>1, ReleaseAssumption
<1>3. ReleaseCalVerChoices \subseteq Seq(Nat)
  <2>1. <<releaseCommand.time>> \in Seq(Nat)
    BY <1>2
  <2>2. QED BY <2>1 DEF ReleaseCalVerChoices
<1>4. ASSUME releaseCommand.scheme # "calver" PROVE ReleaseSemVerChoices \subseteq Seq(Nat)
  <2>1. CASE releasePrevious = <<>>
    <3>1. \A n \in Nat : <<n, 0, 0>> \in Seq(Nat)
      OBVIOUS
    <3>2. QED BY <1>2, <2>1, <3>1 DEF ReleaseSemVerChoices
  <2>2. CASE releasePrevious # <<>>
    <3>1. releasePrevious \in Seq(Nat) /\ Len(releasePrevious) = 3
      <4>1. /\ releaseListed \in SUBSET ReleaseTags /\ IsFiniteSet(releaseListed)
            /\ releasePrevious = ReleaseLatest(releaseCommand, releaseListed)
        BY DEF ReleaseVersionOK
      <4>2. releasePrevious \in ReleaseLine(releaseCommand, releaseListed)
        BY <2>2, <4>1, ReleaseLatestIs DEF ReleaseLatest
      <4>3. QED BY <1>4, <4>1, <4>2, ReleaseAssumption DEF ReleaseLine
    <3>2. releasePrevious[1] \in Nat /\ releasePrevious[2] \in Nat /\ releasePrevious[3] \in Nat
      <4>1. \A i \in 1 .. 3 : releasePrevious[i] \in Nat
        BY <3>1, ElementOfSeq
      <4>2. QED BY <4>1
    <3>3. \A a, b, c \in Nat : <<a, b, c>> \in Seq(Nat)
      OBVIOUS
    <3>4. \A bump \in {"patch", "minor", "major"} :
             ReleaseSuccessor(releasePrevious, bump) \in Seq(Nat)
      BY <3>2, <3>3 DEF ReleaseSuccessor
    <3>5. QED BY <2>2, <3>4 DEF ReleaseSemVerChoices
  <2>3. QED BY <2>1, <2>2
<1>5. QED BY <1>3, <1>4

\* They are kept.
LEMMA ReleaseTypesStay ==
    ASSUME ReleaseIInv, ReleaseIInv', ReleaseVersionOK, ReleaseVersionOK', ReleaseTypeOK,
           [ReleaseNextStep]_releaseVars
    PROVE  ReleaseTypeOK'
<1>1. /\ releaseAsked' \in ReleaseInvocations /\ releaseListed' \subseteq ReleaseTags
      /\ releaseLocal' \in ReleaseTagged /\ releaseRemote' \in ReleaseTagged
      /\ releaseHead' \in ReleaseCommits
      /\ releaseMoved' \subseteq ReleaseTags \X ReleaseCommits
  BY DEF ReleaseIInv, ReleaseTagsOK, ReleaseMovedOK, ReleaseVersionOK
<1>2. releaseAt' \in {"start", "read", "decide", "create", "push", "resolve", "delete", "recreate",
                      "force", "done"}
  BY DEF ReleaseTypeOK, ReleaseNextStep, ReleaseRuns, ReleaseStart, ReleaseRead, ReleaseDecide, ReleaseCreate,
    ReleasePush, ReleaseResolve, ReleaseDelete, ReleaseRecreate, ReleaseForce, ReleaseFails, ReleaseEnd,
    ReleaseColleague, ReleaseFetch, ReleaseOperatorCommits, releaseVars
<1>3. releaseSource' \in ReleaseCommits \cup {ReleaseNoCommit}
  BY DEF ReleaseTypeOK, ReleaseNextStep, ReleaseRuns, ReleaseStart, ReleaseRead, ReleaseDecide, ReleaseCreate,
    ReleasePush, ReleaseResolve, ReleaseDelete, ReleaseRecreate, ReleaseForce, ReleaseFails, ReleaseColleague,
    ReleaseFetch, ReleaseOperatorCommits, releaseVars, releaseChoice
<1>4. releaseMapped' \in Nat
  <2>1. CASE ReleaseForce
    BY <2>1 DEF ReleaseForce, ReleaseTypeOK
  <2>2. CASE ReleaseStart
    BY <2>2 DEF ReleaseStart
  <2>3. CASE ~ReleaseForce /\ ~ReleaseStart
    <3>1. UNCHANGED releaseMapped
      BY <2>3 DEF ReleaseNextStep, ReleaseRuns, ReleaseRead, ReleaseDecide, ReleaseCreate, ReleasePush,
        ReleaseResolve, ReleaseDelete, ReleaseRecreate, ReleaseFails, ReleaseColleague, ReleaseFetch,
        ReleaseOperatorCommits, releaseVars, releaseRun
    <3>2. QED BY <3>1 DEF ReleaseTypeOK
  <2>4. QED BY <2>1, <2>2, <2>3
<1>5. releasePrevious' \in ReleaseTags \cup {<<>>}
  <2>1. CASE ReleaseRead
    BY <2>1, ReleaseLatestIs DEF ReleaseRead, ReleaseVersionOK, ReleaseLatest, ReleaseLine
  <2>2. CASE ~ReleaseRead
    BY <2>2 DEF ReleaseTypeOK, ReleaseNextStep, ReleaseRuns, ReleaseStart, ReleaseDecide, ReleaseCreate,
      ReleasePush, ReleaseResolve, ReleaseDelete, ReleaseRecreate, ReleaseForce, ReleaseFails, ReleaseColleague,
      ReleaseFetch, ReleaseOperatorCommits, releaseVars, releaseChoice
  <2>3. QED BY <2>1, <2>2
<1>6. releaseNext' \in Seq(Nat)
  <2>1. CASE ReleaseDecide
    BY <2>1, ReleaseChosen DEF ReleaseDecide, ReleaseTypeOK
  <2>2. CASE ReleaseRead
    BY <2>2 DEF ReleaseRead
  <2>3. CASE ~ReleaseDecide /\ ~ReleaseRead
    BY <2>3 DEF ReleaseTypeOK, ReleaseNextStep, ReleaseRuns, ReleaseStart, ReleaseCreate, ReleasePush,
      ReleaseResolve, ReleaseDelete, ReleaseRecreate, ReleaseForce, ReleaseFails, ReleaseColleague,
      ReleaseFetch, ReleaseOperatorCommits, releaseVars, releaseChoice
  <2>4. QED BY <2>1, <2>2, <2>3
<1>7. releaseTag' \in Seq(Nat)
  <2>1. CASE ReleaseStart
    BY <2>1, ReleaseCommandAtHand, ReleaseAssumption DEF ReleaseIInv, ReleaseStart, ReleaseTypeOK
  <2>2. CASE ~ReleaseStart
    BY <2>2 DEF ReleaseTypeOK, ReleaseNextStep, ReleaseRuns, ReleaseRead, ReleaseDecide, ReleaseCreate,
      ReleasePush, ReleaseResolve, ReleaseDelete, ReleaseRecreate, ReleaseForce, ReleaseFails, ReleaseColleague,
      ReleaseFetch, ReleaseOperatorCommits, releaseVars, releaseRun
  <2>3. QED BY <2>1, <2>2
<1>8. QED BY <1>1, <1>2, <1>3, <1>4, <1>5, <1>6, <1>7 DEF ReleaseTypeOK, ReleaseTagged

----------------------------------------
\* PackageRetention: which versions a run deletes

\* The invocation, and the versions published so far
RetentionAsksOK ==
    /\ retentionAsked \in RetentionInvocations
    /\ retentionPublished \subseteq retentionEver /\ retentionEver \subseteq RetentionIDs
    /\ DOMAIN retentionAt = RetentionRepositories
    /\ DOMAIN retentionDeleted = RetentionRepositories
    /\ DOMAIN retentionLeft = RetentionRepositories
    /\ DOMAIN retentionListed = RetentionRepositories

\* A run has read only versions that were there, and what it deletes it takes
\* from the surplus, the oldest first.
RetentionRunOK(r) ==
    /\ retentionListed[r] \subseteq retentionEver
    /\ retentionAt[r] \in {"resolve", "list", "choose"} =>
          retentionLeft[r] = {} /\ retentionDeleted[r] = {}
    /\ retentionLeft[r] # {} \/ retentionDeleted[r] # {} =>
          /\ retentionLeft[r] \cup retentionDeleted[r] =
                RetentionSurplus(retentionAsked.created, retentionListed[r], retentionAsked.keep)
          /\ \A v \in retentionDeleted[r], w \in retentionLeft[r] :
                RetentionNewer(retentionAsked.created, w, v)

\* The inductive invariant of the retention runs
RetentionIInv == RetentionAsksOK /\ \A r \in RetentionRepositories : RetentionRunOK(r)

----------------------------------------

\* The order of the versions is a strict one.
LEMMA RetentionOrder ==
    ASSUME NEW created \in [RetentionIDs -> Nat], NEW a \in RetentionIDs, NEW b \in RetentionIDs,
           NEW c \in RetentionIDs, RetentionNewer(created, a, b)
    PROVE  /\ ~RetentionNewer(created, b, a)
           /\ RetentionNewer(created, b, c) => RetentionNewer(created, a, c)
BY RetentionAssumption DEF RetentionIDs, RetentionNewer

\* Among more versions, no fewer are newer than one.
LEMMA RetentionNewerCount ==
    ASSUME NEW created, NEW some, NEW all \in SUBSET RetentionIDs, some \subseteq all, NEW v, NEW w,
           \A x \in some : RetentionNewer(created, x, v) => RetentionNewer(created, x, w)
    PROVE  /\ Cardinality(RetentionNewerThan(created, some, v)) \in Nat
           /\ Cardinality(RetentionNewerThan(created, all, w)) \in Nat
           /\ Cardinality(RetentionNewerThan(created, some, v))
                <= Cardinality(RetentionNewerThan(created, all, w))
<1> DEFINE few == RetentionNewerThan(created, some, v)
           many == RetentionNewerThan(created, all, w)
<1>1. IsFiniteSet(RetentionIDs)
  BY RetentionAssumption, FS_Interval DEF RetentionIDs
<1>2. few \subseteq many /\ many \subseteq RetentionIDs
  BY DEF RetentionNewerThan
<1> HIDE DEF few, many
<1>3. IsFiniteSet(many)
  BY <1>1, <1>2, FS_Subset
<1>4. Cardinality(few) \in Nat /\ Cardinality(many) \in Nat /\ Cardinality(few) <= Cardinality(many)
  BY <1>2, <1>3, FS_Subset, FS_CardinalityType
<1>5. QED BY <1>4 DEF few, many

\* What is older than a version of the surplus is surplus.
LEMMA RetentionSurplusIsOld ==
    ASSUME NEW created \in [RetentionIDs -> Nat], NEW versions \in SUBSET RetentionIDs,
           NEW keep \in Nat, NEW v \in RetentionSurplus(created, versions, keep),
           NEW w \in versions, RetentionNewer(created, v, w)
    PROVE  w \in RetentionSurplus(created, versions, keep)
BY RetentionOrder, RetentionNewerCount DEF RetentionSurplus

----------------------------------------

\* A start has read and deleted nothing.
LEMMA RetentionInitially ==
    ASSUME RetentionInit
    PROVE  RetentionIInv
<1>1. PICK asked \in RetentionInvocations :
         /\ retentionAsked = asked /\ retentionPublished = asked.published
         /\ retentionEver = asked.published
  BY DEF RetentionInit
<1>2. asked.published \subseteq RetentionIDs
  BY RetentionAssumption
<1>3. RetentionAsksOK
  BY <1>1, <1>2 DEF RetentionInit, RetentionAsksOK
<1>4. \A r \in RetentionRepositories : RetentionRunOK(r)
  BY DEF RetentionInit, RetentionRunOK
<1>5. QED BY <1>3, <1>4 DEF RetentionIInv

\* A run that has deleted nothing and reads on
LEMMA RetentionReads ==
    ASSUME RetentionIInv, NEW r \in RetentionRepositories,
           RetentionResolve(r) \/ RetentionFetchPage(r) \/ RetentionRequestFails(r)
    PROVE  RetentionIInv'
<1>1. /\ UNCHANGED <<retentionAsked, retentionPublished, retentionEver, retentionLeft,
                     retentionDeleted>>
      /\ RetentionAsksOK /\ \A s \in RetentionRepositories : RetentionRunOK(s)
  BY DEF RetentionResolve, RetentionFetchPage, RetentionRequestFails, RetentionIInv
<1>2. /\ DOMAIN retentionAt' = RetentionRepositories
      /\ \A s \in RetentionRepositories \ {r} : retentionAt'[s] = retentionAt[s]
      /\ retentionAt'[r] # retentionAt[r] => retentionAt'[r] \notin {"resolve"}
  BY <1>1 DEF RetentionAsksOK, RetentionResolve, RetentionFetchPage, RetentionRequestFails, RetentionGoes
<1>3. /\ DOMAIN retentionListed' = RetentionRepositories
      /\ \A s \in RetentionRepositories \ {r} : retentionListed'[s] = retentionListed[s]
      /\ retentionListed'[r] \subseteq retentionEver
      /\ retentionAt[r] # "list" => retentionListed'[r] = retentionListed[r]
      /\ retentionAt'[r] \in {"resolve", "list", "choose"}
            => retentionAt[r] \in {"resolve", "list", "choose"}
  <2>1. CASE RetentionFetchPage(r)
    <3> DEFINE page == RetentionPageOf(retentionAsked.created, retentionPublished,
                                       retentionPage[r])
    <3>1. page \subseteq retentionEver
      BY <1>1 DEF RetentionPageOf, RetentionAsksOK
    <3>2. /\ retentionAt[r] = "list"
          /\ \/ retentionListed' = retentionListed
             \/ retentionListed' = [retentionListed EXCEPT ![r] = @ \cup page]
      BY <2>1 DEF RetentionFetchPage
    <3> HIDE DEF page
    <3>3. QED BY <1>1, <3>1, <3>2 DEF RetentionAsksOK, RetentionRunOK
  <2>2. CASE RetentionResolve(r) \/ RetentionRequestFails(r)
    BY <1>1, <2>2 DEF RetentionResolve, RetentionRequestFails, RetentionGoes, RetentionAsksOK, RetentionRunOK
  <2>3. QED BY <2>1, <2>2
<1>4. RetentionAsksOK'
  BY <1>1, <1>2, <1>3 DEF RetentionAsksOK
<1>5. ASSUME NEW s \in RetentionRepositories
      PROVE  RetentionRunOK(s)'
  BY <1>1, <1>2, <1>3 DEF RetentionRunOK
<1>6. QED BY <1>4, <1>5 DEF RetentionIInv

\* The surplus is chosen.
LEMMA RetentionChooses ==
    ASSUME RetentionIInv, NEW r \in RetentionRepositories, RetentionChoose(r)
    PROVE  RetentionIInv'
<1> DEFINE surplus == RetentionSurplus(retentionAsked.created, retentionListed[r],
                                       retentionAsked.keep)
<1>1. /\ UNCHANGED <<retentionAsked, retentionPublished, retentionEver, retentionListed,
                     retentionDeleted>>
      /\ retentionAt[r] = "choose"
      /\ \/ /\ retentionLeft' = [retentionLeft EXCEPT ![r] = surplus]
            /\ retentionAt' = [retentionAt EXCEPT ![r] = "delete"]
         \/ /\ retentionLeft' = retentionLeft
            /\ retentionAt' = [retentionAt EXCEPT ![r] = "failed"]
      /\ RetentionAsksOK /\ \A s \in RetentionRepositories : RetentionRunOK(s)
  BY DEF RetentionChoose, RetentionGoes, RetentionIInv
<1>2. RetentionAsksOK'
  BY <1>1 DEF RetentionAsksOK
<1>3. ASSUME NEW s \in RetentionRepositories
      PROVE  RetentionRunOK(s)'
  BY <1>1 DEF RetentionRunOK, RetentionAsksOK
<1>4. QED BY <1>2, <1>3 DEF RetentionIInv

\* The oldest that is left is deleted.
LEMMA RetentionDeletes ==
    ASSUME RetentionIInv, NEW r \in RetentionRepositories, RetentionDelete(r)
    PROVE  RetentionIInv'
<1>1. /\ UNCHANGED <<retentionAsked, retentionEver, retentionListed>>
      /\ retentionAt[r] = "delete"
      /\ RetentionAsksOK /\ \A s \in RetentionRepositories : RetentionRunOK(s)
  BY DEF RetentionDelete, RetentionIInv
<1>2. CASE /\ UNCHANGED <<retentionPublished, retentionLeft, retentionDeleted>>
           /\ \E to \in {"done", "failed"} : RetentionGoes(r, to)
  BY <1>1, <1>2 DEF RetentionAsksOK, RetentionGoes, RetentionRunOK, RetentionIInv
<1>3. CASE \E version \in retentionLeft[r] :
             /\ RetentionIsNext(retentionAsked.created, retentionLeft[r], version)
             /\ retentionPublished' = retentionPublished \ {version}
             /\ retentionDeleted' = [retentionDeleted EXCEPT ![r] = @ \cup {version}]
             /\ retentionLeft' = [retentionLeft EXCEPT ![r] = @ \ {version}]
             /\ UNCHANGED retentionAt
  <2>1. PICK version \in retentionLeft[r] :
             /\ RetentionIsNext(retentionAsked.created, retentionLeft[r], version)
             /\ retentionPublished' = retentionPublished \ {version}
             /\ retentionDeleted' = [retentionDeleted EXCEPT ![r] = @ \cup {version}]
             /\ retentionLeft' = [retentionLeft EXCEPT ![r] = @ \ {version}]
             /\ UNCHANGED retentionAt
    BY <1>3
  <2>2. RetentionAsksOK'
    BY <1>1, <2>1 DEF RetentionAsksOK
  <2>3. ASSUME NEW s \in RetentionRepositories
        PROVE  RetentionRunOK(s)'
    BY <1>1, <2>1 DEF RetentionRunOK, RetentionAsksOK, RetentionIsNext
  <2>4. QED BY <2>2, <2>3 DEF RetentionIInv
<1>4. QED BY <1>2, <1>3 DEF RetentionDelete

\* A build publishes a version.
LEMMA RetentionPublishes ==
    ASSUME RetentionIInv, RetentionPublish
    PROVE  RetentionIInv'
BY DEF RetentionPublish, RetentionIInv, RetentionAsksOK, RetentionRunOK

\* Every step keeps it.
LEMMA RetentionStep ==
    ASSUME RetentionIInv, [RetentionNext]_retentionVars
    PROVE  RetentionIInv'
BY RetentionReads, RetentionChooses, RetentionDeletes, RetentionPublishes DEF retentionVars, RetentionRunOK,
  RetentionIInv, RetentionAsksOK, RetentionRuns, RetentionNext

\* What the invariant says of the versions deleted
LEMMA RetentionKeeps ==
    ASSUME RetentionIInv
    PROVE  NewestAreKept
<1> SUFFICES ASSUME NEW r \in RetentionRepositories, NEW v \in retentionDeleted[r]
             PROVE  /\ Cardinality(RetentionNewerThan(retentionAsked.created, retentionEver, v))
                         >= retentionAsked.keep
                    /\ \A w \in retentionListed[r] :
                         RetentionNewer(retentionAsked.created, v, w) => w \in retentionDeleted[r]
  BY DEF NewestAreKept
<1> DEFINE created == retentionAsked.created
           keep == retentionAsked.keep
           listed == retentionListed[r]
<1>1. /\ created \in [RetentionIDs -> Nat] /\ keep \in Nat
      /\ listed \subseteq retentionEver /\ retentionEver \subseteq RetentionIDs
      /\ retentionLeft[r] \cup retentionDeleted[r] = RetentionSurplus(created, listed, keep)
      /\ \A w \in retentionLeft[r] : RetentionNewer(created, w, v)
  BY RetentionAssumption DEF RetentionIInv, RetentionAsksOK, RetentionRunOK
<1>2. v \in RetentionSurplus(created, listed, keep)
  BY <1>1
<1>3. /\ Cardinality(RetentionNewerThan(created, listed, v)) >= keep
      /\ v \in listed /\ v \in RetentionIDs
  BY <1>1, <1>2 DEF RetentionSurplus
<1> HIDE DEF created, keep, listed
<1>4. Cardinality(RetentionNewerThan(created, retentionEver, v)) >= keep
  BY <1>1, RetentionNewerCount, <1>3
<1>5. ASSUME NEW w \in listed, RetentionNewer(created, v, w)
      PROVE  w \in retentionDeleted[r]
  BY <1>1, <1>2, <1>5, RetentionSurplusIsOld, <1>3, RetentionOrder
<1>6. QED BY <1>4, <1>5 DEF created, keep, listed

\* The types of the retention runs, of every repository
RetentionTypes ==
    /\ RetentionTypeOK
    /\ DOMAIN retentionTwice = RetentionRepositories

\* They hold at the start.
LEMMA RetentionTypesFirst == RetentionInit => RetentionTypes
BY RetentionAssumption DEF RetentionInit, RetentionTypes, RetentionTypeOK

\* They are kept.
LEMMA RetentionTypesStay ==
    ASSUME RetentionIInv, RetentionIInv', RetentionTypes, [RetentionNext]_retentionVars
    PROVE  RetentionTypes'
<1>1. /\ retentionAsked' \in RetentionInvocations
      /\ retentionPublished' \subseteq retentionEver' /\ retentionEver' \subseteq RetentionIDs
      /\ \A r \in RetentionRepositories : retentionListed'[r] \subseteq retentionEver'
  BY DEF RetentionIInv, RetentionAsksOK, RetentionRunOK
<1>2. CASE UNCHANGED retentionVars
  BY <1>2 DEF RetentionTypes, RetentionTypeOK, retentionVars
<1>3. CASE RetentionPublish
  BY <1>1, <1>3 DEF RetentionPublish, RetentionTypes, RetentionTypeOK
<1>4. ASSUME NEW r \in RetentionRepositories, RetentionResolve(r)
      PROVE  RetentionTypes'
  BY RetentionAssumption, <1>1, <1>4 DEF RetentionTypes, RetentionTypeOK, RetentionResolved, RetentionResolve,
    RetentionGoes
<1>5. ASSUME NEW r \in RetentionRepositories, RetentionFetchPage(r)
      PROVE  RetentionTypes'
  <2>1. \A q \in RetentionRepositories : retentionListed[q] \subseteq retentionListed'[q]
    BY <1>5 DEF RetentionFetchPage, RetentionIInv, RetentionAsksOK
  <2>2. QED
    BY <1>1, <1>5, <2>1 DEF RetentionFetchPage, RetentionGoes, RetentionTypes, RetentionTypeOK
<1>6. ASSUME NEW r \in RetentionRepositories, RetentionRequestFails(r)
      PROVE  RetentionTypes'
  BY <1>1, <1>6 DEF RetentionRequestFails, RetentionGoes, RetentionTypes, RetentionTypeOK
<1>7. ASSUME NEW r \in RetentionRepositories, RetentionChoose(r)
      PROVE  RetentionTypes'
  BY <1>7, <1>1 DEF RetentionSurplus, RetentionChoose, RetentionIInv, RetentionAsksOK, RetentionTypes,
    RetentionTypeOK, RetentionGoes
<1>8. ASSUME NEW r \in RetentionRepositories, RetentionDelete(r)
      PROVE  RetentionTypes'
  BY <1>8, <1>1 DEF RetentionDelete, RetentionIInv, RetentionAsksOK, RetentionTypes, RetentionTypeOK,
    RetentionGoes
<1>9. QED
  BY <1>2, <1>3, <1>4, <1>5, <1>6, <1>7, <1>8 DEF RetentionNext, RetentionRuns

----------------------------------------
\* ModelRequests: whose answer it is, and what a decision rests on

\* The attempts of one message
ModelAttempts == Seq(ModelConnections \X {"answered", "empty", "failed"})

\* The connections that failed, in one message
ModelFailed(tried) == {tried[j][1] : j \in ModelFailures(tried)}

\* The types, and what is settled where
ModelTypedOK ==
    /\ modelRequest \in ModelRequestsAsked
    /\ modelTried \in ModelAttempts /\ modelChats \in Seq(ModelAttempts)
    /\ modelExpired \in BOOLEAN /\ modelReply \in ModelReplies \cup {"none"}
    /\ modelCandidateBump \in ModelBumps \cup {"none"} /\ modelBump \in ModelBumps \cup {"none"}
    /\ modelAudited \in Seq(ModelBumps)
    /\ modelAt \in {"configure", "collect", "ask", "judge", "done"}
    /\ modelAt \in {"collect", "ask", "judge"} =>
          modelCandidates = ModelOrder(modelRequest) /\ ModelProfilesValid(modelRequest)
    /\ modelAt \in {"ask", "judge"} /\ modelRequest.kind = "semver" => modelOutcome = "none"
    /\ modelAt \in {"configure", "collect"} => modelOutcome = "none" /\ modelTried = <<>>

\* While a message is being sent, no connection has failed, or the first of two.
ModelAskOK ==
    modelAt = "ask" =>
        \/ ModelFailures(modelTried) = {}
        \/ /\ Len(modelCandidates) = 2
           /\ \E j \in DOMAIN modelTried :
                /\ ModelFailures(modelTried) = {j}
                /\ modelTried[j][1] = modelCandidates[1]

\* What one message shows of the order of the connections
ModelChatOK(chat) ==
    LET preferred(c) == {d \in modelRequest.credentials :
                           modelRequest.priority[d] < modelRequest.priority[c]}
    IN IF Last(chat)[2] = "answered" THEN ModelFailed(chat) = preferred(Last(chat)[1])
       ELSE modelExpired \/ ModelFailed(chat) = modelRequest.credentials

\* What every message shows
ModelChatsOK == \A i \in DOMAIN modelChats : ModelChatOK(modelChats[i])

\* Two messages for each packet; the bump is the highest one audited.
ModelDecisionOK ==
    modelRequest.kind = "semver" =>
        /\ modelAt \in {"configure", "collect"} =>
              modelChats = <<>> /\ modelAudited = <<>> /\ modelCandidateBump = "none"
        /\ modelAt \in {"ask", "judge"} =>
              /\ Len(modelAudited) < modelRequest.packets
              /\ Len(modelChats) = 2 * Len(modelAudited)
                                     + (IF modelCandidateBump = "none" THEN 0 ELSE 1)
                                     + (IF modelAt = "judge" THEN 1 ELSE 0)
        /\ modelOutcome = "ok" =>
              /\ Len(modelAudited) = modelRequest.packets
              /\ Len(modelChats) = 2 * modelRequest.packets
        /\ (modelAudited = <<>>) <=> (modelBump = "none")
        /\ modelBump \in ToSet(modelAudited) \cup {"none"}
        /\ \A bump \in ToSet(modelAudited) :
              /\ ModelRank(bump) <= ModelRank(modelBump)
              /\ modelRequest.fixedMajor > 0 => bump # "major"
        /\ modelRequest.fixedMajor > 0 => modelCandidateBump # "major"

\* The inductive invariant of the model client and the version decision
ModelIInv == ModelTypedOK /\ ModelAskOK /\ ModelChatsOK /\ ModelDecisionOK

----------------------------------------

\* The connections in their order
LEMMA ModelOrderIs ==
    ASSUME NEW profile \in ModelRequestsAsked, ModelProfilesValid(profile)
    PROVE  LET order == ModelOrder(profile)
               first == order[1]
               second == order[2]
           IN \/ Len(order) = 1 /\ first \in ModelConnections /\ profile.credentials = {first}
              \/ /\ Len(order) = 2 /\ first \in ModelConnections /\ second \in ModelConnections
                 /\ first # second /\ profile.credentials = {first, second}
                 /\ profile.priority[first] < profile.priority[second]
<1>1. /\ profile.credentials \subseteq {ModelCompatible, ModelProxy} /\ profile.credentials # {}
      /\ ModelCompatible # ModelProxy
      /\ profile.priority[ModelCompatible] \in Nat /\ profile.priority[ModelProxy] \in Nat
      /\ profile.priority[ModelCompatible] # profile.priority[ModelProxy]
  BY ModelAssumption DEF ModelProfilesValid, ModelConnections
<1> DEFINE those(c) == IF c \in profile.credentials THEN <<c>> ELSE <<>>
           order == ModelOrder(profile)
<1>2. order = IF profile.priority[ModelCompatible] > profile.priority[ModelProxy]
              THEN those(ModelProxy) \o those(ModelCompatible)
              ELSE those(ModelCompatible) \o those(ModelProxy)
  BY DEF ModelOrder
<1>3. ASSUME NEW c, NEW d
      PROVE  <<c>> \o <<d>> = <<c, d>> /\ <<c>> \o <<>> = <<c>> /\ <<>> \o <<c>> = <<c>>
  <2> DEFINE two == <<c>> \o <<d>>
  <2>1. <<c>> \in Seq({c, d}) /\ <<d>> \in Seq({c, d}) /\ <<c, d>> \in Seq({c, d})
    OBVIOUS
  <2>2. /\ two \in Seq({c, d}) /\ Len(two) = 2 /\ two[1] = c /\ two[2] = d
    BY <2>1, ConcatProperties
  <2> HIDE DEF two
  <2>3. two = <<c, d>>
    BY <2>2, <2>1, SeqEqual
  <2>4. QED BY <2>1, <2>3, ConcatEmptySeq DEF two
<1>4. CASE ModelCompatible \notin profile.credentials
  BY <1>1, <1>2, <1>3, <1>4 DEF ModelConnections
<1>5. CASE ModelProxy \notin profile.credentials
  BY <1>1, <1>2, <1>3, <1>5 DEF ModelConnections
<1>6. CASE ModelCompatible \in profile.credentials /\ ModelProxy \in profile.credentials
  <2>1. profile.credentials = {ModelCompatible, ModelProxy}
    BY <1>1, <1>6
  <2>2. CASE profile.priority[ModelCompatible] > profile.priority[ModelProxy]
    <3>1. order = <<ModelProxy, ModelCompatible>>
      BY <1>2, <1>3, <1>6, <2>2
    <3>2. QED BY <1>1, <2>1, <2>2, <3>1 DEF ModelConnections
  <2>3. CASE ~(profile.priority[ModelCompatible] > profile.priority[ModelProxy])
    BY <1>2, <1>3, <1>6, <2>3, <1>1, <2>1 DEF ModelConnections
  <2>4. QED BY <2>2, <2>3
<1>7. QED BY <1>4, <1>5, <1>6

\* Which connection is asked
LEMMA ModelConnectionIs ==
    ASSUME ModelTypedOK, ModelAskOK, modelAt = "ask"
    PROVE  /\ modelConnection \in modelRequest.credentials
           /\ modelConnection \in ModelConnections
           /\ modelRequest.credentials \subseteq ModelConnections
           /\ ModelFailed(modelTried) = {d \in modelRequest.credentials :
                 modelRequest.priority[d] < modelRequest.priority[modelConnection]}
           /\ IF modelAttempt + 1 = Len(modelCandidates)
              THEN ModelFailed(modelTried) \cup {modelConnection} = modelRequest.credentials
              ELSE /\ ModelFailures(modelTried) = {} /\ Len(modelCandidates) = 2
                   /\ modelConnection = modelCandidates[1]
<1>1. /\ modelRequest \in ModelRequestsAsked /\ modelCandidates = ModelOrder(modelRequest)
      /\ ModelProfilesValid(modelRequest)
  BY DEF ModelTypedOK
<1> DEFINE first == modelCandidates[1]
           second == modelCandidates[2]
<1>2. /\ \/ Len(modelCandidates) = 1 /\ modelRequest.credentials = {first}
         \/ /\ Len(modelCandidates) = 2 /\ modelRequest.credentials = {first, second}
            /\ first # second /\ modelRequest.priority[first] < modelRequest.priority[second]
      /\ modelRequest.credentials \subseteq ModelConnections
      /\ \A c \in ModelConnections : modelRequest.priority[c] \in Nat
  BY <1>1, ModelAssumption, ModelOrderIs
<1>3. CASE ModelFailures(modelTried) = {}
  <2>1. modelAttempt = 0 /\ modelConnection = first
    BY <1>3, FS_EmptySet DEF modelAttempt, modelConnection
  <2>2. ModelFailed(modelTried) = {}
    BY <1>3 DEF ModelFailed
  <2>3. QED BY <1>2, <1>3, <2>1, <2>2
<1>4. CASE /\ Len(modelCandidates) = 2
           /\ \E j \in DOMAIN modelTried :
                ModelFailures(modelTried) = {j} /\ modelTried[j][1] = first
  <2>1. PICK j \in DOMAIN modelTried :
             ModelFailures(modelTried) = {j} /\ modelTried[j][1] = first
    BY <1>4
  <2>2. modelAttempt = 1
    BY <2>1, FS_Singleton DEF modelAttempt
  <2>3. modelConnection = second
    BY <2>2 DEF modelConnection
  <2>4. ModelFailed(modelTried) = {first}
    BY <2>1 DEF ModelFailed
  <2>5. QED BY <1>2, <1>4, <2>2, <2>3, <2>4
<1>5. QED BY <1>3, <1>4 DEF ModelAskOK

\* What one more attempt adds
LEMMA ModelTriedMore ==
    ASSUME NEW tried \in ModelAttempts, NEW c \in ModelConnections,
           NEW outcome \in {"answered", "empty", "failed"}
    PROVE  LET more == Append(tried, <<c, outcome>>)
           IN /\ more \in ModelAttempts /\ Last(more) = <<c, outcome>>
              /\ outcome # "failed" => /\ ModelFailures(more) = ModelFailures(tried)
                                       /\ ModelFailed(more) = ModelFailed(tried)
              /\ outcome = "failed" =>
                   /\ ModelFailures(more) = ModelFailures(tried) \cup {Len(tried) + 1}
                   /\ ModelFailed(more) = ModelFailed(tried) \cup {c}
              /\ \A j \in DOMAIN tried : more[j] = tried[j]
              /\ more[Len(tried) + 1] = <<c, outcome>> /\ Len(tried) + 1 \in DOMAIN more
              /\ DOMAIN tried \subseteq DOMAIN more
<1> DEFINE more == Append(tried, <<c, outcome>>)
<1>1. /\ more \in ModelAttempts /\ Len(more) = Len(tried) + 1
      /\ \A j \in 1 .. Len(tried) : more[j] = tried[j]
      /\ more[Len(tried) + 1] = <<c, outcome>>
      /\ DOMAIN tried = 1 .. Len(tried) /\ DOMAIN more = 1 .. Len(tried) + 1
      /\ Len(tried) \in Nat
  BY DEF ModelAttempts
<1>2. Last(more) = <<c, outcome>>
  BY <1>1 DEF Last
<1> HIDE DEF more
<1>3. DOMAIN more = DOMAIN tried \cup {Len(tried) + 1}
  BY <1>1
<1>4. ASSUME outcome # "failed"
      PROVE  /\ ModelFailures(more) = ModelFailures(tried)
             /\ ModelFailed(more) = ModelFailed(tried)
  BY <1>1, <1>3, <1>4 DEF ModelFailures, ModelFailed
<1>5. ASSUME outcome = "failed"
      PROVE  /\ ModelFailures(more) = ModelFailures(tried) \cup {Len(tried) + 1}
             /\ ModelFailed(more) = ModelFailed(tried) \cup {c}
  BY <1>1, <1>3, <1>5 DEF ModelFailures, ModelFailed
<1>6. QED BY <1>1, <1>2, <1>3, <1>4, <1>5 DEF more

\* A start has nothing behind it.
LEMMA ModelInitially ==
    ASSUME ModelInit
    PROVE  ModelIInv
<1>1. /\ modelTried = <<>> /\ modelChats = <<>> /\ modelAudited = <<>> /\ modelAt = "configure"
      /\ modelRequest \in ModelRequestsAsked /\ modelOutcome = "none" /\ modelBump = "none"
      /\ modelCandidateBump = "none" /\ modelExpired = FALSE /\ modelReply = "none"
  BY DEF ModelInit
<1>2. /\ \A S : <<>> \in Seq(S) /\ DOMAIN <<>> = {} /\ ToSet(<<>>) = {}
  BY EmptySeq DEF ToSet
<1>3. ModelTypedOK
  BY <1>1, <1>2 DEF ModelTypedOK, ModelAttempts, ModelReplies
<1>4. ModelAskOK /\ ModelChatsOK
  BY <1>1, <1>2 DEF ModelAskOK, ModelChatsOK
<1>5. ModelDecisionOK
  BY <1>1, <1>2 DEF ModelDecisionOK
<1>6. QED BY <1>3, <1>4, <1>5 DEF ModelIInv

\* A step that sends nothing leaves what the chats show as it is.
LEMMA ModelChatsStay ==
    ASSUME ModelChatsOK, modelChats' = modelChats, modelRequest' = modelRequest,
           modelExpired => modelExpired'
    PROVE  ModelChatsOK'
BY DEF ModelChatsOK, ModelChatOK, ModelFailed, ModelFailures

\* One message more
LEMMA ModelChatsGrow ==
    ASSUME ModelTypedOK, ModelChatsOK, modelTried' \in ModelAttempts,
           modelChats' = Append(modelChats, modelTried'),
           modelRequest' = modelRequest, modelExpired' = modelExpired, ModelChatOK(modelTried')
    PROVE  ModelChatsOK' /\ modelChats' \in Seq(ModelAttempts) /\ Len(modelChats') = Len(modelChats) + 1
<1>1. modelChats \in Seq(ModelAttempts)
  BY DEF ModelTypedOK
<1>2. /\ modelChats' \in Seq(ModelAttempts) /\ Len(modelChats') = Len(modelChats) + 1
      /\ Len(modelChats) \in Nat
      /\ \A i \in 1 .. Len(modelChats) : modelChats'[i] = modelChats[i]
      /\ modelChats'[Len(modelChats) + 1] = modelTried'
      /\ DOMAIN modelChats = 1 .. Len(modelChats) /\ DOMAIN modelChats' = 1 .. Len(modelChats) + 1
  BY <1>1, AppendProperties
<1>3. ASSUME NEW i \in DOMAIN modelChats'
      PROVE  ModelChatOK(modelChats'[i])
  BY <1>2 DEF ModelChatsOK
<1>4. \A chat : ModelChatOK(chat)' <=> ModelChatOK(chat)
  BY DEF ModelChatOK, ModelFailed, ModelFailures
<1>5. QED BY <1>2, <1>3, <1>4 DEF ModelChatsOK

\* The client is put together, or its configuration is refused.
LEMMA ModelConfigureStays ==
    ASSUME ModelIInv, ModelConfigure
    PROVE  ModelIInv'
BY ModelChatsStay DEF ModelConfigure, ModelEnd, modelProgress, ModelIInv, ModelTypedOK, ModelAskOK,
  ModelDecisionOK

\* The evidence cannot be read, is empty, or is there.
LEMMA ModelCollectStays ==
    ASSUME ModelIInv, ModelCollect \/ ModelCollectFails
    PROVE  ModelIInv'
BY EmptySeq, ModelChatsStay, ModelAssumption DEF ModelCollect, ModelCollectFails, ModelEnd, modelProgress,
  ModelIInv, ModelTypedOK, ModelFailures, ModelAskOK, ModelDecisionOK, ToSet

\* A connection answers.
LEMMA ModelAnswerStays ==
    ASSUME ModelIInv, ModelAnswer
    PROVE  ModelIInv'
<1>1. /\ modelAt = "ask" /\ modelAt' = "judge"
      /\ modelTried' = Append(modelTried, <<modelConnection, "answered">>)
      /\ modelChats' = Append(modelChats, modelTried') /\ modelReply' \in ModelReplies
      /\ UNCHANGED <<modelRequest, modelCandidates, modelExpired, modelCandidateBump,
                     modelAudited, modelBump, modelOutcome>>
  BY DEF ModelAnswer, modelProgress
<1>2. ModelTypedOK /\ ModelAskOK /\ ModelChatsOK /\ ModelDecisionOK /\ modelTried \in ModelAttempts
  BY DEF ModelIInv, ModelTypedOK
<1>3. /\ modelConnection \in ModelConnections
      /\ ModelFailed(modelTried) = {d \in modelRequest.credentials :
            modelRequest.priority[d] < modelRequest.priority[modelConnection]}
  BY <1>1, <1>2, ModelConnectionIs
<1>4. /\ modelTried' \in ModelAttempts /\ Last(modelTried') = <<modelConnection, "answered">>
      /\ ModelFailed(modelTried') = ModelFailed(modelTried)
  BY <1>1, <1>2, <1>3, ModelTriedMore
<1>5. ModelChatOK(modelTried')
  BY <1>3, <1>4 DEF ModelChatOK
<1>6. /\ ModelChatsOK' /\ modelChats' \in Seq(ModelAttempts)
      /\ Len(modelChats') = Len(modelChats) + 1
  BY <1>1, <1>2, <1>4, <1>5, ModelChatsGrow
<1>7. ModelTypedOK'
  BY <1>1, <1>2, <1>4, <1>6 DEF ModelTypedOK
<1>8. ModelDecisionOK'
  <2>1. Len(modelChats) \in Nat /\ Len(modelAudited) \in Nat
    BY <1>2, LenProperties DEF ModelTypedOK
  <2>2. CASE modelRequest.kind = "semver"
    BY <1>1, <1>2, <2>2, <2>1, <1>6 DEF ModelTypedOK, ModelDecisionOK
  <2>3. QED BY <1>1, <2>2 DEF ModelDecisionOK
<1>9. QED BY <1>1, <1>6, <1>7, <1>8 DEF ModelIInv, ModelAskOK

\* The compatible connection answers with nothing and is asked again.
LEMMA ModelEmptyStays ==
    ASSUME ModelIInv, ModelEmpty
    PROVE  ModelIInv'
<1>1. /\ modelAt = "ask" /\ modelTried' = Append(modelTried, <<modelConnection, "empty">>)
      /\ UNCHANGED <<modelRequest, modelAt, modelCandidates, modelExpired, modelReply,
                     modelCandidateBump, modelAudited, modelBump, modelChats, modelOutcome>>
  BY DEF ModelEmpty, modelProgress
<1>2. ModelTypedOK /\ ModelAskOK /\ ModelChatsOK /\ ModelDecisionOK /\ modelTried \in ModelAttempts
  BY DEF ModelIInv, ModelTypedOK
<1>3. modelConnection \in ModelConnections
  BY <1>1, <1>2, ModelConnectionIs
<1>4. /\ modelTried' \in ModelAttempts /\ ModelFailures(modelTried') = ModelFailures(modelTried)
      /\ \A j \in DOMAIN modelTried : modelTried'[j] = modelTried[j]
      /\ DOMAIN modelTried \subseteq DOMAIN modelTried'
  BY <1>1, <1>2, <1>3, ModelTriedMore
<1>5. ModelTypedOK'
  BY <1>1, <1>2, <1>4 DEF ModelTypedOK
<1>6. ModelAskOK'
  BY <1>1, <1>2, <1>4 DEF ModelAskOK
<1>7. ModelChatsOK' /\ ModelDecisionOK'
  BY <1>1, <1>2, ModelChatsStay DEF ModelDecisionOK
<1>8. QED BY <1>5, <1>6, <1>7 DEF ModelIInv

\* An attempt fails: the next connection, or the end.
LEMMA ModelAttemptFailsStays ==
    ASSUME ModelIInv, ModelAttemptFails
    PROVE  ModelIInv'
<1>1. /\ modelAt = "ask" /\ modelTried' = Append(modelTried, <<modelConnection, "failed">>)
      /\ UNCHANGED <<modelRequest, modelCandidates, modelExpired, modelReply,
                     modelCandidateBump, modelAudited, modelBump>>
      /\ \/ /\ modelExpired \/ modelAttempt + 1 = Len(modelCandidates)
            /\ modelAt' = "done" /\ modelOutcome' \in {"cancelled", "failed"}
            /\ modelChats' = Append(modelChats, modelTried')
         \/ /\ ~(modelAttempt + 1 = Len(modelCandidates))
            /\ modelAt' = modelAt /\ modelOutcome' = modelOutcome /\ modelChats' = modelChats
  BY DEF ModelAttemptFails, ModelEnd, modelProgress
<1>2. ModelTypedOK /\ ModelAskOK /\ ModelChatsOK /\ ModelDecisionOK /\ modelTried \in ModelAttempts
  BY DEF ModelIInv, ModelTypedOK
<1>3. /\ modelConnection \in ModelConnections
      /\ IF modelAttempt + 1 = Len(modelCandidates)
         THEN ModelFailed(modelTried) \cup {modelConnection} = modelRequest.credentials
         ELSE /\ ModelFailures(modelTried) = {} /\ Len(modelCandidates) = 2
              /\ modelConnection = modelCandidates[1]
  BY <1>1, <1>2, ModelConnectionIs
<1>4. /\ modelTried' \in ModelAttempts /\ Last(modelTried') = <<modelConnection, "failed">>
      /\ ModelFailed(modelTried') = ModelFailed(modelTried) \cup {modelConnection}
      /\ ModelFailures(modelTried') = ModelFailures(modelTried) \cup {Len(modelTried) + 1}
      /\ modelTried'[Len(modelTried) + 1] = <<modelConnection, "failed">>
      /\ Len(modelTried) + 1 \in DOMAIN modelTried'
  BY <1>1, <1>2, <1>3, ModelTriedMore
<1>5. CASE /\ modelExpired \/ modelAttempt + 1 = Len(modelCandidates)
           /\ modelAt' = "done" /\ modelOutcome' \in {"cancelled", "failed"}
           /\ modelChats' = Append(modelChats, modelTried')
  BY <1>3, <1>4, <1>5, <1>1, <1>2, ModelChatsGrow DEF ModelChatOK, ModelTypedOK, ModelDecisionOK, ModelIInv,
    ModelAskOK
<1>6. CASE /\ ~(modelAttempt + 1 = Len(modelCandidates))
           /\ modelAt' = modelAt /\ modelOutcome' = modelOutcome /\ modelChats' = modelChats
  <2>1. ModelTypedOK'
    BY <1>1, <1>2, <1>4, <1>6 DEF ModelTypedOK
  <2>2. ModelAskOK'
    <3>1. ModelFailures(modelTried') = {Len(modelTried) + 1} /\ Len(modelCandidates) = 2
      BY <1>3, <1>4, <1>6
    <3>2. modelTried'[Len(modelTried) + 1][1] = modelCandidates[1]
      BY <1>3, <1>4, <1>6
    <3>3. modelCandidates' = modelCandidates
      BY <1>1
    <3>4. QED BY <1>4, <3>1, <3>2, <3>3 DEF ModelAskOK
  <2>3. ModelChatsOK' /\ ModelDecisionOK'
    BY <1>1, <1>2, <1>6, ModelChatsStay DEF ModelDecisionOK
  <2>4. QED BY <2>1, <2>2, <2>3 DEF ModelIInv
<1>7. QED BY <1>1, <1>5, <1>6

\* The deadline passes.
LEMMA ModelExpireStays ==
    ASSUME ModelIInv, ModelExpire
    PROVE  ModelIInv'
BY ModelChatsStay DEF ModelExpire, modelProgress, ModelIInv, ModelTypedOK, ModelAskOK, ModelDecisionOK

\* A text is kept, or was blank.
LEMMA ModelKeepTextStays ==
    ASSUME ModelIInv, ModelKeepText
    PROVE  ModelIInv'
BY ModelChatsStay DEF ModelKeepText, ModelEnd, modelProgress, ModelIInv, ModelTypedOK, ModelAskOK,
  ModelDecisionOK

\* What counting one more audited bump does
LEMMA ModelCountsHighest ==
    ASSUME NEW audited \in Seq(ModelBumps), NEW highest \in ModelBumps \cup {"none"},
           NEW bump \in ModelBumps, NEW candidate,
           (audited = <<>>) <=> (highest = "none"), highest \in ToSet(audited) \cup {"none"},
           \A b \in ToSet(audited) : ModelRank(b) <= ModelRank(highest)
    PROVE  LET more == Append(audited, bump)
               most == ModelCounted(highest, candidate, bump)
           IN /\ more \in Seq(ModelBumps) /\ Len(more) = Len(audited) + 1 /\ more # <<>>
              /\ ToSet(more) = ToSet(audited) \cup {bump} /\ most \in ModelBumps
              /\ most \in ToSet(more) /\ \A b \in ToSet(more) : ModelRank(b) <= ModelRank(most)
<1> DEFINE more == Append(audited, bump)
           most == ModelCounted(highest, candidate, bump)
<1>1. /\ more \in Seq(ModelBumps) /\ Len(more) = Len(audited) + 1 /\ Len(audited) \in Nat
      /\ DOMAIN audited = 1 .. Len(audited) /\ DOMAIN more = 1 .. Len(audited) + 1
      /\ \A i \in 1 .. Len(audited) : more[i] = audited[i]
      /\ more[Len(audited) + 1] = bump
  OBVIOUS
<1> HIDE DEF more, most
<1>2. more # <<>>
  BY <1>1, EmptySeq
<1>3. ToSet(more) = ToSet(audited) \cup {bump}
  BY <1>1 DEF ToSet
<1>4. /\ ToSet(audited) \subseteq ModelBumps
      /\ \A b \in ModelBumps \cup {"none"} : ModelRank(b) \in Nat
  BY <1>1 DEF ToSet, ModelRank, ModelBumps
<1>5. CASE highest = "none" \/ ModelRank(bump) > ModelRank(highest)
  <2>1. most = bump
    BY <1>5 DEF ModelCounted, ModelHigher, most
  <2>2. \A b \in ToSet(audited) : ModelRank(b) <= ModelRank(bump)
    BY EmptySeq, <1>4, <1>5 DEF ToSet
  <2>3. QED BY <1>1, <1>2, <1>3, <1>4, <2>1, <2>2 DEF more, most
<1>6. CASE highest # "none" /\ ~(ModelRank(bump) > ModelRank(highest))
  BY <1>6, <1>4, <1>1, <1>2, <1>3 DEF ModelCounted, ModelHigher, most, more
<1>7. QED BY <1>5, <1>6 DEF more, most

\* A proposal or an audit is judged.
LEMMA ModelDecideStays ==
    ASSUME ModelIInv, ModelDecide
    PROVE  ModelIInv'
<1> DEFINE bump == ModelParsed(modelReply)
<1>1. /\ modelAt = "judge" /\ modelRequest.kind = "semver" /\ modelTried' = <<>>
      /\ UNCHANGED <<modelRequest, modelCandidates, modelExpired, modelReply, modelChats>>
      /\ \/ /\ bump = "none" /\ modelAt' = "done" /\ modelOutcome' = "failed"
            /\ UNCHANGED <<modelCandidateBump, modelAudited, modelBump>>
         \/ /\ bump # "none" /\ modelCandidateBump = "none" /\ modelCandidateBump' = bump
            /\ modelAt' = "ask" /\ UNCHANGED <<modelAudited, modelBump, modelOutcome>>
         \/ /\ bump # "none" /\ modelCandidateBump # "none" /\ modelCandidateBump' = "none"
            /\ modelAudited' = Append(modelAudited, bump)
            /\ modelBump' = ModelCounted(modelBump, modelCandidateBump, bump)
            /\ \/ /\ Len(modelAudited') = modelRequest.packets
                  /\ modelAt' = "done" /\ modelOutcome' = "ok"
               \/ /\ Len(modelAudited') # modelRequest.packets
                  /\ modelAt' = "ask" /\ modelOutcome' = modelOutcome
  BY DEF ModelDecide, ModelEnd, modelProgress
<1>2. /\ ModelTypedOK /\ ModelChatsOK /\ ModelDecisionOK /\ modelOutcome = "none"
      /\ modelAudited \in Seq(ModelBumps) /\ modelBump \in ModelBumps \cup {"none"}
      /\ modelCandidateBump \in ModelBumps \cup {"none"}
  BY <1>1 DEF ModelIInv, ModelTypedOK
<1>3. /\ bump \in ModelBumps \cup {"none"} /\ "none" \notin ModelBumps
      /\ modelRequest.fixedMajor > 0 => bump # "major"
  BY DEF ModelParsed, ModelBumps
<1>4. /\ Len(modelAudited) \in Nat /\ Len(modelChats) \in Nat
      /\ modelRequest.packets \in Nat \ {0}
      /\ \A S : <<>> \in Seq(S)
  BY <1>2, LenProperties, EmptySeq, ModelAssumption DEF ModelTypedOK
<1>5. /\ Len(modelAudited) < modelRequest.packets
      /\ Len(modelChats) = 2 * Len(modelAudited) + (IF modelCandidateBump = "none" THEN 0 ELSE 1) + 1
      /\ (modelAudited = <<>>) <=> (modelBump = "none")
      /\ modelBump \in ToSet(modelAudited) \cup {"none"}
      /\ \A b \in ToSet(modelAudited) :
           ModelRank(b) <= ModelRank(modelBump) /\ (modelRequest.fixedMajor > 0 => b # "major")
  BY <1>1, <1>2, <1>4 DEF ModelDecisionOK
<1>6. ModelAskOK' /\ ModelChatsOK'
  BY <1>1, EmptySeq, <1>2, ModelChatsStay DEF ModelFailures, ModelAskOK
<1> HIDE DEF bump
<1>7. CASE /\ bump = "none" /\ modelAt' = "done" /\ modelOutcome' = "failed"
           /\ UNCHANGED <<modelCandidateBump, modelAudited, modelBump>>
  BY <1>1, <1>2, <1>4, <1>7, <1>6 DEF ModelTypedOK, ModelAttempts, ModelDecisionOK, ModelIInv
<1>8. CASE /\ bump # "none" /\ modelCandidateBump = "none" /\ modelCandidateBump' = bump
           /\ modelAt' = "ask" /\ UNCHANGED <<modelAudited, modelBump, modelOutcome>>
  BY <1>1, <1>2, <1>3, <1>4, <1>8, <1>5, <1>6 DEF ModelTypedOK, ModelAttempts, ModelDecisionOK, ModelIInv
<1>9. CASE /\ bump # "none" /\ modelCandidateBump # "none" /\ modelCandidateBump' = "none"
           /\ modelAudited' = Append(modelAudited, bump)
           /\ modelBump' = ModelCounted(modelBump, modelCandidateBump, bump)
           /\ \/ /\ Len(modelAudited') = modelRequest.packets
                 /\ modelAt' = "done" /\ modelOutcome' = "ok"
              \/ /\ Len(modelAudited') # modelRequest.packets
                 /\ modelAt' = "ask" /\ modelOutcome' = modelOutcome
  <2>1. /\ modelAudited' \in Seq(ModelBumps) /\ Len(modelAudited') = Len(modelAudited) + 1
        /\ modelAudited' # <<>> /\ modelBump' \in ModelBumps
        /\ ToSet(modelAudited') = ToSet(modelAudited) \cup {bump}
        /\ modelBump' \in ToSet(modelAudited')
        /\ \A b \in ToSet(modelAudited') : ModelRank(b) <= ModelRank(modelBump')
    BY <1>2, <1>3, <1>5, <1>9, ModelCountsHighest
  <2>2. ModelTypedOK'
    BY <1>1, <1>2, <1>4, <1>9, <2>1 DEF ModelTypedOK, ModelAttempts
  <2>3. ModelDecisionOK'
    BY <1>1, <1>4, <1>5, <1>9, <2>1, <1>3, <1>2 DEF ModelDecisionOK
  <2>4. QED BY <1>6, <2>2, <2>3 DEF ModelIInv
<1>10. QED BY <1>1, <1>7, <1>8, <1>9

\* Every step keeps it.
LEMMA ModelStep ==
    ASSUME ModelIInv, [ModelNext]_modelVars
    PROVE  ModelIInv'
<1>1. CASE UNCHANGED modelVars
  BY <1>1 DEF ModelIInv, modelVars, modelProgress, ModelTypedOK, ModelAskOK, ModelChatsOK, ModelChatOK,
    ModelFailed, ModelFailures, ModelDecisionOK
<1>2. QED
  BY <1>1, ModelConfigureStays, ModelCollectStays, ModelAnswerStays, ModelEmptyStays, ModelAttemptFailsStays,
    ModelExpireStays, ModelKeepTextStays, ModelDecideStays DEF ModelNext, ModelRuns

\* What the invariant says of the answers
LEMMA ModelEarned ==
    ASSUME ModelIInv
    PROVE  AnswersAreEarned
BY ModelAssumption, EmptySeq DEF ModelIInv, ModelChatsOK, ModelChatOK, ModelFailed, ModelFailures,
  FallbackKeepsPriority, DecisionIsAudited, ModelDecisionOK, ModelTypedOK, AnswersAreEarned

\* The order of the connections names each once.
LEMMA ModelOrderOnce ==
    ASSUME NEW profile \in ModelRequestsAsked, ModelProfilesValid(profile)
    PROVE  ModelOrder(profile) \in Seq(ModelConnections) /\ IsInjective(ModelOrder(profile))
<1> DEFINE order == ModelOrder(profile)
           those(c) == IF c \in profile.credentials THEN <<c>> ELSE <<>>
<1>1. order = those(ModelProxy) \o those(ModelCompatible)
      \/ order = those(ModelCompatible) \o those(ModelProxy)
  BY DEF ModelOrder
<1>2. \A c \in ModelConnections : those(c) \in Seq(ModelConnections)
  OBVIOUS
<1>3. order \in Seq(ModelConnections)
  <2> HIDE DEF those, order
  <2>1. /\ those(ModelProxy) \in Seq(ModelConnections)
        /\ those(ModelCompatible) \in Seq(ModelConnections)
    BY <1>2 DEF ModelConnections
  <2>2. QED BY <1>1, <2>1, ConcatProperties
<1>4. \/ Len(order) = 1
      \/ Len(order) = 2 /\ order[1] # order[2]
  BY ModelOrderIs
<1> HIDE DEF order
<1>5. DOMAIN order = 1 .. Len(order)
  BY <1>3
<1>6. IsInjective(order)
  BY <1>4, <1>5 DEF IsInjective
<1>7. QED BY <1>3, <1>6 DEF order

\* The types of a request hold at the start.
LEMMA ModelTypesFirst == ModelInit => ModelTypeOK
<1>1. <<>> \in Seq(ModelConnections) /\ DOMAIN <<>> = {} /\ <<>> \in Seq(ModelBumps)
      /\ <<>> \in Seq(ModelConnections \X {"answered", "empty", "failed"})
  BY EmptySeq
<1>2. QED BY <1>1 DEF ModelInit, ModelTypeOK, IsInjective

\* They are kept.
LEMMA ModelTypesStay ==
    ASSUME ModelIInv, ModelIInv', ModelTypeOK, [ModelNext]_modelVars
    PROVE  ModelTypeOK'
<1>1. /\ modelRequest' \in ModelRequestsAsked /\ modelTried' \in ModelAttempts
      /\ modelExpired' \in BOOLEAN /\ modelReply' \in ModelReplies \cup {"none"}
      /\ modelCandidateBump' \in ModelBumps \cup {"none"} /\ modelBump' \in ModelBumps \cup {"none"}
      /\ modelAudited' \in Seq(ModelBumps)
      /\ modelAt' \in {"configure", "collect", "ask", "judge", "done"}
  BY DEF ModelIInv, ModelTypedOK
<1>2. modelCandidates' \in Seq(ModelConnections) /\ IsInjective(modelCandidates')
  BY ModelOrderOnce DEF ModelConfigure, ModelTypeOK, ModelNext, ModelRuns, ModelCollect, ModelCollectFails,
    ModelAnswer, ModelEmpty, ModelAttemptFails, ModelKeepText, ModelDecide, ModelExpire, modelVars
<1>3. modelCaptured' \in BOOLEAN
  BY DEF ModelTypeOK, ModelNext, ModelRuns, ModelConfigure, ModelCollect, ModelCollectFails, ModelAnswer,
    ModelEmpty, ModelAttemptFails, ModelKeepText, ModelDecide, ModelExpire, modelVars
<1>4. modelOutcome' \in {"none", "ok", "nothing", "refused", "failed", "cancelled"}
  BY DEF ModelTypeOK, ModelNext, ModelRuns, ModelConfigure, ModelCollect, ModelCollectFails, ModelAnswer,
    ModelEmpty, ModelAttemptFails, ModelKeepText, ModelDecide, ModelExpire, modelVars, ModelEnd
<1>5. QED BY <1>1, <1>2, <1>3, <1>4 DEF ModelTypeOK, ModelAttempts

----------------------------------------
\* WorkflowTasks: what an operation of a workflow leaves, and where HEAD is then

\* The types of a plan and of what an operation knows
TaskChangeType ==
    [mode: {"overwrite", "skip", "append", "replace", "stage"}, path: TaskFiles,
     content: TaskContent, apply: BOOLEAN]

TaskRunType ==
    [branch: TaskBranches \cup {TaskNobody}, changes: Seq(TaskChangeType), steps: Seq(TaskStepType),
     change: Nat \ {0}, checked: BOOLEAN, original: TaskBranches \cup {TaskNobody},
     prepared: BOOLEAN, committed: BOOLEAN, outcome: {"ok", "error", "skipped"},
     stuck: BOOLEAN, consumed: SUBSET TaskFiles]

\* Everything is of its type.
TaskTypes ==
    /\ taskOperations \in Seq(TaskOperationType) /\ taskIndex \in 1 .. Len(taskOperations)
    /\ taskAt \in TaskPCs /\ taskRun \in TaskRunType
    /\ taskRun.changes # <<>> => taskRun.change <= Len(taskRun.changes)
    /\ taskAt = "act" => taskRun.steps # <<>>
    /\ taskRepository \in TaskRepositoryType /\ taskBegan \in TaskRepositoryType
    /\ taskShared \in [mutated: SUBSET TaskFiles, changed: BOOLEAN]

\* Where an operation has not looked at the repository yet, and where it works in it
TaskOpening == {"hard", "soft", "plan", "delete"}
TaskWorking == {"original", "guard", "act", "restore"}
TaskOver == {"begin", "end", "done"}

\* What is known of an operation by its kind
TaskKindsOK ==
    /\ taskAt \in TaskOpening => taskRun = TaskFresh
    /\ taskAt \in TaskWorking /\ taskOperation.kind # "stage-commit" => taskRun.branch \in TaskBranches
    /\ taskAt # "begin" /\ taskOperation.kind = "stage-commit" =>
         /\ taskRun.branch = TaskNobody /\ ~taskRun.prepared
         /\ Range(taskRun.steps) \subseteq {"stage", "commit"}
    /\ taskAt # "begin" /\ taskOperation.kind # "stage-commit" /\ taskRun.committed =>
         taskRun.branch \in TaskBranches
    /\ taskAt \in TaskWorking => taskOperation.kind # "cleanup"
    /\ taskAt = "delete" => taskOperation.kind = "cleanup"
    /\ taskAt = "restore" => taskRun.prepared

\* HEAD has a commit, and is on the branch of the task from its preparation to
\* the return.
TaskHeadOK ==
    /\ TaskHistory(taskRepository) # <<>>
    /\ ~taskRun.prepared => taskRepository.head = taskBegan.head
    /\ taskRun.prepared => taskAt \in {"guard", "act", "restore"} \cup TaskOver
    /\ taskRun.prepared /\ taskAt \in TaskWorking => taskRepository.head = taskRun.branch
    /\ taskRun.prepared /\ taskAt \in TaskOver =>
         taskRun.stuck \/ taskRun.original = TaskNobody \/ taskRepository.head = taskRun.original
    /\ taskRun.original # TaskNobody /\ taskAt \notin TaskOver => TaskExists(taskRun.original)
    /\ taskRun.original # TaskNobody => taskRun.original = taskBegan.head
    /\ taskAt = "original" => ~taskRun.prepared /\ taskRun.original = TaskNobody

\* The place of a step in the default plan
TaskRank(step) ==
    CASE step = "prepare" -> 1 [] step = "apply" -> 2 [] step = "stage" -> 3
      [] step = "commit" -> 4 [] step = "push" -> 5 [] step = "request" -> 6 [] OTHER -> 7

\* The operations whose steps are those of the plan
TaskByDefault ==
    taskAt # "begin" /\ taskOperation.kind \in {"task", "pr-open"} /\ taskOperation.steps = <<>>

\* The steps of a plan are in order, a commit comes after the branch, a request
\* after the push.
TaskStepsOK ==
    TaskByDefault =>
        LET left == Range(taskRun.steps)
        IN /\ \A i, j \in DOMAIN taskRun.steps :
                i < j => TaskRank(taskRun.steps[i]) < TaskRank(taskRun.steps[j])
           /\ "commit" \in left => taskRun.prepared \/ "prepare" \in left
           /\ left \cap {"prepare", "commit"} # {} => "push" \in left
           /\ left \cap {"push", "request"} # {} => taskRepository.requests = taskBegan.requests
           /\ taskRun.committed => taskRun.prepared

\* Nothing but the branch of the task is written.
TaskBranchesOK ==
    TaskByDefault /\ taskOutside = {} =>
        /\ ~taskRun.prepared => taskRepository.branches = taskBegan.branches
        /\ taskRun.prepared =>
             /\ taskBegan.branches[taskRun.branch] = <<>>
             /\ \A b \in TaskBranches \ {taskRun.branch} :
                  taskRepository.branches[b] = taskBegan.branches[b]

\* What is pushed is what is here
TaskShown == taskRun.branch \in taskOutside
               \/ taskRepository.server[taskRun.branch] = taskRepository.branches[taskRun.branch]

TaskRequestsOK ==
    TaskByDefault =>
        /\ taskAt \in TaskOpening => taskRepository.requests = taskBegan.requests
        /\ "request" \in Range(taskRun.steps) /\ "push" \notin Range(taskRun.steps) => TaskShown
        /\ taskRepository.requests # taskBegan.requests =>
             /\ taskRepository.requests \ taskBegan.requests \subseteq {taskRun.branch} /\ TaskShown

\* The files of an operation, and those it may ignore besides
TaskPaths == {taskRun.changes[i].path : i \in DOMAIN taskRun.changes}
TaskOwn == TaskPaths \cup TaskIgnored

\* The index is known to be HEAD's but for the files of the operation.
TaskVouched ==
    /\ taskAt # "begin"
    /\ \/ taskOperation.kind = "task" /\ taskOperation.clean /\ taskRun.checked
       \/ taskOperation.kind = "stage-commit" /\ taskBegan.index = TaskHeadTree(taskBegan)

\* Where an operation has committed
TaskCommitted ==
    IF taskRun.branch # TaskNobody THEN taskRepository.branches[taskRun.branch]
    ELSE TaskHistory(taskRepository)

TaskContentOK ==
    /\ TaskVouched =>
         \A f \in TaskFiles \ TaskOwn : taskRepository.index[f] = TaskHeadTree(taskRepository)[f]
    /\ TaskVouched /\ taskRun.committed /\ (taskOperation.kind = "task" => taskOperation.steps = <<>>) =>
         /\ Len(TaskCommitted) >= 2
         /\ \A f \in TaskFiles \ TaskOwn :
              TaskCommitted[Len(TaskCommitted) - 1][f] = Last(TaskCommitted)[f]

\* A task that is to find the worktree clean has looked before it works or commits.
TaskCheckedOK ==
    taskAt # "begin" /\ taskOperation.clean =>
        /\ taskRun.committed => taskRun.checked
        /\ taskAt = "act" /\ taskStep \in {"prepare", "apply", "stage", "commit", "action"} =>
             taskRun.checked

\* A git stage-commit stages what was recorded, of what it was asked for.
TaskConsumedOK ==
    taskAt # "begin" /\ taskOperation.kind = "stage-commit" /\ taskRun.consumed # {} =>
        /\ TaskPaths \subseteq taskRun.consumed
        /\ taskOperation.paths # {} => TaskPaths \subseteq taskOperation.paths

\* A cleanup deletes one branch, which its base contains.
TaskCleanupOK ==
    taskAt # "begin" /\ taskOperation.kind = "cleanup" =>
        /\ taskAt \in TaskOpening =>
             \A b \in TaskBranches \ taskOutside :
                taskRepository.branches[b] = taskBegan.branches[b]
        /\ taskAt = "delete" =>
             /\ taskOperation.branch # taskOperation.base
             /\ \/ taskOperation.branch \in taskOutside
                \/ IsPrefix(taskRepository.branches[taskOperation.branch],
                            taskRepository.branches[taskOperation.base])
        /\ taskAt \in {"end", "done"} =>
             \A b \in TaskBranches \ taskOutside :
                taskRepository.branches[b] = <<>> =>
                    IsPrefix(taskBegan.branches[b], taskRepository.branches[taskOperation.base])

\* The inductive invariant
TaskIInv ==
    /\ TaskTypes /\ TaskKindsOK /\ TaskHeadOK /\ TaskStepsOK /\ TaskBranchesOK /\ TaskRequestsOK
    /\ TaskContentOK /\ TaskCheckedOK /\ TaskConsumedOK /\ TaskCleanupOK

----------------------------------------
\* WorkflowTasks: the operators

\* A finite set has a sequence of its elements.
LEMMA TaskSequenceOfSet ==
    ASSUME NEW S, IsFiniteSet(S)
    PROVE  SetToSeq(S) \in Seq(S)
<1>1. Cardinality(S) \in Nat /\ ExistsBijection(1 .. Cardinality(S), S)
  BY FS_NatBijection, FS_CountingElements
<1>2. PICK f \in [1 .. Cardinality(S) -> S] : IsInjective(f)
  BY <1>1, Zenon DEF ExistsBijection, Bijection, Injection
<1>3. SetToSeq(S) \in [1 .. Cardinality(S) -> S]
  BY <1>2, Zenon DEF SetToSeq
<1>4. SetToSeq(S) \in UNION {[1 .. n -> S] : n \in Nat}
  BY <1>1, <1>3
<1>5. QED BY <1>4, SeqDef

\* Sequences put one after the other are a sequence.
LEMMA TaskFlattened ==
    ASSUME NEW S, NEW parts \in Seq(Seq(S))
    PROVE  FlattenSeq(parts) \in Seq(S)
<1> DEFINE Body(g, i) == IF i = 1 THEN parts[i] ELSE g[i - 1] \o parts[i]
           Solves(g, n) == g \in [1 .. n -> Seq(S)] /\ \A i \in 1 .. n : g[i] = Body(g, i)
           f == CHOOSE g : g = [i \in 1 .. Len(parts) |-> Body(g, i)]
<1>0. Len(parts) \in Nat /\ \A i \in 1 .. Len(parts) : parts[i] \in Seq(S)
  OBVIOUS
<1>1. \A n \in 0 .. Len(parts) : \E g : Solves(g, n)
  <2> DEFINE Bad == {n \in 0 .. Len(parts) : ~ \E g : Solves(g, n)}
  <2> SUFFICES ASSUME Bad # {} PROVE FALSE
    OBVIOUS
  <2>1. Bad \in SUBSET Nat
    OBVIOUS
  <2>2. PICK n \in Bad : \A m \in Bad : n <= m
    BY <2>1, ReleaseFewest
  <2>3. n # 0
    <3>1. Solves([i \in 1 .. 0 |-> <<>>], 0)
      BY 1 .. 0 = {}
    <3>2. QED BY <3>1
  <2>4. n - 1 \in 0 .. Len(parts) /\ n - 1 \notin Bad
    <3> HIDE DEF Solves
    <3>1. n \in Nat /\ n - 1 < n /\ n - 1 \in 0 .. Len(parts)
      BY <1>0, <2>1, <2>2, <2>3
    <3>2. n - 1 \notin Bad
      <4> HIDE DEF Bad
      <4>1. QED BY <2>2, <3>1
    <3>3. QED BY <3>1, <3>2
  <2>5. PICK g : Solves(g, n - 1)
    BY <2>4
  <2> DEFINE h == [i \in 1 .. n |-> IF i < n THEN g[i] ELSE Body(g, n)]
  <2>6. Body(g, n) \in Seq(S)
    BY <2>3, <2>5, ConcatProperties
  <2>7. h \in [1 .. n -> Seq(S)]
    <3> HIDE DEF Body
    <3>1. \A i \in 1 .. n : i < n => g[i] \in Seq(S)
      BY <2>5
    <3>2. QED BY <2>6, <3>1
  <2>8. ASSUME NEW i \in 1 .. n PROVE h[i] = Body(h, i)
    <3>1. CASE i < n
      <4>1. h[i] = g[i] /\ g[i] = Body(g, i)
        BY <2>5, <3>1, i \in 1 .. n - 1
      <4>2. i # 1 => h[i - 1] = g[i - 1]
        BY <3>1
      <4>3. QED BY <4>1, <4>2
    <3>2. CASE i = n
      BY <3>2
    <3>3. QED BY <3>1, <3>2
  <2>9. Solves(h, n)
    BY <2>7, <2>8
  <2>10. QED BY <2>2, <2>9
<1>2. CASE parts = <<>>
  BY <1>2 DEF FlattenSeq
<1>3. CASE parts # <<>>
  <2>1. Len(parts) \in Nat \ {0}
    BY <1>0, <1>3
  <2>2. PICK g : Solves(g, Len(parts))
    <3> HIDE DEF Solves
    <3>1. QED BY <1>1, <2>1
  <2>3. g = [i \in 1 .. Len(parts) |-> Body(g, i)]
    BY <2>2
  <2>4. f = [i \in 1 .. Len(parts) |-> Body(f, i)]
    BY <2>3, Zenon
  <2> HIDE DEF f
  <2>5. \A n \in 1 .. Len(parts) : f[n] \in Seq(S)
    <3> DEFINE Bad == {n \in 1 .. Len(parts) : f[n] \notin Seq(S)}
    <3> SUFFICES ASSUME Bad # {} PROVE FALSE
      OBVIOUS
    <3>1. Bad \in SUBSET Nat
      OBVIOUS
    <3>2. PICK n \in Bad : \A m \in Bad : n <= m
      BY <3>1, ReleaseFewest
    <3>3. f[n] = Body(f, n)
      BY <2>4
    <3>4. parts[n] \in Seq(S)
      OBVIOUS
    <3>5. CASE n = 1
      BY <3>2, <3>3, <3>4, <3>5
    <3>6. CASE n # 1
      <4>1. n - 1 \in 1 .. Len(parts) /\ n - 1 \notin Bad
        BY <3>2, <3>6
      <4>2. f[n - 1] \in Seq(S)
        BY <4>1
      <4>3. f[n - 1] \o parts[n] \in Seq(S)
        BY <3>4, <4>2, ConcatProperties
      <4>4. QED BY <3>2, <3>3, <3>6, <4>3
    <3>7. QED BY <3>5, <3>6
  <2>6. FlattenSeq(parts) = f[Len(parts)]
    BY <2>1 DEF FlattenSeq, f
  <2>7. QED BY <2>1, <2>5, <2>6
<1>4. QED BY <1>2, <1>3

\* What a declared file asks for is a change to each of some of its paths.
LEMMA TaskFileChangesTyped ==
    ASSUME NEW file \in TaskFileType, NEW tree \in TaskTree
    PROVE  /\ TaskFileChanges(file, tree) \subseteq TaskChangeType
           /\ IsFiniteSet(TaskFileChanges(file, tree))
<1>1. /\ file.mode \in {"overwrite", "skip", "append", "replace"} /\ file.paths \in SUBSET TaskFiles
      /\ file.lines \in SUBSET TaskLines /\ file.from \in TaskLines /\ file.to \in TaskLines
  BY DEF TaskFileType
<1>2. \A f \in TaskFiles : /\ tree[f] \in TaskContent /\ tree[f].there \in BOOLEAN
                           /\ tree[f].lines \in SUBSET TaskLines
  BY DEF TaskTree, TaskContent
<1>3. \A f \in TaskFiles : TaskReplaced(file, tree[f]) \in TaskContent
  BY <1>1, <1>2 DEF TaskReplaced, TaskContent
<1>4. TaskText(file.lines) \in TaskContent
  BY <1>1 DEF TaskText, TaskContent
<1>5. IsFiniteSet(file.paths) /\ \A some \in SUBSET file.paths : IsFiniteSet(some)
  BY <1>1, TaskAssumption, FS_Subset, Zenon
<1>6. CASE file.mode = "replace"
  <2> DEFINE some == {g \in file.paths : tree[g].there /\ TaskReplaced(file, tree[g]) # tree[g]}
             made == [f \in some |-> TaskChange("overwrite", f, TaskReplaced(file, tree[f]), TRUE)]
  <2>1. TaskFileChanges(file, tree) = {made[f] : f \in some}
    BY <1>6 DEF TaskFileChanges
  <2>2. \A f \in some : made[f] \in TaskChangeType
    BY <1>1, <1>3 DEF TaskChange, TaskChangeType
  <2>3. made \in Surjection(some, {made[f] : f \in some})
    BY Zenon DEF Surjection
  <2>4. IsFiniteSet(some)
    BY <1>5
  <2>5. IsFiniteSet({made[f] : f \in some})
    <3> HIDE DEF some, made
    <3>1. QED BY <2>3, <2>4, FS_Surjection, Zenon
  <2>6. QED BY <2>1, <2>2, <2>5, Zenon
<1>7. CASE file.mode # "replace"
  <2> DEFINE needed(f) == ~tree[f].there
               \/ (CASE file.mode = "skip" -> FALSE
                     [] file.mode = "append" -> ~(file.lines \subseteq tree[f].lines)
                     [] OTHER -> tree[f].lines # file.lines)
             made == [f \in file.paths |->
                        TaskChange(file.mode, f, TaskText(file.lines), needed(f))]
  <2>1. TaskFileChanges(file, tree) = {made[f] : f \in file.paths}
    BY <1>7 DEF TaskFileChanges
  <2>2. \A f \in file.paths : needed(f) \in BOOLEAN
    BY <1>1, <1>2
  <2>3. \A f \in file.paths : made[f] \in TaskChangeType
    <3> HIDE DEF needed
    <3>1. QED BY <1>1, <1>4, <2>2 DEF TaskChange, TaskChangeType
  <2>4. made \in Surjection(file.paths, {made[f] : f \in file.paths})
    <3> HIDE DEF needed
    <3>1. QED BY Zenon DEF Surjection
  <2>5. IsFiniteSet({made[f] : f \in file.paths})
    <3> HIDE DEF made
    <3>1. QED BY <1>5, <2>4, FS_Surjection, Zenon
  <2>6. QED BY <2>1, <2>3, <2>5, Zenon
<1>8. QED BY <1>6, <1>7

\* The changes of a plan are a sequence of changes.
LEMMA TaskPlanTyped ==
    ASSUME NEW files \in Seq(TaskFileType), NEW tree \in TaskTree
    PROVE  FlattenSeq([i \in DOMAIN files |-> SetToSeq(TaskFileChanges(files[i], tree))])
             \in Seq(TaskChangeType)
<1> DEFINE parts == [i \in DOMAIN files |-> SetToSeq(TaskFileChanges(files[i], tree))]
<1>1. ASSUME NEW i \in DOMAIN files PROVE parts[i] \in Seq(TaskChangeType)
  <2>1. files[i] \in TaskFileType
    OBVIOUS
  <2>2. SetToSeq(TaskFileChanges(files[i], tree)) \in Seq(TaskFileChanges(files[i], tree))
    BY <2>1, TaskFileChangesTyped, TaskSequenceOfSet, Zenon
  <2>3. QED BY <2>1, <2>2, TaskFileChangesTyped, SeqMonotonic, Zenon
<1>2. Len(files) \in Nat /\ DOMAIN files = 1 .. Len(files)
  OBVIOUS
<1>3. parts \in [1 .. Len(files) -> Seq(TaskChangeType)]
  BY <1>1, <1>2, Zenon
<1>4. parts \in Seq(Seq(TaskChangeType))
  <2> HIDE DEF parts
  <2>1. parts \in UNION {[1 .. n -> Seq(TaskChangeType)] : n \in Nat}
    BY <1>2, <1>3, Zenon
  <2>2. QED BY <2>1, SeqDef, Zenon
<1>5. QED BY <1>4, TaskFlattened, Zenon

\* So are those of a git step that stages a set of files.
LEMMA TaskStagedTyped ==
    ASSUME NEW some \in SUBSET TaskFiles
    PROVE  LET paths == SetToSeq(some)
               changes == [i \in DOMAIN paths |-> TaskChange("stage", paths[i], TaskMissing, TRUE)]
           IN  /\ changes \in Seq(TaskChangeType)
               /\ \A i \in DOMAIN changes : changes[i].path \in some
<1> DEFINE paths == SetToSeq(some)
           changes == [i \in DOMAIN paths |-> TaskChange("stage", paths[i], TaskMissing, TRUE)]
<1>1. paths \in Seq(some)
  BY TaskAssumption, FS_Subset, TaskSequenceOfSet, Zenon
<1>2. Len(paths) \in Nat /\ DOMAIN paths = 1 .. Len(paths) /\ \A i \in DOMAIN paths : paths[i] \in some
  <2> HIDE DEF paths
  <2>1. QED BY <1>1
<1>3. TaskMissing \in TaskContent
  BY DEF TaskMissing, TaskContent
<1>4. ASSUME NEW i \in DOMAIN paths
      PROVE  changes[i] \in TaskChangeType /\ changes[i].path \in some
  <2> HIDE DEF paths
  <2>1. QED BY <1>2, <1>3, <1>4 DEF TaskChange, TaskChangeType
<1>5. changes \in [1 .. Len(paths) -> TaskChangeType]
  <2> HIDE DEF paths
  <2>1. QED BY <1>2, <1>4
<1>6. changes \in UNION {[1 .. n -> TaskChangeType] : n \in Nat}
  <2> HIDE DEF changes, paths
  <2>1. QED BY <1>2, <1>5, Zenon
<1>7. changes \in Seq(TaskChangeType)
  <2> HIDE DEF changes
  <2>1. QED BY <1>6, SeqDef, Zenon
<1>8. \A i \in DOMAIN changes : changes[i].path \in some
  <2>1. DOMAIN changes = DOMAIN paths
    OBVIOUS
  <2> HIDE DEF changes, paths
  <2>2. QED BY <1>4, <2>1
<1>9. QED BY <1>7, <1>8

\* A history with a commit ends with a tree.
LEMMA TaskLastTree ==
    ASSUME NEW history \in Seq(TaskTree), history # <<>>
    PROVE  Last(history) \in TaskTree
BY DEF Last

\* HEAD has a last tree when it has a commit.
LEMMA TaskHeadIs ==
    ASSUME NEW repository \in TaskRepositoryType, TaskHistory(repository) # <<>>
    PROVE  TaskHistory(repository) \in Seq(TaskTree) /\ TaskHeadTree(repository) \in TaskTree
BY TaskAssumption, TaskLastTree DEF TaskRepositoryType, TaskHistory, TaskHeadTree

\* A commit is put at the end of what was there.
LEMMA TaskAppended ==
    ASSUME NEW history \in Seq(TaskTree), NEW tree \in TaskTree
    PROVE  /\ Append(history, tree) \in Seq(TaskTree) /\ Append(history, tree) # <<>>
           /\ Last(Append(history, tree)) = tree
           /\ history # <<>> => /\ Len(Append(history, tree)) >= 2
                                /\ Append(history, tree)[Len(Append(history, tree)) - 1]
                                     = Last(history)
           /\ \A part \in Seq(TaskTree) :
                IsPrefix(part, history) => IsPrefix(part, Append(history, tree))
BY AppendProperties DEF IsPrefix, Last

\* The empty history is a prefix of every other.
LEMMA TaskNothingIsPrefix == \A history \in Seq(TaskTree) : IsPrefix(<<>>, history)
BY DEF IsPrefix

\* An operation is one of those asked for.
LEMMA TaskOperationTyped ==
    ASSUME TaskTypes
    PROVE  taskOperation \in TaskOperationType
BY DEF TaskTypes, taskOperation

\* The steps left are those after the first; they keep their order.
LEMMA TaskStepsLeft ==
    ASSUME NEW steps \in Seq(TaskStepType), steps # <<>>
    PROVE  /\ Head(steps) \in TaskStepType /\ Tail(steps) \in Seq(TaskStepType)
           /\ Range(steps) = {Head(steps)} \cup Range(Tail(steps))
           /\ (\A i, j \in DOMAIN steps : i < j => TaskRank(steps[i]) < TaskRank(steps[j])) =>
                /\ \A i, j \in DOMAIN Tail(steps) :
                     i < j => TaskRank(Tail(steps)[i]) < TaskRank(Tail(steps)[j])
                /\ \A step \in Range(Tail(steps)) : TaskRank(Head(steps)) < TaskRank(step)
<1>1. /\ Head(steps) \in TaskStepType /\ Tail(steps) \in Seq(TaskStepType)
      /\ Len(Tail(steps)) = Len(steps) - 1 /\ Len(steps) \in Nat /\ Len(steps) >= 1
      /\ DOMAIN steps = 1 .. Len(steps) /\ DOMAIN Tail(steps) = 1 .. Len(steps) - 1
      /\ \A i \in 1 .. Len(steps) - 1 : Tail(steps)[i] = steps[i + 1]
      /\ Head(steps) = steps[1]
  BY HeadTailProperties
<1>2. Range(steps) = {Head(steps)} \cup Range(Tail(steps))
  <2>1. ASSUME NEW i \in DOMAIN steps PROVE steps[i] \in {Head(steps)} \cup Range(Tail(steps))
    <3>1. CASE i = 1
      BY <1>1, <3>1
    <3>2. CASE i # 1
      <4>1. i - 1 \in DOMAIN Tail(steps) /\ Tail(steps)[i - 1] = steps[i]
        BY <1>1, <3>2
      <4>2. QED BY <4>1 DEF Range
    <3>3. QED BY <3>1, <3>2
  <2>2. ASSUME NEW i \in DOMAIN Tail(steps) PROVE Tail(steps)[i] \in Range(steps)
    BY <1>1 DEF Range
  <2>3. Head(steps) \in Range(steps)
    BY <1>1 DEF Range
  <2>4. QED BY <2>1, <2>2, <2>3 DEF Range
<1>3. ASSUME \A i, j \in DOMAIN steps : i < j => TaskRank(steps[i]) < TaskRank(steps[j])
      PROVE  /\ \A i, j \in DOMAIN Tail(steps) :
                  i < j => TaskRank(Tail(steps)[i]) < TaskRank(Tail(steps)[j])
             /\ \A step \in Range(Tail(steps)) : TaskRank(Head(steps)) < TaskRank(step)
  BY <1>1, <1>3 DEF Range
<1>4. QED BY <1>1, <1>2, <1>3

\* The ranks of the steps
LEMMA TaskRanks ==
    /\ TaskRank("prepare") = 1 /\ TaskRank("apply") = 2 /\ TaskRank("stage") = 3
    /\ TaskRank("commit") = 4 /\ TaskRank("push") = 5 /\ TaskRank("request") = 6
    /\ TaskRank("action") = 7
BY DEF TaskRank

\* A checkout makes HEAD the branch; what was as in HEAD stays as in HEAD.
LEMMA TaskCheckoutIs ==
    ASSUME NEW repository \in TaskRepositoryType, TaskHistory(repository) # <<>>,
           NEW branch \in TaskBranches, NEW history \in Seq(TaskTree), history # <<>>
    PROVE  LET after == TaskCheckedOut(repository, branch, history)
           IN  /\ after \in TaskRepositoryType
               /\ after.head = branch /\ after.server = repository.server
               /\ after.requests = repository.requests
               /\ after.branches = [repository.branches EXCEPT ![branch] = history]
               /\ TaskHistory(after) = history
               /\ \A f \in TaskFiles : repository.index[f] = TaskHeadTree(repository)[f] =>
                                         after.index[f] = TaskHeadTree(after)[f]
<1> DEFINE now == TaskHeadTree(repository)
           tree == Last(history)
           after == TaskCheckedOut(repository, branch, history)
           index == [f \in TaskFiles |-> IF now[f] = tree[f] THEN repository.index[f] ELSE tree[f]]
           work == [f \in TaskFiles |-> IF now[f] = tree[f] THEN repository.work[f] ELSE tree[f]]
<1>1. /\ repository.index \in TaskTree /\ repository.work \in TaskTree
      /\ repository.branches \in [TaskBranches -> Seq(TaskTree)]
      /\ repository.server \in [TaskBranches -> Seq(TaskTree)]
      /\ repository.requests \in SUBSET TaskBranches /\ repository.remote \in BOOLEAN
      /\ repository.at \in Seq(TaskTree)
      /\ repository = [head |-> repository.head, at |-> repository.at,
                       branches |-> repository.branches, index |-> repository.index,
                       work |-> repository.work, remote |-> repository.remote,
                       server |-> repository.server, requests |-> repository.requests]
  BY DEF TaskRepositoryType
<1>2. now \in TaskTree /\ tree \in TaskTree
  BY TaskHeadIs, TaskLastTree
<1>3. index \in TaskTree /\ work \in TaskTree
  BY <1>1, <1>2 DEF TaskTree
<1>4. after = [head |-> branch, at |-> repository.at,
               branches |-> [repository.branches EXCEPT ![branch] = history],
               index |-> index, work |-> work, remote |-> repository.remote,
               server |-> repository.server, requests |-> repository.requests]
  <2> HIDE DEF now, tree
  <2>1. after = [repository EXCEPT !.head = branch, !.branches[branch] = history,
                                   !.index = index, !.work = work]
    BY DEF TaskCheckedOut, now, tree
  <2> HIDE DEF after, index, work
  <2>2. QED BY <1>1, <2>1
<1>5. /\ after.head = branch /\ after.branches = [repository.branches EXCEPT ![branch] = history]
      /\ after.index = index /\ after.server = repository.server
      /\ after.requests = repository.requests
  <2> HIDE DEF after, index, work
  <2>1. QED BY <1>4
<1>6. [repository.branches EXCEPT ![branch] = history] \in [TaskBranches -> Seq(TaskTree)]
  BY <1>1
<1>7. after \in TaskRepositoryType
  <2> HIDE DEF after, index, work
  <2>1. QED BY <1>1, <1>3, <1>4, <1>6 DEF TaskRepositoryType
<1>8. TaskHistory(after) = history
  <2> HIDE DEF after
  <2>1. QED BY <1>1, <1>5, TaskAssumption DEF TaskHistory
<1>9. ASSUME NEW f \in TaskFiles, repository.index[f] = TaskHeadTree(repository)[f]
      PROVE  after.index[f] = TaskHeadTree(after)[f]
  <2>1. TaskHeadTree(after) = tree
    BY <1>8 DEF TaskHeadTree
  <2> HIDE DEF after
  <2>2. after.index[f] = IF now[f] = tree[f] THEN repository.index[f] ELSE tree[f]
    BY <1>5
  <2>3. QED BY <1>9, <2>1, <2>2
<1>10. QED BY <1>5, <1>7, <1>8, <1>9

----------------------------------------
\* WorkflowTasks: the steps

\* An operation that stops has the rest of its work behind it.
LEMMA TaskStopsKeeps ==
    ASSUME TaskIInv, NEW outcome \in {"ok", "error", "skipped"}, TaskStops(outcome),
           taskAt \in TaskOpening \cup (TaskWorking \ {"restore"}),
           UNCHANGED taskRepository, TaskWithin,
           taskShared' \in [mutated: SUBSET TaskFiles, changed: BOOLEAN]
    PROVE  TaskIInv'
<1> USE DEF TaskIInv
<1>2. /\ taskRun'.branch = taskRun.branch /\ taskRun'.changes = taskRun.changes
      /\ taskRun'.steps = taskRun.steps /\ taskRun'.change = taskRun.change
      /\ taskRun'.checked = taskRun.checked /\ taskRun'.original = taskRun.original
      /\ taskRun'.prepared = taskRun.prepared /\ taskRun'.committed = taskRun.committed
      /\ taskRun'.stuck = taskRun.stuck /\ taskRun'.consumed = taskRun.consumed
      /\ taskRun' \in TaskRunType
  BY DEF TaskTypes, TaskStops, TaskRunType
<1>3. /\ taskAt' = IF taskRun.prepared THEN "restore" ELSE "end"
      /\ UNCHANGED <<taskOperations, taskJoined, taskIndex, taskBegan, taskRepository, taskOutside>>
  BY DEF TaskStops, TaskWithin, taskGiven
<1>4. /\ taskOperation' = taskOperation /\ TaskPaths' = TaskPaths /\ TaskIgnored' = TaskIgnored
      /\ taskAt # "begin" /\ taskAt' # "begin" /\ taskAt' \notin TaskOpening
      /\ taskRun.prepared \in BOOLEAN
  BY <1>2, <1>3 DEF taskOperation, TaskPaths, TaskIgnored, TaskOpening, TaskWorking, TaskTypes, TaskRunType
<1>5. TaskTypes'
  BY <1>2, <1>3 DEF TaskTypes, TaskPCs
<1>6. TaskKindsOK'
  BY <1>2, <1>3, <1>4 DEF TaskKindsOK, TaskWorking, TaskOpening, TaskHeadOK, TaskOver
<1>7. TaskHeadOK'
  BY <1>2, <1>3, <1>4 DEF TaskHeadOK, TaskWorking, TaskOpening, TaskOver, TaskExists
<1>8. TaskStepsOK'
  BY <1>2, <1>3, <1>4 DEF TaskStepsOK, TaskByDefault
<1>9. TaskBranchesOK'
  BY <1>2, <1>3, <1>4 DEF TaskBranchesOK, TaskByDefault
<1>10. TaskRequestsOK'
  BY <1>2, <1>3, <1>4 DEF TaskRequestsOK, TaskByDefault, TaskShown
<1>11. TaskContentOK'
  BY <1>2, <1>3, <1>4 DEF TaskContentOK, TaskVouched, TaskOwn, TaskCommitted
<1>12. TaskCheckedOK'
  BY <1>2, <1>3, <1>4 DEF TaskCheckedOK
<1>13. TaskConsumedOK'
  BY <1>2, <1>3, <1>4 DEF TaskConsumedOK
<1>14. TaskCleanupOK'
  <2>1. taskOperation.kind = "cleanup" => taskAt \in TaskOpening
    BY DEF TaskKindsOK, TaskWorking, TaskOpening
  <2>2. taskOperation.kind = "cleanup" => taskOperation.base \in TaskBranches
    BY TaskOperationTyped DEF TaskOperationType
  <2>3. taskRepository.branches \in [TaskBranches -> Seq(TaskTree)]
    BY DEF TaskTypes, TaskRepositoryType
  <2>4. ASSUME taskOperation.kind = "cleanup", NEW b \in TaskBranches \ taskOutside,
               taskRepository.branches[b] = <<>>
        PROVE  IsPrefix(taskBegan.branches[b], taskRepository.branches[taskOperation.base])
    BY <1>4, <2>1, <2>4, <2>2, <2>3, TaskNothingIsPrefix DEF TaskCleanupOK
  <2>5. QED BY <1>3, <1>4, <2>4 DEF TaskCleanupOK
<1>15. QED BY <1>5, <1>6, <1>7, <1>8, <1>9, <1>10, <1>11, <1>12, <1>13, <1>14

\* A safeguard that holds, and a comparison that allows the deletion, let the
\* operation go on.
LEMMA TaskOpensKeeps ==
    ASSUME TaskIInv, taskAt \in {"hard", "soft", "plan"}, taskAt' \in TaskOpening,
           UNCHANGED <<taskRun, taskRepository, taskShared>>, TaskWithin,
           taskAt' = "delete" =>
             /\ taskOperation.kind = "cleanup" /\ taskOperation.branch # taskOperation.base
             /\ IsPrefix(taskRepository.branches[taskOperation.branch],
                         taskRepository.branches[taskOperation.base])
    PROVE  TaskIInv'
<1> USE DEF TaskIInv
<1>2. /\ UNCHANGED <<taskOperations, taskJoined, taskIndex, taskBegan, taskRepository, taskOutside,
                     taskRun, taskShared>>
      /\ taskOperation' = taskOperation /\ TaskPaths' = TaskPaths /\ TaskIgnored' = TaskIgnored
  BY DEF TaskWithin, taskGiven, taskOperation, TaskPaths, TaskIgnored
<1>3. taskAt \in TaskOpening /\ taskAt # "delete" /\ taskRun = TaskFresh /\ ~taskRun.prepared
  BY DEF TaskKindsOK, TaskOpening, TaskFresh
<1>5. TaskTypes'
  BY <1>2, <1>3 DEF TaskTypes, TaskPCs, TaskOpening
<1>6. TaskKindsOK'
  BY <1>2, <1>3 DEF TaskKindsOK, TaskWorking, TaskOpening
<1>7. TaskHeadOK'
  BY <1>2, <1>3 DEF TaskHeadOK, TaskWorking, TaskOpening, TaskOver, TaskExists
<1>8. TaskStepsOK'
  BY <1>2, <1>3 DEF TaskStepsOK, TaskByDefault, TaskOpening
<1>9. TaskBranchesOK'
  BY <1>2, <1>3 DEF TaskBranchesOK, TaskByDefault, TaskOpening
<1>10. TaskRequestsOK'
  BY <1>2, <1>3 DEF TaskRequestsOK, TaskByDefault, TaskShown, TaskOpening
<1>11. TaskContentOK'
  BY <1>2, <1>3 DEF TaskContentOK, TaskVouched, TaskOwn, TaskCommitted, TaskOpening
<1>12. TaskCheckedOK'
  BY <1>2, <1>3 DEF TaskCheckedOK, TaskOpening
<1>13. TaskConsumedOK'
  BY <1>2, <1>3 DEF TaskConsumedOK, TaskOpening
<1>14. TaskCleanupOK'
  BY <1>2, <1>3 DEF TaskCleanupOK, TaskOpening
<1>15. QED BY <1>5, <1>6, <1>7, <1>8, <1>9, <1>10, <1>11, <1>12, <1>13, <1>14

\* The steps of a plan that has none of its own
TaskOrdered(steps) ==
    LET left == Range(steps)
    IN /\ \A i, j \in DOMAIN steps : i < j => TaskRank(steps[i]) < TaskRank(steps[j])
       /\ "commit" \in left => "prepare" \in left
       /\ left \cap {"prepare", "commit", "request"} # {} => "push" \in left

\* So is the state an operation begins in.
LEMMA TaskFreshTyped == TaskFresh \in TaskRunType
BY DEF TaskFresh, TaskRunType

\* An operation that is planned, and has done nothing yet
TaskPlanned(branch, changes, steps, consumed) ==
    [branch |-> branch, changes |-> changes, steps |-> steps, change |-> 1,
     checked |-> FALSE, original |-> TaskNobody, prepared |-> FALSE,
     committed |-> FALSE, outcome |-> "ok", stuck |-> FALSE, consumed |-> consumed]

\* A plan is the first an operation does, and it only says what will be done.
LEMMA TaskPlanKeeps ==
    ASSUME TaskIInv, taskAt = "plan", taskOperation.kind # "cleanup",
           NEW branch \in TaskBranches \cup {TaskNobody}, NEW changes \in Seq(TaskChangeType),
           NEW steps \in Seq(TaskStepType), NEW consumed \in SUBSET TaskFiles,
           taskRun' = TaskPlanned(branch, changes, steps, consumed),
           taskAt' \in {"original", "guard", "end"},
           taskShared' \in [mutated: SUBSET TaskFiles, changed: BOOLEAN],
           IF taskOperation.kind = "stage-commit"
           THEN branch = TaskNobody /\ Range(steps) \subseteq {"stage", "commit"}
           ELSE branch \in TaskBranches,
           taskOperation.kind \in {"task", "pr-open"} /\ taskOperation.steps = <<>> =>
             TaskOrdered(steps),
           taskOperation.kind = "stage-commit" /\ consumed # {} =>
             \A i \in DOMAIN changes :
               /\ changes[i].path \in consumed
               /\ taskOperation.paths # {} => changes[i].path \in taskOperation.paths,
           UNCHANGED taskRepository, TaskWithin
    PROVE  TaskIInv'
<1> USE DEF TaskIInv
<1>2. /\ UNCHANGED <<taskOperations, taskJoined, taskIndex, taskBegan, taskRepository, taskOutside>>
      /\ taskOperation' = taskOperation /\ TaskIgnored' = TaskIgnored
  BY DEF TaskWithin, taskGiven, taskOperation, TaskIgnored
<1>3. taskAt \in TaskOpening /\ taskRun = TaskFresh
  BY DEF TaskKindsOK, TaskOpening
<1>4. /\ taskRun'.branch = branch /\ taskRun'.changes = changes
      /\ taskRun'.steps = steps /\ taskRun'.change = 1
      /\ taskRun'.checked = FALSE /\ taskRun'.original = TaskNobody
      /\ taskRun'.prepared = FALSE /\ taskRun'.committed = FALSE
      /\ taskRun'.stuck = FALSE /\ taskRun'.consumed = consumed
      /\ taskRun' \in TaskRunType
      /\ ~taskRun.prepared /\ ~taskRun.committed /\ taskRun.original = TaskNobody /\ TaskPaths = {}
  BY <1>3 DEF TaskFresh, TaskPaths, TaskPlanned, TaskRunType
<1>5. TaskTypes'
  BY <1>2, <1>4 DEF TaskTypes, TaskPCs
<1>6. TaskKindsOK'
  BY <1>2, <1>4 DEF TaskKindsOK, TaskWorking, TaskOpening
<1>7. TaskHeadOK'
  BY <1>2, <1>4 DEF TaskHeadOK, TaskWorking, TaskOpening, TaskOver, TaskExists
<1>8. TaskStepsOK'
  BY <1>2, <1>3, <1>4 DEF TaskStepsOK, TaskByDefault, TaskOrdered, TaskRequestsOK
<1>9. TaskBranchesOK'
  BY <1>2, <1>4 DEF TaskBranchesOK, TaskByDefault, TaskOpening
<1>10. TaskRequestsOK'
  BY <1>2, <1>3, <1>4 DEF TaskRequestsOK, TaskByDefault, TaskShown, TaskOpening, TaskOrdered
<1>11. TaskContentOK'
  BY <1>2, <1>4 DEF TaskVouched, TaskOwn, TaskContentOK
<1>12. TaskCheckedOK'
  BY <1>2, <1>4 DEF TaskCheckedOK
<1>13. TaskConsumedOK'
  BY <1>2, <1>4 DEF TaskConsumedOK, TaskPaths
<1>14. TaskCleanupOK'
  BY <1>2, <1>4 DEF TaskCleanupOK
<1>15. QED BY <1>5, <1>6, <1>7, <1>8, <1>9, <1>10, <1>11, <1>12, <1>13, <1>14

\* The branch that is read is HEAD's.
LEMMA TaskReadOriginalKeeps ==
    ASSUME TaskIInv, taskAt = "original", taskAt' = "guard",
           taskRun' = [taskRun EXCEPT !.original = taskRepository.head],
           UNCHANGED <<taskRepository, taskShared>>, TaskWithin
    PROVE  TaskIInv'
<1> USE DEF TaskIInv
<1>2. /\ taskRun'.branch = taskRun.branch /\ taskRun'.changes = taskRun.changes
      /\ taskRun'.steps = taskRun.steps /\ taskRun'.change = taskRun.change
      /\ taskRun'.checked = taskRun.checked /\ taskRun'.original = taskRepository.head
      /\ taskRun'.prepared = taskRun.prepared /\ taskRun'.committed = taskRun.committed
      /\ taskRun'.stuck = taskRun.stuck /\ taskRun'.consumed = taskRun.consumed
      /\ taskRun' \in TaskRunType
  BY DEF TaskTypes, TaskRunType, TaskRepositoryType
<1>3. /\ UNCHANGED <<taskOperations, taskJoined, taskIndex, taskBegan, taskRepository, taskOutside,
                     taskShared>>
      /\ taskOperation' = taskOperation /\ TaskPaths' = TaskPaths /\ TaskIgnored' = TaskIgnored
  BY <1>2 DEF TaskWithin, taskGiven, taskOperation, TaskPaths, TaskIgnored
<1>4. ~taskRun.prepared
  BY DEF TaskHeadOK
<1>5. TaskTypes'
  BY <1>2, <1>3 DEF TaskTypes, TaskPCs
<1>6. TaskKindsOK'
  BY <1>2, <1>3 DEF TaskKindsOK, TaskWorking, TaskOpening
<1>7. TaskHeadOK'
  BY <1>2, <1>3, <1>4 DEF TaskHeadOK, TaskWorking, TaskOpening, TaskOver, TaskExists, TaskHistory
<1>8. TaskStepsOK'
  BY <1>2, <1>3 DEF TaskStepsOK, TaskByDefault
<1>9. TaskBranchesOK'
  BY <1>2, <1>3 DEF TaskBranchesOK, TaskByDefault
<1>10. TaskRequestsOK'
  BY <1>2, <1>3 DEF TaskRequestsOK, TaskByDefault, TaskShown, TaskOpening
<1>11. TaskContentOK'
  BY <1>2, <1>3 DEF TaskContentOK, TaskVouched, TaskOwn, TaskCommitted
<1>12. TaskCheckedOK'
  BY <1>2, <1>3 DEF TaskCheckedOK
<1>13. TaskConsumedOK'
  BY <1>2, <1>3 DEF TaskConsumedOK
<1>14. TaskCleanupOK'
  BY <1>2, <1>3 DEF TaskCleanupOK, TaskKindsOK, TaskWorking
<1>15. QED BY <1>5, <1>6, <1>7, <1>8, <1>9, <1>10, <1>11, <1>12, <1>13, <1>14

\* The branch that is deleted is in its base, and not HEAD's.
LEMMA TaskDeleteKeeps ==
    ASSUME TaskIInv, taskAt = "delete", TaskStops("ok"), taskRepository.head # taskOperation.branch,
           taskRepository' = [taskRepository EXCEPT !.branches[taskOperation.branch] = <<>>],
           UNCHANGED taskShared, TaskWithin
    PROVE  TaskIInv'
<1> USE DEF TaskIInv
<1>2. taskOperation.kind = "cleanup" /\ taskRun = TaskFresh /\ ~taskRun.prepared
  BY DEF TaskKindsOK, TaskOpening, TaskFresh
<1>3. /\ UNCHANGED <<taskOperations, taskJoined, taskIndex, taskBegan, taskOutside, taskShared>>
      /\ taskOperation' = taskOperation /\ taskAt' = "end"
  BY <1>2 DEF TaskWithin, taskGiven, taskOperation, TaskStops
<1>4. /\ taskRun'.branch = taskRun.branch /\ taskRun'.changes = taskRun.changes
      /\ taskRun'.steps = taskRun.steps /\ taskRun'.change = taskRun.change
      /\ taskRun'.checked = taskRun.checked /\ taskRun'.original = taskRun.original
      /\ taskRun'.prepared = taskRun.prepared /\ taskRun'.committed = taskRun.committed
      /\ taskRun'.stuck = taskRun.stuck /\ taskRun'.consumed = taskRun.consumed
      /\ taskRun' \in TaskRunType
  BY DEF TaskTypes, TaskStops, TaskRunType
<1>5. taskOperation.branch \in TaskBranches /\ taskOperation.base \in TaskBranches
  BY TaskOperationTyped DEF TaskOperationType
<1>6. /\ taskRepository.branches \in [TaskBranches -> Seq(TaskTree)]
      /\ taskRepository.head \in TaskBranches \cup {TaskNobody}
      /\ taskRepository' \in TaskRepositoryType
      /\ taskRepository'.head = taskRepository.head /\ taskRepository'.at = taskRepository.at
      /\ \A b \in TaskBranches :
           taskRepository'.branches[b] =
             IF b = taskOperation.branch THEN <<>> ELSE taskRepository.branches[b]
  <2>1. taskRepository \in TaskRepositoryType /\ <<>> \in Seq(TaskTree)
    BY DEF TaskTypes
  <2>2. QED BY <1>5, <2>1 DEF TaskRepositoryType
<1>7. TaskTypes'
  BY <1>3, <1>4, <1>6 DEF TaskTypes, TaskPCs
<1>8. TaskKindsOK'
  BY <1>2, <1>3, <1>4 DEF TaskKindsOK, TaskWorking, TaskOpening, TaskFresh
<1>9. TaskHeadOK'
  BY <1>6, TaskAssumption, <1>2, <1>3, <1>4 DEF TaskHistory, TaskHeadOK, TaskWorking, TaskOver, TaskFresh
<1>10. TaskStepsOK' /\ TaskBranchesOK' /\ TaskRequestsOK' /\ TaskConsumedOK'
  BY <1>2, <1>3 DEF TaskStepsOK, TaskBranchesOK, TaskRequestsOK, TaskConsumedOK, TaskByDefault
<1>11. TaskContentOK'
  BY <1>2, <1>3 DEF TaskContentOK, TaskVouched
<1>12. TaskCheckedOK'
  BY <1>2, <1>3, <1>4 DEF TaskCheckedOK
<1>13. TaskCleanupOK'
  BY <1>2, <1>5, <1>6, TaskNothingIsPrefix, <1>3 DEF TaskCleanupOK, TaskOpening
<1>14. QED BY <1>7, <1>8, <1>9, <1>10, <1>11, <1>12, <1>13

\* A step goes on when its guards hold; the worktree has been looked at by then.
LEMMA TaskGuardKeeps ==
    ASSUME TaskIInv, taskAt = "guard", taskRun.steps # <<>>, taskAt' = "act",
           NEW looks \in BOOLEAN,
           looks <=> taskOperation.clean /\ ~taskRun.checked
                       /\ taskStep \in {"prepare", "apply", "stage", "commit", "action"},
           looks => TaskDirty(taskRepository, TaskIgnored) = {},
           taskRun' = [taskRun EXCEPT !.checked = @ \/ looks],
           UNCHANGED <<taskRepository, taskShared>>, TaskWithin
    PROVE  TaskIInv'
<1> USE DEF TaskIInv
<1>2. /\ taskRun'.branch = taskRun.branch /\ taskRun'.changes = taskRun.changes
      /\ taskRun'.steps = taskRun.steps /\ taskRun'.change = taskRun.change
      /\ taskRun'.original = taskRun.original
      /\ taskRun'.prepared = taskRun.prepared /\ taskRun'.committed = taskRun.committed
      /\ taskRun'.stuck = taskRun.stuck /\ taskRun'.consumed = taskRun.consumed
      /\ taskRun'.checked <=> taskRun.checked \/ looks
      /\ taskRun' \in TaskRunType
  BY DEF TaskTypes, TaskRunType
<1>3. /\ UNCHANGED <<taskOperations, taskJoined, taskIndex, taskBegan, taskRepository, taskOutside,
                     taskShared>>
      /\ taskOperation' = taskOperation /\ TaskPaths' = TaskPaths /\ TaskIgnored' = TaskIgnored
      /\ taskStep' = taskStep
  BY <1>2 DEF TaskWithin, taskGiven, taskOperation, TaskPaths, TaskIgnored, taskStep
<1>5. TaskTypes'
  BY <1>2, <1>3 DEF TaskTypes, TaskPCs
<1>6. TaskKindsOK'
  BY <1>2, <1>3 DEF TaskKindsOK, TaskWorking, TaskOpening
<1>7. TaskHeadOK'
  BY <1>2, <1>3 DEF TaskHeadOK, TaskWorking, TaskOpening, TaskOver, TaskExists
<1>8. TaskStepsOK'
  BY <1>2, <1>3 DEF TaskStepsOK, TaskByDefault
<1>9. TaskBranchesOK'
  BY <1>2, <1>3 DEF TaskBranchesOK, TaskByDefault
<1>10. TaskRequestsOK'
  BY <1>2, <1>3 DEF TaskRequestsOK, TaskByDefault, TaskShown, TaskOpening
<1>11. TaskContentOK'
  BY <1>2, <1>3 DEF TaskDirty, TaskOwn, TaskCheckedOK, TaskVouched, TaskCommitted, TaskContentOK
<1>12. TaskCheckedOK'
  BY <1>2, <1>3 DEF TaskCheckedOK
<1>13. TaskConsumedOK'
  BY <1>2, <1>3 DEF TaskConsumedOK
<1>14. TaskCleanupOK'
  BY <1>2, <1>3 DEF TaskCleanupOK, TaskKindsOK, TaskWorking
<1>15. QED BY <1>5, <1>6, <1>7, <1>8, <1>9, <1>10, <1>11, <1>12, <1>13, <1>14

\* The steps of a plan come in their order: what is first, and what is left then.
LEMMA TaskOrder ==
    ASSUME TaskTypes, TaskStepsOK, taskRun.steps # <<>>
    PROVE  LET left == Range(Tail(taskRun.steps))
           IN  /\ taskStep \in TaskStepType /\ Tail(taskRun.steps) \in Seq(TaskStepType)
               /\ Range(taskRun.steps) = {taskStep} \cup left
               /\ TaskByDefault =>
                    /\ \A i, j \in DOMAIN Tail(taskRun.steps) : i < j =>
                         TaskRank(Tail(taskRun.steps)[i]) < TaskRank(Tail(taskRun.steps)[j])
                    /\ "commit" \in left =>
                         taskRun.prepared \/ taskStep = "prepare" \/ "prepare" \in left
                    /\ left \cap {"prepare", "commit"} # {} => "push" \in left
                    /\ taskStep = "commit" => taskRun.prepared
                    /\ taskStep \in {"prepare", "commit"} => "push" \in left
                    /\ taskStep = "request" => left \cap {"prepare", "commit", "push", "request"} = {}
                    /\ taskStep = "push" => "push" \notin left
<1> DEFINE left == Range(Tail(taskRun.steps))
<1>1. taskRun.steps \in Seq(TaskStepType)
  BY DEF TaskTypes, TaskRunType
<1>2. /\ taskStep \in TaskStepType /\ Tail(taskRun.steps) \in Seq(TaskStepType)
      /\ Range(taskRun.steps) = {taskStep} \cup left
  BY <1>1, TaskStepsLeft DEF taskStep
<1>3. ASSUME TaskByDefault
      PROVE  /\ \A i, j \in DOMAIN Tail(taskRun.steps) : i < j =>
                  TaskRank(Tail(taskRun.steps)[i]) < TaskRank(Tail(taskRun.steps)[j])
             /\ \A step \in left : TaskRank(taskStep) < TaskRank(step)
  BY <1>3, <1>1, TaskStepsLeft DEF TaskStepsOK, taskStep
<1>4. ASSUME TaskByDefault
      PROVE  /\ "commit" \in Range(taskRun.steps) =>
                  taskRun.prepared \/ "prepare" \in Range(taskRun.steps)
             /\ Range(taskRun.steps) \cap {"prepare", "commit"} # {} =>
                  "push" \in Range(taskRun.steps)
  BY <1>4 DEF TaskStepsOK
<1> HIDE DEF left
<1>5. ASSUME TaskByDefault
      PROVE  /\ taskStep = "commit" => "prepare" \notin left
             /\ taskStep = "request" => left \cap {"prepare", "commit", "push", "request"} = {}
             /\ taskStep = "push" => left \cap {"prepare", "commit", "push"} = {}
  BY <1>3, <1>5, TaskRanks
<1>6. ASSUME TaskByDefault
      PROVE  /\ "commit" \in left => taskRun.prepared \/ taskStep = "prepare" \/ "prepare" \in left
             /\ left \cap {"prepare", "commit"} # {} => "push" \in left
             /\ taskStep = "commit" => taskRun.prepared
             /\ taskStep \in {"prepare", "commit"} => "push" \in left
  BY <1>2, <1>4, <1>5, <1>6
<1>7. QED BY <1>2, <1>3, <1>5, <1>6 DEF left

\* A step that works on the files, pushes or asks for a pull request
LEMMA TaskProgressKeeps ==
    ASSUME TaskIInv, taskAt = "act", NEW steps, NEW change,
           taskRun' = [taskRun EXCEPT !.steps = steps, !.change = change],
           taskStep # "prepare",
           \/ steps = Tail(taskRun.steps) /\ change = 1 /\ taskAt' = "guard"
           \/ /\ steps = taskRun.steps /\ change \in 1 .. Len(taskRun.changes) /\ taskAt' = "act"
              /\ taskStep \notin {"push", "request"},
           taskRepository' \in TaskRepositoryType,
           taskRepository'.head = taskRepository.head, taskRepository'.at = taskRepository.at,
           taskRepository'.branches = taskRepository.branches,
           \A f \in TaskFiles \ TaskPaths : taskRepository'.index[f] = taskRepository.index[f],
           taskStep # "push" => taskRepository'.server = taskRepository.server,
           taskStep = "push" =>
             taskRepository'.server[taskRun.branch] = taskRepository.branches[taskRun.branch],
           taskStep # "request" => taskRepository'.requests = taskRepository.requests,
           taskRepository'.requests \subseteq taskRepository.requests \cup {taskRun.branch},
           taskRepository.requests \subseteq taskRepository'.requests,
           taskShared' \in [mutated: SUBSET TaskFiles, changed: BOOLEAN], TaskWithin
    PROVE  TaskIInv'
<1> USE DEF TaskIInv
<1>2. /\ taskRun.steps # <<>> /\ steps \in Seq(TaskStepType) /\ change \in Nat \ {0}
      /\ Range(steps) \subseteq Range(taskRun.steps)
      /\ taskRun.changes # <<>> => change <= Len(taskRun.changes)
  <2>1. /\ taskRun.steps # <<>> /\ taskRun.steps \in Seq(TaskStepType)
        /\ taskRun.changes \in Seq(TaskChangeType)
    BY DEF TaskTypes, TaskRunType
  <2>2. /\ Tail(taskRun.steps) \in Seq(TaskStepType)
        /\ Range(Tail(taskRun.steps)) \subseteq Range(taskRun.steps)
    BY <2>1, TaskOrder
  <2>3. /\ change \in Nat \ {0}
        /\ taskRun.changes # <<>> => change <= Len(taskRun.changes)
    BY <2>1
  <2>4. steps = Tail(taskRun.steps) \/ steps = taskRun.steps
    OBVIOUS
  <2>5. QED BY <2>1, <2>2, <2>3, <2>4, Zenon
<1>3. /\ taskRun'.branch = taskRun.branch /\ taskRun'.changes = taskRun.changes
      /\ taskRun'.steps = steps /\ taskRun'.change = change
      /\ taskRun'.checked = taskRun.checked /\ taskRun'.original = taskRun.original
      /\ taskRun'.prepared = taskRun.prepared /\ taskRun'.committed = taskRun.committed
      /\ taskRun'.stuck = taskRun.stuck /\ taskRun'.consumed = taskRun.consumed
      /\ taskRun' \in TaskRunType
  BY <1>2 DEF TaskTypes, TaskRunType
<1>4. /\ UNCHANGED <<taskOperations, taskJoined, taskIndex, taskBegan, taskOutside>>
      /\ taskOperation' = taskOperation /\ TaskPaths' = TaskPaths /\ TaskIgnored' = TaskIgnored
      /\ TaskHistory(taskRepository)' = TaskHistory(taskRepository)
      /\ TaskHeadTree(taskRepository)' = TaskHeadTree(taskRepository)
      /\ taskAt' \in {"guard", "act"}
      /\ TaskByDefault' = TaskByDefault
  BY <1>3 DEF TaskWithin, taskGiven, taskOperation, TaskPaths, TaskIgnored, TaskHistory, TaskHeadTree,
    TaskByDefault
<1>5. TaskTypes'
  BY <1>2, <1>3, <1>4 DEF TaskTypes, TaskPCs
<1>6. TaskKindsOK'
  BY <1>2, <1>3, <1>4 DEF TaskKindsOK, TaskWorking, TaskOpening
<1>7. TaskHeadOK'
  BY <1>3, <1>4 DEF TaskHeadOK, TaskWorking, TaskOpening, TaskOver, TaskExists
<1>8. TaskStepsOK' /\ TaskRequestsOK'
  <2> SUFFICES ASSUME TaskByDefault PROVE TaskStepsOK' /\ TaskRequestsOK'
    BY <1>4 DEF TaskStepsOK, TaskRequestsOK
  <2>0. /\ "request" \in Range(taskRun.steps) /\ "push" \notin Range(taskRun.steps) => TaskShown
        /\ taskRepository.requests # taskBegan.requests =>
             taskRepository.requests \ taskBegan.requests \subseteq {taskRun.branch} /\ TaskShown
        /\ Range(taskRun.steps) \cap {"push", "request"} # {} =>
             taskRepository.requests = taskBegan.requests
    BY DEF TaskRequestsOK, TaskStepsOK
  <2>1. CASE steps = taskRun.steps /\ taskStep \notin {"push", "request"}
    BY <1>3, <1>4, <2>1 DEF TaskShown, TaskStepsOK, TaskRequestsOK, TaskOpening
  <2>2. CASE steps = Tail(taskRun.steps)
    <3> DEFINE left == Range(Tail(taskRun.steps))
    <3>1. /\ Range(taskRun.steps) = {taskStep} \cup left
          /\ \A i, j \in DOMAIN Tail(taskRun.steps) : i < j =>
               TaskRank(Tail(taskRun.steps)[i]) < TaskRank(Tail(taskRun.steps)[j])
          /\ "commit" \in left => taskRun.prepared \/ taskStep = "prepare" \/ "prepare" \in left
          /\ left \cap {"prepare", "commit"} # {} => "push" \in left
          /\ taskStep = "request" => left \cap {"prepare", "commit", "push", "request"} = {}
          /\ taskStep = "push" => "push" \notin left
      BY <1>2, TaskOrder
    <3>2. Range(taskRun.steps)' = left
      BY <1>3, <2>2
    <3> HIDE DEF left
    <3>3. TaskStepsOK'
      BY <3>1, <2>0, <1>3, <1>4, <2>2, <3>2 DEF TaskStepsOK
    <3>4. TaskShown \/ taskStep = "push" => TaskShown'
      BY <1>3, <1>4 DEF TaskShown
    <3>5. "request" \in left /\ "push" \notin left => TaskShown'
      BY <2>0, <3>1, <3>4
    <3>6. taskRepository'.requests # taskBegan.requests =>
             taskRepository'.requests \ taskBegan.requests \subseteq {taskRun.branch} /\ TaskShown'
      BY <2>0, <3>1, <3>4
    <3>7. TaskRequestsOK'
      BY <1>3, <1>4, <3>2, <3>5, <3>6 DEF TaskRequestsOK, TaskOpening
    <3>8. QED BY <3>3, <3>7
  <2>3. QED BY <2>1, <2>2
<1>9. TaskBranchesOK'
  BY <1>3, <1>4 DEF TaskBranchesOK
<1>11. TaskContentOK'
  BY <1>3, <1>4 DEF TaskVouched, TaskOwn, TaskCommitted, TaskContentOK
<1>12. TaskCheckedOK'
  BY <1>3, <1>4 DEF taskStep, TaskCheckedOK
<1>13. TaskConsumedOK'
  BY <1>3, <1>4 DEF TaskConsumedOK
<1>14. TaskCleanupOK'
  BY <1>4 DEF TaskCleanupOK, TaskKindsOK, TaskWorking
<1>15. QED BY <1>5, <1>6, <1>7, <1>8, <1>9, <1>11, <1>12, <1>13, <1>14

\* A commit holds the index, on the branch HEAD is on.
LEMMA TaskCommitKeeps ==
    ASSUME TaskIInv, TaskCommit
    PROVE  TaskIInv'
<1> DEFINE history == Append(TaskHistory(taskRepository), taskRepository.index)
<1> USE DEF TaskIInv
<1>2. /\ taskAt = "act" /\ taskStep = "commit" /\ taskRun.steps # <<>> /\ taskAt' = "guard"
      /\ UNCHANGED <<taskOperations, taskJoined, taskIndex, taskBegan, taskOutside>>
      /\ taskOperation' = taskOperation
      /\ taskShared' = [taskShared EXCEPT !.changed = TRUE]
      /\ taskRepository' = IF taskRepository.head = TaskNobody
                           THEN [taskRepository EXCEPT !.at = history]
                           ELSE [taskRepository EXCEPT !.branches[taskRepository.head] = history]
  BY DEF TaskCommit, TaskActs, TaskWithin, taskGiven, TaskTypes, taskOperation
<1>3. /\ Tail(taskRun.steps) \in Seq(TaskStepType)
      /\ taskRun'.branch = taskRun.branch /\ taskRun'.changes = taskRun.changes
      /\ taskRun'.steps = Tail(taskRun.steps) /\ taskRun'.change = 1
      /\ taskRun'.checked = taskRun.checked /\ taskRun'.original = taskRun.original
      /\ taskRun'.prepared = taskRun.prepared /\ taskRun'.committed
      /\ taskRun'.stuck = taskRun.stuck /\ taskRun'.consumed = taskRun.consumed
      /\ taskRun' \in TaskRunType
  <2>1. Tail(taskRun.steps) \in Seq(TaskStepType)
    BY <1>2, TaskOrder
  <2>2. taskRun' = [taskRun EXCEPT !.steps = Tail(@), !.change = 1, !.committed = TRUE]
    BY DEF TaskCommit
  <2>3. taskRun \in TaskRunType
    BY DEF TaskTypes
  <2>4. taskRun' \in TaskRunType
    <3> DEFINE yes == TRUE
    <3>1. yes \in BOOLEAN /\ 1 \in Nat \ {0}
      OBVIOUS
    <3>2. taskRun' = [taskRun EXCEPT !.steps = Tail(taskRun.steps), !.change = 1, !.committed = yes]
      BY <2>2
    <3> HIDE DEF yes
    <3>3. QED BY <2>1, <2>3, <3>1, <3>2 DEF TaskRunType
  <2>5. taskRun'.committed /\ taskRun'.steps = Tail(taskRun.steps) /\ taskRun'.change = 1
    BY <2>2, <2>3 DEF TaskRunType
  <2>6. /\ taskRun'.branch = taskRun.branch /\ taskRun'.changes = taskRun.changes
        /\ taskRun'.checked = taskRun.checked /\ taskRun'.original = taskRun.original
    BY <2>2, <2>3 DEF TaskRunType
  <2>7. /\ taskRun'.prepared = taskRun.prepared
        /\ taskRun'.stuck = taskRun.stuck /\ taskRun'.consumed = taskRun.consumed
    BY <2>2, <2>3 DEF TaskRunType
  <2>8. QED BY <2>1, <2>4, <2>5, <2>6, <2>7
<1>4. /\ TaskHistory(taskRepository) \in Seq(TaskTree) /\ TaskHistory(taskRepository) # <<>>
      /\ TaskHeadTree(taskRepository) \in TaskTree /\ taskRepository.index \in TaskTree
      /\ history \in Seq(TaskTree) /\ history # <<>> /\ Last(history) = taskRepository.index
      /\ Len(history) >= 2 /\ history[Len(history) - 1] = TaskHeadTree(taskRepository)
  <2>1. taskRepository \in TaskRepositoryType /\ TaskHistory(taskRepository) # <<>>
    BY DEF TaskTypes, TaskHeadOK
  <2>2. TaskHistory(taskRepository) \in Seq(TaskTree) /\ taskRepository.index \in TaskTree
    BY <2>1, TaskHeadIs DEF TaskRepositoryType
  <2>3. QED BY <2>1, <2>2, TaskHeadIs, TaskAppended DEF TaskHeadTree
<1> HIDE DEF history
<1>5. /\ taskRepository' \in TaskRepositoryType
      /\ taskRepository'.head = taskRepository.head /\ taskRepository'.index = taskRepository.index
      /\ taskRepository'.server = taskRepository.server
      /\ taskRepository'.requests = taskRepository.requests
      /\ TaskHistory(taskRepository)' = history
      /\ \A b \in TaskBranches : b # taskRepository.head =>
           taskRepository'.branches[b] = taskRepository.branches[b]
      /\ taskRepository.head # TaskNobody => taskRepository'.branches[taskRepository.head] = history
  BY <1>2, <1>4 DEF TaskTypes, TaskRepositoryType, TaskHistory
<1>6. /\ TaskPaths' = TaskPaths /\ TaskIgnored' = TaskIgnored /\ TaskByDefault' = TaskByDefault
      /\ TaskOwn' = TaskOwn /\ TaskHeadTree(taskRepository)' = taskRepository.index
  BY <1>2, <1>3, <1>4, <1>5 DEF TaskPaths, TaskIgnored, taskOperation, TaskByDefault, TaskOwn, TaskHeadTree
<1>7. TaskTypes'
  <2>1. taskShared' \in [mutated: SUBSET TaskFiles, changed: BOOLEAN]
    BY <1>2 DEF TaskTypes
  <2>2. taskRun.changes # <<>> => 1 <= Len(taskRun.changes)
    BY DEF TaskTypes, TaskRunType
  <2>3. QED BY <1>2, <1>3, <1>5, <2>1, <2>2 DEF TaskTypes, TaskPCs
<1>8. TaskKindsOK'
  BY <1>2, TaskOrder, <1>3 DEF TaskKindsOK, TaskWorking, TaskOpening
<1>9. TaskHeadOK'
  BY <1>4, <1>5, TaskAssumption, <1>2, <1>3 DEF TaskExists, TaskTypes, TaskRunType, TaskHeadOK, TaskOver,
    TaskWorking
<1>10. ASSUME TaskByDefault
       PROVE  /\ taskRun.prepared /\ "push" \in Range(Tail(taskRun.steps))
              /\ \A i, j \in DOMAIN Tail(taskRun.steps) : i < j =>
                   TaskRank(Tail(taskRun.steps)[i]) < TaskRank(Tail(taskRun.steps)[j])
              /\ taskRepository.requests = taskBegan.requests
  BY <1>2, <1>10, TaskOrder DEF TaskStepsOK
<1>11. TaskStepsOK'
  BY <1>2, <1>3, <1>5, <1>6, <1>10 DEF TaskStepsOK
<1>12. TaskRequestsOK'
  BY <1>2, <1>3, <1>5, <1>6, <1>10 DEF TaskRequestsOK, TaskOpening
<1>13. TaskBranchesOK'
  BY <1>2, <1>10, <1>3, <1>5, <1>6 DEF TaskHeadOK, TaskWorking, TaskBranchesOK
<1>14. TaskContentOK'
  <2>1. TaskVouched' => TaskVouched
    BY <1>2, <1>3 DEF TaskVouched
  <2>2. ASSUME taskOperation.kind = "stage-commit"
               \/ (taskOperation.kind = "task" /\ taskOperation.steps = <<>>)
        PROVE  TaskCommitted' = history
    BY <1>2, <1>3, <1>5, <1>10, TaskAssumption, <2>2 DEF TaskKindsOK, TaskCommitted, TaskByDefault, TaskHeadOK,
      TaskWorking
  <2>3. ASSUME TaskVouched', NEW f \in TaskFiles \ TaskOwn
        PROVE  taskRepository.index[f] = TaskHeadTree(taskRepository)[f]
    BY <2>1, <2>3 DEF TaskContentOK
  <2>4. \A f \in TaskFiles \ TaskOwn' : taskRepository'.index[f] = TaskHeadTree(taskRepository)'[f]
    BY <1>5, <1>6
  <2>5. ASSUME TaskVouched', taskOperation.kind = "task" => taskOperation.steps = <<>>
        PROVE  TaskCommitted' = history
    BY <2>1, <2>5, <2>2 DEF TaskVouched
  <2>6. ASSUME TaskVouched', taskOperation.kind = "task" => taskOperation.steps = <<>>
        PROVE  /\ Len(TaskCommitted') >= 2
               /\ \A f \in TaskFiles \ TaskOwn' :
                    TaskCommitted'[Len(TaskCommitted') - 1][f] = Last(TaskCommitted')[f]
    BY <1>4, <1>6, <2>3, <2>5, <2>6
  <2>7. QED BY <1>2, <2>4, <2>6 DEF TaskContentOK
<1>15. TaskCheckedOK'
  BY <1>2, <1>3 DEF TaskCheckedOK
<1>16. TaskConsumedOK'
  BY <1>2, <1>3, <1>6 DEF TaskConsumedOK
<1>17. TaskCleanupOK'
  BY <1>2 DEF TaskCleanupOK, TaskKindsOK, TaskWorking
<1>18. QED BY <1>7, <1>8, <1>9, <1>11, <1>12, <1>13, <1>14, <1>15, <1>16, <1>17

\* A task gets a branch of its own, which did not exist, and HEAD is on it.
LEMMA TaskPrepareKeeps ==
    ASSUME TaskIInv, TaskActs("prepare"), ~TaskExists(taskRun.branch),
           NEW history \in Seq(TaskTree), history # <<>>,
           taskRepository' = TaskCheckedOut(taskRepository, taskRun.branch, history),
           taskAt' = "guard",
           taskRun' = [taskRun EXCEPT !.steps = Tail(@), !.prepared = TRUE],
           UNCHANGED taskShared
    PROVE  TaskIInv'
<1> USE DEF TaskIInv
<1>2. /\ taskAt = "act" /\ taskStep = "prepare" /\ taskRun.steps # <<>>
      /\ UNCHANGED <<taskOperations, taskJoined, taskIndex, taskBegan, taskOutside>>
      /\ taskOperation' = taskOperation
  BY DEF TaskActs, TaskWithin, taskGiven, TaskTypes, taskOperation
<1>3. /\ Tail(taskRun.steps) \in Seq(TaskStepType)
      /\ taskRun'.branch = taskRun.branch /\ taskRun'.changes = taskRun.changes
      /\ taskRun'.steps = Tail(taskRun.steps) /\ taskRun'.change = taskRun.change
      /\ taskRun'.checked = taskRun.checked /\ taskRun'.original = taskRun.original
      /\ taskRun'.prepared /\ taskRun'.committed = taskRun.committed
      /\ taskRun'.stuck = taskRun.stuck /\ taskRun'.consumed = taskRun.consumed
      /\ taskRun' \in TaskRunType
  <2>1. Tail(taskRun.steps) \in Seq(TaskStepType)
    BY <1>2, TaskOrder
  <2>2. taskRun \in TaskRunType
    BY DEF TaskTypes
  <2>3. taskRun' \in TaskRunType
    <3> DEFINE yes == TRUE
    <3>1. yes \in BOOLEAN
      OBVIOUS
    <3>2. taskRun' = [taskRun EXCEPT !.steps = Tail(taskRun.steps), !.prepared = yes]
      OBVIOUS
    <3> HIDE DEF yes
    <3>3. QED BY <2>1, <2>2, <3>1, <3>2 DEF TaskRunType
  <2>4. taskRun'.prepared /\ taskRun'.steps = Tail(taskRun.steps) /\ taskRun'.change = taskRun.change
    BY <2>2 DEF TaskRunType
  <2>5. /\ taskRun'.branch = taskRun.branch /\ taskRun'.changes = taskRun.changes
        /\ taskRun'.checked = taskRun.checked /\ taskRun'.original = taskRun.original
    BY <2>2 DEF TaskRunType
  <2>6. /\ taskRun'.committed = taskRun.committed
        /\ taskRun'.stuck = taskRun.stuck /\ taskRun'.consumed = taskRun.consumed
    BY <2>2 DEF TaskRunType
  <2>7. QED BY <2>1, <2>3, <2>4, <2>5, <2>6
<1>4. taskOperation.kind # "stage-commit" /\ taskRun.branch \in TaskBranches
  <2>1. "prepare" \in Range(taskRun.steps)
    BY <1>2, TaskOrder
  <2>2. taskOperation.kind # "stage-commit"
    BY <1>2, <2>1 DEF TaskKindsOK
  <2>3. QED BY <1>2, <2>2 DEF TaskKindsOK, TaskWorking
<1>5. /\ taskRepository \in TaskRepositoryType
      /\ taskRepository.branches \in [TaskBranches -> Seq(TaskTree)]
      /\ taskRepository' \in TaskRepositoryType
      /\ taskRepository'.head = taskRun.branch
      /\ taskRepository'.server = taskRepository.server
      /\ taskRepository'.requests = taskRepository.requests
      /\ taskRepository'.branches = [taskRepository.branches EXCEPT ![taskRun.branch] = history]
      /\ TaskHistory(taskRepository)' = history
      /\ \A f \in TaskFiles : taskRepository.index[f] = TaskHeadTree(taskRepository)[f] =>
                                taskRepository'.index[f] = TaskHeadTree(taskRepository)'[f]
  <2>1. taskRepository \in TaskRepositoryType /\ TaskHistory(taskRepository) # <<>>
    BY DEF TaskTypes, TaskHeadOK
  <2>2. taskRepository.branches \in [TaskBranches -> Seq(TaskTree)]
    BY <2>1 DEF TaskRepositoryType
  <2>3. QED BY <1>4, <2>1, <2>2, TaskCheckoutIs
<1>6. ~taskRun.prepared
  BY <1>2, <1>4, TaskAssumption DEF TaskHeadOK, TaskWorking, TaskHistory, TaskExists
<1>7. /\ TaskPaths' = TaskPaths /\ TaskIgnored' = TaskIgnored /\ TaskByDefault' = TaskByDefault
      /\ TaskOwn' = TaskOwn
  BY <1>2, <1>3 DEF TaskPaths, TaskIgnored, taskOperation, TaskByDefault, TaskOwn
<1>8. TaskTypes'
  BY <1>2, <1>3, <1>5 DEF TaskTypes, TaskPCs
<1>9. TaskKindsOK'
  BY <1>2, <1>3, <1>4 DEF TaskKindsOK, TaskWorking, TaskOpening
<1>10. TaskHeadOK'
  BY <1>2, <1>3, <1>4, <1>5 DEF TaskTypes, TaskRunType, TaskHeadOK, TaskOver, TaskExists, TaskWorking
<1>11. ASSUME TaskByDefault
       PROVE  /\ "push" \in Range(Tail(taskRun.steps))
              /\ \A i, j \in DOMAIN Tail(taskRun.steps) : i < j =>
                   TaskRank(Tail(taskRun.steps)[i]) < TaskRank(Tail(taskRun.steps)[j])
              /\ taskRepository.requests = taskBegan.requests
  BY <1>2, <1>11, TaskOrder DEF TaskStepsOK
<1>12. TaskStepsOK'
  BY <1>2, <1>3, <1>5, <1>7, <1>11 DEF TaskStepsOK
<1>13. TaskRequestsOK'
  BY <1>2, <1>3, <1>5, <1>7, <1>11 DEF TaskRequestsOK, TaskOpening
<1>14. TaskBranchesOK'
  BY <1>6, <1>4, <1>5, <1>2, <1>3, <1>7 DEF TaskBranchesOK, TaskExists
<1>15. TaskContentOK'
  BY <1>2, <1>3, <1>6, <1>4, <1>5, <1>7 DEF TaskVouched, TaskStepsOK, TaskByDefault, TaskContentOK
<1>16. TaskCheckedOK'
  BY <1>2, <1>3 DEF TaskCheckedOK
<1>17. TaskConsumedOK'
  BY <1>2, <1>4 DEF TaskConsumedOK
<1>18. TaskCleanupOK'
  BY <1>2 DEF TaskCleanupOK, TaskKindsOK, TaskWorking
<1>19. QED BY <1>8, <1>9, <1>10, <1>12, <1>13, <1>14, <1>15, <1>16, <1>17, <1>18

\* The operation ends where it began, or could not.
LEMMA TaskRestoreKeeps ==
    ASSUME TaskIInv, TaskRestore
    PROVE  TaskIInv'
<1> USE DEF TaskIInv
<1>2. /\ taskAt = "restore" /\ taskAt' = "end" /\ taskRun.prepared
      /\ taskOperation.kind \notin {"stage-commit", "cleanup"} /\ taskRun.branch \in TaskBranches
      /\ UNCHANGED <<taskOperations, taskJoined, taskIndex, taskBegan, taskOutside, taskShared>>
      /\ taskOperation' = taskOperation
  BY DEF TaskRestore, TaskKindsOK, TaskWorking, TaskWithin, taskGiven, taskOperation
<1>3. /\ taskRun'.branch = taskRun.branch /\ taskRun'.changes = taskRun.changes
      /\ taskRun'.steps = taskRun.steps /\ taskRun'.change = taskRun.change
      /\ taskRun'.checked = taskRun.checked /\ taskRun'.original = taskRun.original
      /\ taskRun'.prepared = taskRun.prepared /\ taskRun'.committed = taskRun.committed
      /\ taskRun'.consumed = taskRun.consumed /\ taskRun' \in TaskRunType
  <2>1. taskRun \in TaskRunType
    BY DEF TaskTypes
  <2>2. CASE UNCHANGED taskRun
    BY <2>1, <2>2
  <2>3. CASE taskRun' = [taskRun EXCEPT !.stuck = TRUE]
    <3> DEFINE yes == TRUE
    <3>1. yes \in BOOLEAN /\ taskRun' = [taskRun EXCEPT !.stuck = yes]
      BY <2>3
    <3> HIDE DEF yes
    <3>2. taskRun' \in TaskRunType
      BY <2>1, <3>1 DEF TaskRunType
    <3>3. /\ taskRun'.branch = taskRun.branch /\ taskRun'.changes = taskRun.changes
          /\ taskRun'.steps = taskRun.steps /\ taskRun'.change = taskRun.change
          /\ taskRun'.original = taskRun.original /\ taskRun'.consumed = taskRun.consumed
      BY <2>1, <3>1 DEF TaskRunType
    <3>4. /\ taskRun'.checked = taskRun.checked
          /\ taskRun'.prepared = taskRun.prepared /\ taskRun'.committed = taskRun.committed
      BY <2>1, <3>1 DEF TaskRunType
    <3>5. QED BY <3>2, <3>3, <3>4
  <2>4. QED BY <2>2, <2>3 DEF TaskRestore
<1>4. /\ taskRepository' \in TaskRepositoryType
      /\ taskRepository'.branches = taskRepository.branches
      /\ taskRepository'.server = taskRepository.server
      /\ taskRepository'.requests = taskRepository.requests
      /\ TaskHistory(taskRepository)' # <<>>
      /\ taskRun'.stuck \/ taskRun.original = TaskNobody \/ taskRepository'.head = taskRun.original
      /\ \A f \in TaskFiles : taskRepository.index[f] = TaskHeadTree(taskRepository)[f] =>
                                taskRepository'.index[f] = TaskHeadTree(taskRepository)'[f]
  <2>1. /\ taskRepository \in TaskRepositoryType /\ TaskHistory(taskRepository) # <<>>
        /\ taskRun \in TaskRunType
    BY DEF TaskTypes, TaskHeadOK
  <2>2. CASE taskRun.original = TaskNobody /\ UNCHANGED taskRepository
    BY <2>1, <2>2
  <2>3. CASE taskRun' = [taskRun EXCEPT !.stuck = TRUE] /\ UNCHANGED taskRepository
    BY <2>1, <2>3 DEF TaskRunType
  <2>4. CASE /\ taskRun.original # TaskNobody
             /\ taskRepository' = TaskCheckedOut(taskRepository, taskRun.original,
                                                 taskRepository.branches[taskRun.original])
    <3> DEFINE history == taskRepository.branches[taskRun.original]
    <3>1. taskRun.original \in TaskBranches /\ taskRun.original # TaskNobody
      BY <2>1, <2>4 DEF TaskRunType
    <3>2. history \in Seq(TaskTree) /\ taskRepository.branches \in [TaskBranches -> Seq(TaskTree)]
      BY <2>1, <3>1 DEF TaskRepositoryType
    <3>3. history # <<>>
      BY <1>2, <3>1 DEF TaskHeadOK, TaskOver, TaskExists
    <3>4. [taskRepository.branches EXCEPT ![taskRun.original] = history] = taskRepository.branches
      BY <3>2
    <3> HIDE DEF history
    <3>5. taskRepository' = TaskCheckedOut(taskRepository, taskRun.original, history)
      BY <2>4 DEF history
    <3>6. QED BY <2>1, <3>1, <3>2, <3>3, <3>4, <3>5, TaskCheckoutIs
  <2>5. QED BY <2>2, <2>3, <2>4 DEF TaskRestore
<1>5. /\ TaskPaths' = TaskPaths /\ TaskIgnored' = TaskIgnored /\ TaskByDefault' = TaskByDefault
      /\ TaskOwn' = TaskOwn
  BY <1>2, <1>3 DEF TaskPaths, TaskIgnored, taskOperation, TaskByDefault, TaskOwn
<1>6. TaskTypes'
  BY <1>2, <1>3, <1>4 DEF TaskTypes, TaskPCs
<1>7. TaskKindsOK'
  BY <1>2, <1>3 DEF TaskKindsOK, TaskWorking, TaskOpening
<1>8. TaskHeadOK'
  BY <1>2, <1>3, <1>4 DEF TaskHeadOK, TaskWorking, TaskOver
<1>9. TaskStepsOK'
  BY <1>2, <1>3, <1>4, <1>5 DEF TaskStepsOK
<1>10. TaskRequestsOK'
  BY <1>2, <1>3, <1>4, <1>5 DEF TaskShown, TaskRequestsOK, TaskOpening
<1>11. TaskBranchesOK'
  BY <1>2, <1>3, <1>4, <1>5 DEF TaskBranchesOK
<1>12. TaskContentOK'
  BY <1>2, <1>3, <1>4, TaskAssumption, <1>5 DEF TaskVouched, TaskCommitted, TaskContentOK
<1>13. TaskCheckedOK'
  BY <1>2, <1>3 DEF TaskCheckedOK
<1>14. TaskConsumedOK' /\ TaskCleanupOK'
  BY <1>2 DEF TaskConsumedOK, TaskCleanupOK
<1>15. QED BY <1>6, <1>7, <1>8, <1>9, <1>10, <1>11, <1>12, <1>13, <1>14

\* An operation begins with the repository it finds, also the first.
LEMMA TaskFromHere ==
    /\ taskRun = TaskFresh /\ taskBegan = taskRepository /\ taskAt \in {"begin", "hard"}
    /\ TaskTypes /\ TaskHistory(taskRepository) # <<>>
    => TaskIInv
<1> SUFFICES ASSUME taskRun = TaskFresh, taskBegan = taskRepository, taskAt \in {"begin", "hard"},
                    TaskTypes, TaskHistory(taskRepository) # <<>>
             PROVE  TaskIInv
  OBVIOUS
<1>1. /\ ~taskRun.prepared /\ ~taskRun.committed /\ ~taskRun.checked
      /\ taskRun.original = TaskNobody /\ taskRun.branch = TaskNobody /\ taskRun.steps = <<>>
      /\ taskRun.consumed = {}
  BY DEF TaskFresh
<1>2. Range(taskRun.steps) = {}
  BY <1>1 DEF Range
<1>3. TaskKindsOK
  BY <1>1, <1>2 DEF TaskKindsOK, TaskWorking, TaskOpening
<1>4. TaskHeadOK
  BY <1>1 DEF TaskHeadOK, TaskWorking, TaskOpening, TaskOver
<1>5. TaskStepsOK
  BY <1>1, <1>2 DEF TaskStepsOK
<1>6. TaskBranchesOK
  BY <1>1 DEF TaskBranchesOK
<1>7. TaskRequestsOK
  BY <1>2 DEF TaskRequestsOK
<1>8. TaskContentOK
  BY <1>1 DEF TaskContentOK, TaskVouched
<1>9. TaskCheckedOK /\ TaskConsumedOK
  BY <1>1 DEF TaskCheckedOK, TaskConsumedOK
<1>10. TaskCleanupOK
  BY DEF TaskCleanupOK
<1>11. QED BY <1>3, <1>4, <1>5, <1>6, <1>7, <1>8, <1>9, <1>10 DEF TaskIInv

\* The invariant holds before the first operation.
LEMMA TaskFirst == TaskInit => TaskIInv
<1> SUFFICES ASSUME TaskInit PROVE TaskIInv
  OBVIOUS
<1>1. PICK asked \in TaskInvocations :
        /\ taskOperations = asked.operations /\ taskJoined = asked.joined
        /\ taskRepository = asked.repository
  BY DEF TaskInit
<1>2. /\ taskOperations \in Seq(TaskOperationType) /\ taskOperations # <<>>
      /\ taskRepository \in TaskRepositoryType /\ TaskHistory(taskRepository) # <<>>
  BY <1>1, TaskAssumption
<1>3. /\ taskIndex = 1 /\ taskAt = "begin" /\ taskRun = TaskFresh /\ taskBegan = taskRepository
      /\ taskShared \in [mutated: SUBSET TaskFiles, changed: BOOLEAN]
  BY DEF TaskInit
<1>4. taskIndex \in 1 .. Len(taskOperations)
  BY <1>2, <1>3
<1>5. taskRun \in TaskRunType /\ taskRun.changes = <<>>
  BY <1>3, TaskFreshTyped DEF TaskFresh
<1>6. TaskTypes
  BY <1>2, <1>3, <1>4, <1>5 DEF TaskTypes, TaskPCs
<1>7. QED BY <1>2, <1>3, <1>6, TaskFromHere

\* An operation that begins remembers the repository it finds.
LEMMA TaskBeginKeeps == TaskIInv /\ TaskBegin => TaskIInv'
<1> SUFFICES ASSUME TaskIInv, TaskBegin PROVE TaskIInv'
  OBVIOUS
<1>1. /\ taskRun' = TaskFresh /\ taskBegan' = taskRepository /\ taskAt' = "hard"
      /\ UNCHANGED <<taskOperations, taskIndex, taskRepository, taskShared>>
  BY DEF TaskBegin, taskGiven
<1>2. TaskTypes /\ TaskHistory(taskRepository) # <<>>
  BY DEF TaskIInv, TaskHeadOK
<1>3. taskRun' \in TaskRunType /\ taskRun'.changes = <<>>
  BY <1>1, TaskFreshTyped DEF TaskFresh
<1>4. TaskTypes' /\ TaskHistory(taskRepository)' # <<>>
  BY <1>1, <1>2, <1>3 DEF TaskTypes, TaskPCs
<1>5. (/\ taskRun = TaskFresh /\ taskBegan = taskRepository /\ taskAt \in {"begin", "hard"}
       /\ TaskTypes /\ TaskHistory(taskRepository) # <<>>
       => TaskIInv)'
  BY TaskFromHere, PTL
<1>6. QED BY <1>1, <1>4, <1>5

\* After an operation the next one begins, or nothing.
LEMMA TaskEndKeeps == TaskIInv /\ TaskEnd => TaskIInv'
<1> SUFFICES ASSUME TaskIInv, TaskEnd PROVE TaskIInv'
  OBVIOUS
<1> USE DEF TaskIInv
<1>2. /\ UNCHANGED <<taskOperations, taskRun, taskBegan, taskRepository, taskShared, taskOutside>>
      /\ taskAt = "end"
      /\ \/ taskIndex' \in 1 .. Len(taskOperations) /\ taskAt' = "begin"
         \/ taskIndex' = taskIndex /\ taskAt' = "done"
  BY DEF TaskTypes, TaskEnd, taskGiven
<1>3. TaskTypes'
  BY <1>2 DEF TaskTypes, TaskPCs
<1>4. TaskHeadOK'
  BY <1>2 DEF TaskHeadOK, TaskOver, TaskWorking
<1>5. CASE taskAt' = "begin"
  <2>1. TaskKindsOK' /\ TaskStepsOK' /\ TaskBranchesOK' /\ TaskRequestsOK'
    BY <1>5 DEF TaskKindsOK, TaskStepsOK, TaskBranchesOK, TaskRequestsOK, TaskByDefault, TaskOpening,
      TaskWorking
  <2>2. TaskContentOK' /\ TaskCheckedOK' /\ TaskConsumedOK' /\ TaskCleanupOK'
    BY <1>5 DEF TaskContentOK, TaskCheckedOK, TaskConsumedOK, TaskCleanupOK, TaskVouched
  <2>3. QED BY <1>3, <1>4, <2>1, <2>2 DEF TaskIInv
<1>6. CASE taskIndex' = taskIndex /\ taskAt' = "done"
  <2>1. /\ taskOperation' = taskOperation /\ TaskPaths' = TaskPaths /\ TaskOwn' = TaskOwn
        /\ TaskByDefault' = TaskByDefault /\ TaskShown' = TaskShown
        /\ TaskVouched' = TaskVouched /\ TaskCommitted' = TaskCommitted
    BY <1>2, <1>6 DEF taskOperation, TaskPaths, TaskOwn, TaskIgnored, TaskByDefault, TaskShown, TaskVouched,
      TaskCommitted
  <2>2. TaskKindsOK' /\ TaskStepsOK' /\ TaskBranchesOK' /\ TaskRequestsOK'
    BY <1>2, <1>6, <2>1 DEF TaskKindsOK, TaskStepsOK, TaskBranchesOK, TaskRequestsOK, TaskOpening, TaskWorking
  <2>3. TaskContentOK' /\ TaskCheckedOK' /\ TaskConsumedOK'
    BY <1>2, <1>6, <2>1 DEF TaskContentOK, TaskCheckedOK, TaskConsumedOK
  <2>4. TaskCleanupOK'
    BY <1>2, <1>6, <2>1 DEF TaskCleanupOK, TaskOpening
  <2>5. QED BY <1>3, <1>4, <2>2, <2>3, <2>4 DEF TaskIInv
<1>7. QED BY <1>2, <1>5, <1>6

\* What the operator saves is not in the index, nor in a branch.
LEMMA TaskSavesKeeps ==
    ASSUME TaskIInv, NEW f \in TaskFiles, NEW line \in TaskLines, TaskOperatorSaves(f, {line})
    PROVE  TaskIInv'
<1> USE DEF TaskIInv
<1>2. /\ UNCHANGED <<taskOperations, taskIndex, taskAt, taskRun, taskBegan, taskShared>>
      /\ taskOutside = {} /\ taskOutside' = {f} /\ TaskRunning
      /\ taskRepository' = [taskRepository EXCEPT !.work[f] = TaskText({line})]
  BY DEF TaskOperatorSaves, taskGiven
<1>3. /\ taskRepository' \in TaskRepositoryType
      /\ taskRepository'.head = taskRepository.head /\ taskRepository'.at = taskRepository.at
      /\ taskRepository'.branches = taskRepository.branches
      /\ taskRepository'.index = taskRepository.index
      /\ taskRepository'.server = taskRepository.server
      /\ taskRepository'.requests = taskRepository.requests
  BY <1>2 DEF TaskText, TaskContent, TaskTypes, TaskRepositoryType, TaskTree
<1>4. /\ taskOperation' = taskOperation /\ TaskPaths' = TaskPaths /\ TaskOwn' = TaskOwn
      /\ TaskByDefault' = TaskByDefault /\ (TaskShown => TaskShown')
      /\ TaskHistory(taskRepository)' = TaskHistory(taskRepository)
      /\ TaskHeadTree(taskRepository)' = TaskHeadTree(taskRepository)
      /\ TaskVouched' = TaskVouched /\ TaskCommitted' = TaskCommitted /\ taskStep' = taskStep
  BY <1>2, <1>3 DEF taskOperation, TaskPaths, TaskOwn, TaskIgnored, TaskByDefault, TaskShown, TaskVouched,
    TaskCommitted, TaskHistory, TaskHeadTree, taskStep
<1>5. TaskTypes'
  BY <1>2, <1>3 DEF TaskTypes
<1>6. TaskKindsOK' /\ TaskHeadOK'
  BY <1>2, <1>3, <1>4 DEF TaskKindsOK, TaskHeadOK, TaskExists
<1>7. TaskStepsOK' /\ TaskBranchesOK' /\ TaskRequestsOK'
  BY <1>2, <1>3, <1>4 DEF TaskStepsOK, TaskBranchesOK, TaskRequestsOK
<1>8. TaskContentOK' /\ TaskCheckedOK' /\ TaskConsumedOK'
  BY <1>2, <1>3, <1>4 DEF TaskContentOK, TaskCheckedOK, TaskConsumedOK
<1>9. TaskCleanupOK'
  BY <1>2, <1>3, <1>4 DEF TaskCleanupOK, TaskRunning
<1>10. QED BY <1>5, <1>6, <1>7, <1>8, <1>9

\* A commit of the operator is on a branch HEAD is not on, and only adds to it.
LEMMA TaskCommitsKeeps ==
    ASSUME TaskIInv, NEW b \in TaskBranches, TaskOperatorCommits(b)
    PROVE  TaskIInv'
<1> DEFINE history == IF TaskExists(b) THEN taskRepository.branches[b] ELSE TaskHistory(taskRepository)
           after == Append(history, Last(history))
<1> USE DEF TaskIInv
<1>2. /\ UNCHANGED <<taskOperations, taskIndex, taskAt, taskRun, taskBegan, taskShared>>
      /\ taskOutside = {} /\ taskOutside' = {b} /\ TaskRunning /\ b # taskRepository.head
      /\ taskRepository' = [taskRepository EXCEPT !.branches[b] = after]
  BY DEF TaskOperatorCommits, taskGiven
<1>3. /\ taskRepository \in TaskRepositoryType
      /\ taskRepository.branches \in [TaskBranches -> Seq(TaskTree)]
      /\ TaskHistory(taskRepository) \in Seq(TaskTree) /\ TaskHistory(taskRepository) # <<>>
      /\ history \in Seq(TaskTree) /\ history # <<>>
  BY TaskHeadIs DEF TaskTypes, TaskHeadOK, TaskRepositoryType, TaskExists
<1>4. /\ after \in Seq(TaskTree) /\ after # <<>>
      /\ \A part \in Seq(TaskTree) : IsPrefix(part, taskRepository.branches[b]) => IsPrefix(part, after)
  <2> HIDE DEF history
  <2>1. /\ after \in Seq(TaskTree) /\ after # <<>>
        /\ \A part \in Seq(TaskTree) : IsPrefix(part, history) => IsPrefix(part, after)
    BY <1>3, TaskLastTree, TaskAppended
  <2>2. ASSUME NEW part \in Seq(TaskTree), IsPrefix(part, taskRepository.branches[b])
        PROVE  IsPrefix(part, history)
    BY <2>2, <1>3, TaskNothingIsPrefix DEF history, TaskExists, IsPrefix
  <2>3. QED BY <2>1, <2>2
<1> HIDE DEF history, after
<1>5. /\ taskRepository' \in TaskRepositoryType
      /\ taskRepository'.head = taskRepository.head /\ taskRepository'.at = taskRepository.at
      /\ taskRepository'.branches = [taskRepository.branches EXCEPT ![b] = after]
      /\ taskRepository'.index = taskRepository.index
      /\ taskRepository'.server = taskRepository.server
      /\ taskRepository'.requests = taskRepository.requests
  BY <1>2, <1>3, <1>4 DEF TaskRepositoryType
<1>6. /\ taskRepository'.branches[b] = after
      /\ \A c \in TaskBranches : c # b => taskRepository'.branches[c] = taskRepository.branches[c]
  BY <1>3, <1>5
<1>7. TaskHistory(taskRepository)' = TaskHistory(taskRepository)
  BY <1>2, <1>3, <1>5, <1>6, TaskAssumption DEF TaskHistory, TaskRepositoryType
<1>8. /\ taskOperation' = taskOperation /\ TaskPaths' = TaskPaths /\ TaskOwn' = TaskOwn
      /\ TaskByDefault' = TaskByDefault /\ TaskVouched' = TaskVouched /\ taskStep' = taskStep
      /\ TaskHeadTree(taskRepository)' = TaskHeadTree(taskRepository)
  BY <1>2, <1>7 DEF taskOperation, TaskPaths, TaskOwn, TaskIgnored, TaskByDefault, TaskVouched, TaskHeadTree,
    taskStep
<1>9. TaskTypes'
  BY <1>2, <1>5 DEF TaskTypes
<1>10. TaskKindsOK'
  BY <1>2, <1>8 DEF TaskKindsOK
<1>11. TaskHeadOK'
  BY <1>2, <1>4, <1>6, <1>5, <1>7 DEF TaskTypes, TaskRunType, TaskExists, TaskHeadOK
<1>12. TaskStepsOK' /\ TaskBranchesOK'
  BY <1>2, <1>5, <1>8 DEF TaskStepsOK, TaskBranchesOK
<1>13. TaskRequestsOK'
  <2>1. taskRun.branch \in TaskBranches \cup {TaskNobody}
    BY DEF TaskTypes, TaskRunType
  <2>2. CASE taskRun.branch \in TaskBranches
    BY <1>2, <1>5, <1>6, <2>2, <1>8 DEF TaskShown, TaskRequestsOK
  <2>3. CASE taskRun.branch = TaskNobody
    <3>1. TaskByDefault => taskAt \in TaskOpening
      BY <1>2, <2>3, TaskAssumption DEF TaskTypes, TaskKindsOK, TaskRunning, TaskPCs, TaskOpening, TaskWorking,
        TaskByDefault
    <3>2. ASSUME TaskByDefault PROVE Range(taskRun.steps) = {}
      BY <3>1, <3>2 DEF TaskKindsOK, TaskFresh, Range
    <3>3. QED BY <1>2, <1>5, <1>8, <3>1, <3>2 DEF TaskRequestsOK
  <2>4. QED BY <2>1, <2>2, <2>3
<1>14. TaskContentOK'
  <2>1. ASSUME TaskVouched, taskRun.committed,
               taskOperation.kind = "task" => taskOperation.steps = <<>>
        PROVE  TaskCommitted' = TaskCommitted
    <3>1. CASE taskOperation.kind = "stage-commit"
      BY <2>1, <3>1, <1>2, <1>7 DEF TaskKindsOK, TaskVouched, TaskCommitted
    <3>2. CASE taskOperation.kind = "task"
      <4>1. taskRun.prepared
        BY <2>1, <3>2 DEF TaskStepsOK, TaskByDefault, TaskVouched
      <4>2. taskRepository.head = taskRun.branch /\ taskRun.branch \in TaskBranches
        BY <1>2, <3>2, <4>1 DEF TaskHeadOK, TaskKindsOK, TaskRunning, TaskOver, TaskWorking
      <4>3. QED BY <1>2, <1>6, <4>2, TaskAssumption DEF TaskCommitted
    <3>3. QED BY <2>1, <3>1, <3>2 DEF TaskVouched
  <2>2. QED BY <1>2, <1>5, <1>8, <2>1 DEF TaskContentOK
<1>15. TaskCheckedOK' /\ TaskConsumedOK'
  BY <1>2, <1>8 DEF TaskCheckedOK, TaskConsumedOK
<1>16. TaskCleanupOK'
  BY <1>8, TaskOperationTyped, <1>2, <1>6, <1>3, <1>4 DEF TaskCleanupOK, TaskOperationType, TaskOpening,
    TaskRunning
<1>17. QED BY <1>9, <1>10, <1>11, <1>12, <1>13, <1>14, <1>15, <1>16

\* The steps are those of the default plan, in their order.
TaskInOrder(steps) ==
    \A i, j \in DOMAIN steps : i < j => TaskRank(steps[i]) < TaskRank(steps[j])

\* Sequences of few elements
LEMMA TaskListed ==
    ASSUME NEW S, NEW a \in S, NEW b \in S, NEW c \in S, NEW d \in S, NEW e \in S
    PROVE  <<a>> \in Seq(S) /\ <<a, b>> \in Seq(S) /\ <<a, b, c, d, e>> \in Seq(S)
OBVIOUS

\* Steps in order, followed by later ones in order
LEMMA TaskJoinedOrder ==
    ASSUME NEW s \in Seq(TaskStepType), NEW t \in Seq(TaskStepType), TaskInOrder(s), TaskInOrder(t),
           \A a \in Range(s), b \in Range(t) : TaskRank(a) < TaskRank(b)
    PROVE  s \o t \in Seq(TaskStepType) /\ TaskInOrder(s \o t) /\ Range(s \o t) = Range(s) \cup Range(t)
<1>1. /\ s \o t \in Seq(TaskStepType) /\ Len(s) \in Nat /\ Len(t) \in Nat
      /\ DOMAIN s = 1 .. Len(s) /\ DOMAIN t = 1 .. Len(t)
      /\ DOMAIN (s \o t) = 1 .. Len(s) + Len(t)
      /\ \A i \in 1 .. Len(s) + Len(t) : (s \o t)[i] = IF i <= Len(s) THEN s[i] ELSE t[i - Len(s)]
  BY ConcatProperties
<1>2. ASSUME NEW i \in 1 .. Len(s) + Len(t), NEW j \in 1 .. Len(s) + Len(t), i < j
      PROVE  TaskRank((s \o t)[i]) < TaskRank((s \o t)[j])
  <2>1. CASE j <= Len(s)
    BY <1>1, <1>2, <2>1 DEF TaskInOrder
  <2>2. CASE i <= Len(s) /\ ~(j <= Len(s))
    BY <1>1, <2>2 DEF Range
  <2>3. CASE ~(i <= Len(s))
    BY <1>1, <1>2, <2>3 DEF TaskInOrder
  <2>4. QED BY <2>1, <2>2, <2>3
<1>3. Range(s \o t) = Range(s) \cup Range(t)
  <2>1. ASSUME NEW i \in 1 .. Len(s) PROVE s[i] \in Range(s \o t)
    BY <1>1 DEF Range
  <2>2. ASSUME NEW i \in 1 .. Len(t) PROVE t[i] \in Range(s \o t)
    <3>1. Len(s) + i \in DOMAIN (s \o t) /\ (s \o t)[Len(s) + i] = t[i]
      BY <1>1
    <3>2. QED BY <3>1 DEF Range
  <2>3. ASSUME NEW i \in 1 .. Len(s) + Len(t) PROVE (s \o t)[i] \in Range(s) \cup Range(t)
    BY <1>1 DEF Range
  <2>4. QED BY <1>1, <2>1, <2>2, <2>3 DEF Range
<1>4. QED BY <1>1, <1>2, <1>3 DEF TaskInOrder

\* The steps of the default plan, and those of a pull request that is opened,
\* are in order.
LEMMA TaskDefaultOrdered ==
    /\ \A applies \in BOOLEAN, operation \in TaskOperationType :
         /\ TaskDefaultSteps(applies, operation) \in Seq(TaskStepType)
         /\ TaskOrdered(TaskDefaultSteps(applies, operation))
    /\ <<"push", "request">> \in Seq(TaskStepType) /\ TaskOrdered(<<"push", "request">>)
<1> DEFINE work == <<"prepare", "apply", "stage", "commit", "push">>
<1>1. /\ work \in Seq(TaskStepType) /\ TaskInOrder(work)
      /\ Range(work) = {"prepare", "apply", "stage", "commit", "push"}
  <2>0. work \in Seq(TaskStepType)
    <3>1. /\ "prepare" \in TaskStepType /\ "apply" \in TaskStepType /\ "stage" \in TaskStepType
          /\ "commit" \in TaskStepType /\ "push" \in TaskStepType
      BY DEF TaskStepType
    <3>2. QED BY <3>1, TaskListed, Zenon
  <2>1. /\ DOMAIN work = 1 .. 5
        /\ work[1] = "prepare" /\ work[2] = "apply" /\ work[3] = "stage" /\ work[4] = "commit"
        /\ work[5] = "push"
    OBVIOUS
  <2>2. 1 .. 5 = {1, 2, 3, 4, 5}
    OBVIOUS
  <2> HIDE DEF work
  <2>3. \A i \in 1 .. 5 : TaskRank(work[i]) = i
    BY <2>1, <2>2, TaskRanks
  <2>4. QED BY <2>0, <2>1, <2>2, <2>3 DEF TaskInOrder, Range
<1>2. ASSUME NEW step \in {"request", "action", "push"}
      PROVE  <<step>> \in Seq(TaskStepType) /\ TaskInOrder(<<step>>) /\ Range(<<step>>) = {step}
  <2>0. <<step>> \in Seq(TaskStepType)
    <3>1. step \in TaskStepType
      BY DEF TaskStepType
    <3>2. QED BY <3>1, TaskListed, Zenon
  <2>1. DOMAIN <<step>> = {1} /\ <<step>>[1] = step
    OBVIOUS
  <2>2. QED BY <2>0, <2>1 DEF TaskInOrder, Range
<1>3. <<>> \in Seq(TaskStepType) /\ TaskInOrder(<<>>) /\ Range(<<>>) = {}
  BY DEF TaskInOrder, Range
<1>4. ASSUME NEW applies \in BOOLEAN, NEW operation \in TaskOperationType
      PROVE  /\ TaskDefaultSteps(applies, operation) \in Seq(TaskStepType)
             /\ TaskOrdered(TaskDefaultSteps(applies, operation))
  <2> DEFINE ask == IF operation.request THEN <<"request">> ELSE <<>>
             act == IF operation.actions THEN <<"action">> ELSE <<>>
             first == IF ~applies THEN <<>> ELSE work \o ask
  <2>1. TaskDefaultSteps(applies, operation) = first \o act
    BY DEF TaskDefaultSteps
  <2>2. ask \in Seq(TaskStepType) /\ TaskInOrder(ask) /\ Range(ask) \subseteq {"request"}
    BY <1>2, <1>3
  <2>3. act \in Seq(TaskStepType) /\ TaskInOrder(act) /\ Range(act) \subseteq {"action"}
    BY <1>2, <1>3
  <2> HIDE DEF work, ask, act
  <2>4. \A a \in Range(work), b \in Range(ask) : TaskRank(a) < TaskRank(b)
    BY <1>1, <2>2, TaskRanks
  <2>5. /\ work \o ask \in Seq(TaskStepType) /\ TaskInOrder(work \o ask)
        /\ Range(work \o ask) = Range(work) \cup Range(ask)
    BY <1>1, <2>2, <2>4, TaskJoinedOrder
  <2>6. /\ first \in Seq(TaskStepType) /\ TaskInOrder(first)
        /\ Range(first) = {} \/ Range(first) = Range(work) \cup Range(ask)
    BY <1>3, <2>5
  <2> HIDE DEF first
  <2>7. \A a \in Range(first), b \in Range(act) : TaskRank(a) < TaskRank(b)
    <3>1. Range(first) \subseteq {"prepare", "apply", "stage", "commit", "push", "request"}
      BY <1>1, <2>2, <2>6
    <3>2. QED BY <2>3, <3>1, TaskRanks
  <2>8. /\ first \o act \in Seq(TaskStepType) /\ TaskInOrder(first \o act)
        /\ Range(first \o act) = Range(first) \cup Range(act)
    BY <2>3, <2>6, <2>7, TaskJoinedOrder
  <2>9. TaskOrdered(first \o act)
    BY <1>1, <2>2, <2>3, <2>6, <2>8 DEF TaskOrdered, TaskInOrder
  <2>10. QED BY <2>1, <2>8, <2>9
<1>5. <<"push", "request">> \in Seq(TaskStepType) /\ TaskOrdered(<<"push", "request">>)
  <2> DEFINE open == <<"push", "request">>
  <2>0. open \in Seq(TaskStepType)
    <3>1. "push" \in TaskStepType /\ "request" \in TaskStepType
      BY DEF TaskStepType
    <3>2. QED BY <3>1, TaskListed, Zenon
  <2>1. /\ DOMAIN open = 1 .. 2
        /\ open[1] = "push" /\ open[2] = "request" /\ 1 .. 2 = {1, 2}
    OBVIOUS
  <2> HIDE DEF open
  <2>2. TaskInOrder(open) /\ Range(open) = {"push", "request"}
    BY <2>1, TaskRanks DEF TaskInOrder, Range
  <2>3. TaskOrdered(open)
    BY <2>2 DEF TaskOrdered, TaskInOrder
  <2>4. QED BY <2>0, <2>3 DEF open
<1>6. QED BY <1>4, <1>5

\* The plan of an operation that has a branch
LEMMA TaskBranchPlanKeeps ==
    ASSUME TaskIInv, taskAt = "plan", taskOperation.kind \notin {"stage-commit", "cleanup"},
           NEW branch \in TaskBranches, NEW changes \in Seq(TaskChangeType),
           NEW steps \in Seq(TaskStepType),
           taskRun' = [taskRun EXCEPT !.branch = branch, !.changes = changes, !.steps = steps],
           taskAt' \in {"original", "guard", "end"},
           taskOperation.kind \in {"task", "pr-open"} /\ taskOperation.steps = <<>> =>
             TaskOrdered(steps),
           UNCHANGED <<taskRepository, taskShared>>, TaskWithin
    PROVE  TaskIInv'
<1>1. taskRun = TaskFresh /\ taskShared' \in [mutated: SUBSET TaskFiles, changed: BOOLEAN]
  BY DEF TaskIInv, TaskTypes, TaskKindsOK, TaskOpening
<1>2. taskRun' = TaskPlanned(branch, changes, steps, {})
  BY <1>1 DEF TaskFresh, TaskPlanned
<1>3. branch \in TaskBranches \cup {TaskNobody} /\ {} \in SUBSET TaskFiles
  OBVIOUS
<1>4. IF taskOperation.kind = "stage-commit"
      THEN branch = TaskNobody /\ Range(steps) \subseteq {"stage", "commit"}
      ELSE branch \in TaskBranches
  OBVIOUS
<1>5. taskOperation.kind # "cleanup" /\ taskOperation.kind # "stage-commit"
  OBVIOUS
<1>6. QED BY <1>1, <1>2, <1>3, <1>4, <1>5, TaskPlanKeeps

\* Wherever an operation stops, having changed nothing
LEMMA TaskStopsHere ==
    ASSUME TaskIInv, NEW outcome \in {"ok", "error", "skipped"}, TaskStops(outcome),
           taskAt \in {"hard", "soft", "plan", "delete", "original", "guard", "act"},
           UNCHANGED <<taskRepository, taskShared>>, TaskWithin
    PROVE  TaskIInv'
BY TaskStopsKeeps DEF TaskOpening, TaskWorking, TaskIInv, TaskTypes

\* The safeguards let an operation go on, or stop it.
LEMMA TaskSafeguardStep ==
    ASSUME TaskIInv, NEW level \in {"hard", "soft"}, TaskSafeguard(level)
    PROVE  TaskIInv'
BY TaskStopsHere, TaskOpensKeeps DEF TaskSafeguard, TaskOpening

\* The plan of a task names the changes of its files, and has the steps in order.
LEMMA TaskPlanStep == TaskIInv /\ TaskPlan => TaskIInv'
<1> SUFFICES ASSUME TaskIInv, TaskPlan PROVE TaskIInv'
  OBVIOUS
<1>1. /\ taskAt = "plan" /\ taskOperation.kind = "task"
      /\ UNCHANGED <<taskRepository, taskShared>> /\ TaskWithin
  BY DEF TaskPlan
<1>2. /\ TaskTypes /\ taskRun = TaskFresh
      /\ taskShared' \in [mutated: SUBSET TaskFiles, changed: BOOLEAN]
  BY <1>1 DEF TaskIInv, TaskTypes, TaskKindsOK, TaskOpening
<1>3. CASE TaskStops("error")
  BY <1>1, <1>3, TaskStopsHere
<1> DEFINE changes == FlattenSeq([i \in DOMAIN taskOperation.files |->
                        SetToSeq(TaskFileChanges(taskOperation.files[i], taskRepository.work))])
           applies == \E i \in DOMAIN changes : changes[i].apply
           steps == TaskSteps(applies, taskOperation)
           branch == TaskSanitized[taskOperation.branch]
<1>4. CASE /\ taskRun' = [taskRun EXCEPT !.branch = branch, !.changes = changes, !.steps = steps]
           /\ taskAt' = IF steps = <<>> THEN "end" ELSE IF applies THEN "original" ELSE "guard"
  <2>1. /\ taskOperation \in TaskOperationType /\ taskOperation.files \in Seq(TaskFileType)
        /\ taskOperation.branch \in TaskBranches /\ taskOperation.steps \in Seq(TaskStepType)
    BY <1>2, TaskOperationTyped DEF TaskOperationType
  <2>2. taskRepository.work \in TaskTree
    BY <1>2 DEF TaskTypes, TaskRepositoryType
  <2>3. changes \in Seq(TaskChangeType)
    BY <2>1, <2>2, TaskPlanTyped
  <2>4. branch \in TaskBranches
    BY <2>1, TaskAssumption
  <2>5. applies \in BOOLEAN
    OBVIOUS
  <2> HIDE DEF changes, applies, branch
  <2>6. steps \in Seq(TaskStepType) /\ (taskOperation.steps = <<>> => TaskOrdered(steps))
    BY <2>1, <2>5, TaskDefaultOrdered DEF TaskSteps
  <2> HIDE DEF steps
  <2>7. /\ taskRun' = [taskRun EXCEPT !.branch = branch, !.changes = changes, !.steps = steps]
        /\ taskAt' \in {"original", "guard", "end"}
    BY <1>4
  <2>8. taskOperation.kind \notin {"stage-commit", "cleanup"}
    BY <1>1
  <2>9. QED BY <1>1, <2>3, <2>4, <2>6, <2>7, <2>8, TaskBranchPlanKeeps
<1>5. QED BY <1>3, <1>4 DEF TaskPlan

\* The plans of the git operations have one pipeline each.
LEMMA TaskGitPlanStep == TaskIInv /\ TaskGitPlan => TaskIInv'
<1> SUFFICES ASSUME TaskIInv, TaskGitPlan PROVE TaskIInv'
  OBVIOUS
<1>1. /\ taskAt = "plan" /\ taskOperation.kind \notin {"task", "stage-commit", "cleanup"}
      /\ UNCHANGED <<taskRepository, taskShared>> /\ TaskWithin
  BY DEF TaskGitPlan
<1>2. /\ TaskTypes /\ taskRun = TaskFresh
      /\ taskShared' \in [mutated: SUBSET TaskFiles, changed: BOOLEAN]
  BY <1>1 DEF TaskIInv, TaskTypes, TaskKindsOK, TaskOpening
<1>3. CASE TaskStops("error")
  BY <1>1, <1>3, TaskStopsHere
<1>4. CASE /\ taskRun' = CASE taskOperation.kind = "stage" -> TaskStagePlan
                           [] taskOperation.kind = "commit" -> TaskCommitPlan
                           [] taskOperation.kind = "push" -> TaskPushPlan
                           [] taskOperation.kind = "pr-create" -> TaskCreatePlan
                           [] taskOperation.kind = "pr-open" -> TaskOpenPlan
           /\ taskAt' \in {"guard", "end", "original"}
  <2>1. /\ taskOperation \in TaskOperationType /\ taskOperation.paths \in SUBSET TaskFiles
        /\ taskOperation.branch \in TaskBranches
        /\ taskOperation.kind \in {"stage", "commit", "push", "pr-create", "pr-open"}
    BY <1>1, <1>2, TaskOperationTyped DEF TaskOperationType
  <2>2. TaskSanitized[taskOperation.branch] \in TaskBranches
    BY <2>1, TaskAssumption
  <2>3. PICK branch \in TaskBranches, changes \in Seq(TaskChangeType), steps \in Seq(TaskStepType) :
          /\ taskRun' = [taskRun EXCEPT !.branch = branch, !.changes = changes, !.steps = steps]
          /\ taskOperation.kind = "pr-open" => TaskOrdered(steps)
    <3>0. /\ <<>> \in Seq(TaskChangeType)
          /\ \A step \in TaskStepType : <<step>> \in Seq(TaskStepType)
          /\ {"stage", "commit", "push", "request"} \subseteq TaskStepType
      BY TaskListed DEF TaskStepType
    <3>1. CASE taskOperation.kind = "stage"
      <4> DEFINE paths == SetToSeq(taskOperation.paths)
                 changes == [i \in DOMAIN paths |-> TaskChange("stage", paths[i], TaskMissing, TRUE)]
      <4>1. changes \in Seq(TaskChangeType)
        BY <2>1, TaskStagedTyped
      <4>2. taskRun' = [taskRun EXCEPT !.branch = taskOperation.branch, !.changes = changes,
                                       !.steps = <<"stage">>]
        BY <1>4, <3>1 DEF TaskStagePlan, TaskGitPlanOf
      <4>3. <<"stage">> \in Seq(TaskStepType) /\ taskOperation.kind # "pr-open"
        BY <3>0, <3>1
      <4> HIDE DEF changes
      <4>4. QED BY <2>1, <4>1, <4>2, <4>3, Zenon
    <3>2. CASE taskOperation.kind = "commit"
      <4>1. taskRun' = [taskRun EXCEPT !.branch = taskOperation.branch, !.changes = <<>>,
                                       !.steps = <<"commit">>]
        BY <1>4, <3>2 DEF TaskCommitPlan, TaskGitPlanOf
      <4>2. <<"commit">> \in Seq(TaskStepType) /\ taskOperation.kind # "pr-open"
        BY <3>0, <3>2
      <4>3. QED BY <2>1, <3>0, <4>1, <4>2, Zenon
    <3>3. CASE taskOperation.kind = "push"
      <4>1. taskRun' = [taskRun EXCEPT !.branch = taskOperation.branch, !.changes = <<>>,
                                       !.steps = <<"push">>]
        BY <1>4, <3>3 DEF TaskPushPlan, TaskGitPlanOf
      <4>2. <<"push">> \in Seq(TaskStepType) /\ taskOperation.kind # "pr-open"
        BY <3>0, <3>3
      <4>3. QED BY <2>1, <3>0, <4>1, <4>2, Zenon
    <3>4. CASE taskOperation.kind = "pr-create"
      <4>1. taskRun' = [taskRun EXCEPT !.branch = TaskSanitized[taskOperation.branch],
                                       !.changes = <<>>, !.steps = <<"request">>]
        BY <1>4, <3>4 DEF TaskCreatePlan, TaskGitPlanOf
      <4>2. <<"request">> \in Seq(TaskStepType) /\ taskOperation.kind # "pr-open"
        BY <3>0, <3>4
      <4>3. QED BY <2>2, <3>0, <4>1, <4>2, Zenon
    <3>5. CASE taskOperation.kind = "pr-open"
      <4>1. taskRun' = [taskRun EXCEPT !.branch = taskOperation.branch, !.changes = <<>>,
                                       !.steps = <<"push", "request">>]
        BY <1>4, <3>5 DEF TaskOpenPlan, TaskGitPlanOf
      <4>2. QED BY <2>1, <3>0, <4>1, TaskDefaultOrdered, Zenon
    <3>6. QED BY <2>1, <3>1, <3>2, <3>3, <3>4, <3>5
  <2>4. /\ taskOperation.kind \notin {"stage-commit", "cleanup"}
        /\ taskAt' \in {"original", "guard", "end"}
        /\ taskOperation.kind \in {"task", "pr-open"} /\ taskOperation.steps = <<>> =>
             TaskOrdered(steps)
    BY <1>1, <1>4, <2>3
  <2>5. QED BY <1>1, <2>3, <2>4, TaskBranchPlanKeeps
<1>5. QED BY <1>3, <1>4 DEF TaskGitPlan

\* A git stage-commit stages paths the workflow has changed, when it has changed any.
LEMMA TaskStageCommitPlanStep == TaskIInv /\ TaskStageCommitPlan => TaskIInv'
<1> SUFFICES ASSUME TaskIInv, TaskStageCommitPlan PROVE TaskIInv'
  OBVIOUS
<1>1. /\ taskAt = "plan" /\ taskOperation.kind = "stage-commit"
      /\ UNCHANGED taskRepository /\ TaskWithin
  BY DEF TaskStageCommitPlan
<1>2. TaskTypes /\ taskRun = TaskFresh
  BY <1>1 DEF TaskIInv, TaskKindsOK, TaskOpening
<1>3. taskShared' \in [mutated: SUBSET TaskFiles, changed: BOOLEAN]
  BY <1>2 DEF TaskTypes, TaskStageCommitPlan
<1>4. CASE TaskStops("error")
  BY <1>1, <1>3, <1>4, TaskStopsKeeps DEF TaskOpening
<1> DEFINE mutated == taskShared.mutated
           some == TaskStageTargets(taskOperation.paths, mutated)
           targets == SetToSeq(some)
           changes == [i \in DOMAIN targets |-> TaskChange("stage", targets[i], TaskMissing, TRUE)]
<1>5. CASE /\ taskRun' = [taskRun EXCEPT !.changes = changes, !.steps = <<"stage", "commit">>,
                                         !.consumed = mutated]
           /\ taskAt' = IF changes = <<>> THEN "end" ELSE "original"
  <2>1. taskOperation.paths \in SUBSET TaskFiles /\ mutated \in SUBSET TaskFiles
    BY <1>2, TaskOperationTyped DEF TaskOperationType, TaskTypes
  <2>2. /\ some \in SUBSET TaskFiles
        /\ mutated # {} => /\ some \subseteq mutated
                           /\ taskOperation.paths # {} => some \subseteq taskOperation.paths
    BY <2>1 DEF TaskStageTargets
  <2> HIDE DEF some
  <2>3. changes \in Seq(TaskChangeType) /\ \A i \in DOMAIN changes : changes[i].path \in some
    BY <2>2, TaskStagedTyped
  <2> HIDE DEF changes, mutated
  <2> DEFINE steps == <<"stage", "commit">>
  <2>4. /\ steps \in Seq(TaskStepType) /\ Range(steps) \subseteq {"stage", "commit"}
    <3>1. "stage" \in TaskStepType /\ "commit" \in TaskStepType
      BY DEF TaskStepType
    <3>2. <<"stage", "commit">> \in Seq(TaskStepType)
      BY <3>1, TaskListed, Zenon
    <3>3. QED BY <3>2 DEF Range
  <2>5. taskRun' = [taskRun EXCEPT !.changes = changes, !.steps = steps, !.consumed = mutated]
    BY <1>5
  <2> HIDE DEF steps
  <2>6. taskRun' = TaskPlanned(TaskNobody, changes, steps, mutated)
    BY <1>2, <2>5 DEF TaskFresh, TaskPlanned
  <2>7. taskAt' \in {"original", "guard", "end"}
    BY <1>5
  <2>8. taskOperation.kind # "cleanup" /\ taskOperation.kind \notin {"task", "pr-open"}
    BY <1>1
  <2>9. QED BY <1>1, <1>3, <2>1, <2>2, <2>3, <2>4, <2>6, <2>7, <2>8, TaskPlanKeeps
<1>6. QED BY <1>4, <1>5 DEF TaskStageCommitPlan

\* The branch to come back to is read before anything is done.
LEMMA TaskReadOriginalStep == TaskIInv /\ TaskReadOriginal => TaskIInv'
BY TaskStopsHere, TaskReadOriginalKeeps DEF TaskReadOriginal

\* A branch is deleted only when its base has its commits.
LEMMA TaskCompareStep == TaskIInv /\ TaskCompare => TaskIInv'
BY TaskStopsHere, TaskOpensKeeps DEF TaskCompare, TaskOpening

\* The deletion may fail.
LEMMA TaskDeleteStep == TaskIInv /\ TaskDelete => TaskIInv'
BY TaskStopsHere, TaskDeleteKeeps DEF TaskDelete

\* A guard lets the step act, or stops the operation.
LEMMA TaskGuardStep == TaskIInv /\ TaskGuard => TaskIInv'
<1> SUFFICES ASSUME TaskIInv, TaskGuard PROVE TaskIInv'
  OBVIOUS
<1> DEFINE looks == taskOperation.clean /\ ~taskRun.checked
                      /\ taskStep \in {"prepare", "apply", "stage", "commit", "action"}
<1>1. /\ taskAt = "guard" /\ taskRun.steps # <<>>
      /\ UNCHANGED <<taskRepository, taskShared>> /\ TaskWithin
  BY DEF TaskGuard
<1>2. CASE TaskStops("error") \/ TaskStops("skipped")
  BY <1>1, <1>2, TaskStopsHere
<1>3. CASE /\ taskAt' = "act" /\ taskRun' = [taskRun EXCEPT !.checked = @ \/ looks]
           /\ looks => TaskDirty(taskRepository, TaskIgnored) = {}
  <2>1. looks \in BOOLEAN
    BY DEF TaskIInv, TaskTypes
  <2>2. looks <=> taskOperation.clean /\ ~taskRun.checked
                    /\ taskStep \in {"prepare", "apply", "stage", "commit", "action"}
    OBVIOUS
  <2> HIDE DEF looks
  <2>3. QED BY <1>1, <1>3, <2>1, <2>2, TaskGuardKeeps
<1>4. QED BY <1>2, <1>3 DEF TaskGuard

\* An action that fails stops the operation.
LEMMA TaskActFailsStep == TaskIInv /\ TaskActFails => TaskIInv'
BY TaskStopsHere DEF TaskActFails

\* So does the end of its steps.
LEMMA TaskAppliedStep == TaskIInv /\ TaskApplied => TaskIInv'
BY TaskStopsHere DEF TaskApplied

\* The branch of a task is prepared, or skips the repository when it exists.
LEMMA TaskPrepareStep == TaskIInv /\ TaskPrepare => TaskIInv'
<1> SUFFICES ASSUME TaskIInv, TaskPrepare PROVE TaskIInv'
  OBVIOUS
<1> DEFINE history == IF TaskExists(taskOperation.base)
                      THEN taskRepository.branches[taskOperation.base]
                      ELSE TaskHistory(taskRepository)
<1>1. taskAt = "act" /\ TaskActs("prepare") /\ TaskWithin /\ UNCHANGED taskShared
  BY DEF TaskPrepare, TaskActs
<1>2. CASE TaskStops("skipped") /\ UNCHANGED taskRepository
  BY <1>1, <1>2, TaskStopsHere
<1>3. CASE /\ ~TaskExists(taskRun.branch)
           /\ taskRepository' = TaskCheckedOut(taskRepository, taskRun.branch, history)
           /\ taskAt' = "guard"
           /\ taskRun' = [taskRun EXCEPT !.steps = Tail(@), !.prepared = TRUE]
  <2>1. /\ TaskTypes /\ taskRepository \in TaskRepositoryType /\ TaskHistory(taskRepository) # <<>>
    BY DEF TaskIInv, TaskTypes, TaskHeadOK
  <2>2. /\ TaskHistory(taskRepository) \in Seq(TaskTree) /\ taskOperation.base \in TaskBranches
        /\ taskRepository.branches \in [TaskBranches -> Seq(TaskTree)]
    BY <2>1, TaskHeadIs, TaskOperationTyped DEF TaskOperationType, TaskRepositoryType
  <2>3. history \in Seq(TaskTree) /\ history # <<>>
    BY <2>1, <2>2 DEF TaskExists
  <2> HIDE DEF history
  <2>4. QED BY <1>1, <1>3, <2>3, TaskPrepareKeeps
<1>4. QED BY <1>2, <1>3 DEF TaskPrepare

\* What an action that is done, or that has more changes to make, leaves
LEMMA TaskStepDone ==
    ASSUME TaskIInv, taskAt = "act",
           TaskDone \/ (taskRun.changes # <<>> /\ TaskNextChange
                          /\ taskStep \notin {"prepare", "push", "request"})
    PROVE  \E steps, change :
             /\ taskRun' = [taskRun EXCEPT !.steps = steps, !.change = change]
             /\ \/ steps = Tail(taskRun.steps) /\ change = 1 /\ taskAt' = "guard"
                \/ /\ steps = taskRun.steps /\ change \in 1 .. Len(taskRun.changes) /\ taskAt' = "act"
                   /\ taskStep \notin {"push", "request"}
<1>1. CASE TaskDone
  BY <1>1 DEF TaskDone
<1>2. CASE ~TaskDone
  <2>1. /\ taskRun.change < Len(taskRun.changes) /\ UNCHANGED taskAt
        /\ taskRun' = [taskRun EXCEPT !.change = @ + 1]
        /\ taskStep \notin {"prepare", "push", "request"}
    BY <1>2 DEF TaskNextChange
  <2>2. taskRun \in TaskRunType
    BY DEF TaskIInv, TaskTypes
  <2>3. taskRun.change \in Nat \ {0} /\ Len(taskRun.changes) \in Nat
    BY <2>2 DEF TaskRunType
  <2>4. taskRun.change + 1 \in 1 .. Len(taskRun.changes)
    BY <2>1, <2>3
  <2> DEFINE change == taskRun.change + 1
  <2>5. taskRun' = [taskRun EXCEPT !.change = change] /\ change \in 1 .. Len(taskRun.changes)
    BY <2>1, <2>4
  <2> HIDE DEF change
  <2>6. taskRun' = [taskRun EXCEPT !.steps = taskRun.steps, !.change = change]
    BY <2>2, <2>5 DEF TaskRunType
  <2>7. QED BY <2>1, <2>5, <2>6
<1>3. QED BY <1>1, <1>2

\* A step that works on files changes the index of those it names only.
LEMMA TaskWorksKeeps ==
    ASSUME TaskIInv, taskAt = "act", taskStep \in {"apply", "stage", "action"}, TaskWithin,
           TaskDone \/ (taskRun.changes # <<>> /\ TaskNextChange),
           taskRepository' \in TaskRepositoryType,
           taskRepository'.head = taskRepository.head, taskRepository'.at = taskRepository.at,
           taskRepository'.branches = taskRepository.branches,
           \A f \in TaskFiles \ TaskPaths : taskRepository'.index[f] = taskRepository.index[f],
           taskRepository'.server = taskRepository.server,
           taskRepository'.requests = taskRepository.requests,
           taskShared' \in [mutated: SUBSET TaskFiles, changed: BOOLEAN]
    PROVE  TaskIInv'
<1>1. taskStep \notin {"prepare", "push", "request"}
  OBVIOUS
<1>2. TaskDone \/ (taskRun.changes # <<>> /\ TaskNextChange
                     /\ taskStep \notin {"prepare", "push", "request"})
  BY <1>1
<1>3. PICK steps, change :
        /\ taskRun' = [taskRun EXCEPT !.steps = steps, !.change = change]
        /\ \/ steps = Tail(taskRun.steps) /\ change = 1 /\ taskAt' = "guard"
           \/ /\ steps = taskRun.steps /\ change \in 1 .. Len(taskRun.changes) /\ taskAt' = "act"
              /\ taskStep \notin {"push", "request"}
  BY <1>2, TaskStepDone, Zenon
<1>4. /\ taskStep # "prepare" /\ taskStep # "push" /\ taskStep # "request"
      /\ taskRepository'.requests \subseteq taskRepository.requests \cup {taskRun.branch}
      /\ taskRepository.requests \subseteq taskRepository'.requests
  OBVIOUS
<1>5. QED BY <1>3, <1>4, TaskProgressKeeps

\* The change at hand is one of the plan's.
LEMMA TaskChangeIs ==
    ASSUME TaskTypes, taskRun.changes # <<>>
    PROVE  taskChange \in TaskChangeType /\ taskChange.path \in TaskPaths
BY DEF TaskTypes, TaskRunType, taskChange, TaskPaths

\* A custom action changes nothing the model has.
LEMMA TaskActionStep == TaskIInv /\ TaskAction => TaskIInv'
BY TaskWorksKeeps DEF TaskAction, TaskActs, TaskIInv, TaskTypes

\* A file is written in the worktree.
LEMMA TaskApplyStep == TaskIInv /\ TaskApply => TaskIInv'
<1> SUFFICES ASSUME TaskIInv, TaskApply PROVE TaskIInv'
  OBVIOUS
<1>1. /\ taskAt = "act" /\ taskStep \in {"apply", "stage", "action"} /\ TaskWithin
  BY DEF TaskApply, TaskActs
<1>2. /\ TaskTypes /\ taskRepository \in TaskRepositoryType
      /\ taskShared \in [mutated: SUBSET TaskFiles, changed: BOOLEAN]
  BY <1>1 DEF TaskIInv, TaskTypes
<1>3. TaskDone \/ (taskRun.changes # <<>> /\ TaskNextChange)
  BY DEF TaskApply
<1>4. CASE UNCHANGED <<taskRepository, taskShared>>
  BY <1>1, <1>2, <1>3, <1>4, TaskWorksKeeps
<1>5. CASE /\ taskRun.changes # <<>>
           /\ taskRepository' = [taskRepository EXCEPT !.work[taskChange.path] =
               IF taskChange.mode = "append" THEN TaskText(@.lines \cup taskChange.content.lines)
               ELSE taskChange.content]
           /\ taskShared' = [mutated |-> taskShared.mutated \cup {taskChange.path}, changed |-> TRUE]
  <2>1. taskChange.path \in TaskFiles /\ taskChange.content \in TaskContent
    BY <1>2, <1>5, TaskChangeIs DEF TaskChangeType
  <2> DEFINE file == taskRepository.work[taskChange.path]
             content == IF taskChange.mode = "append"
                        THEN TaskText(file.lines \cup taskChange.content.lines)
                        ELSE taskChange.content
  <2>2. taskRepository.work \in TaskTree /\ file \in TaskContent
    BY <1>2, <2>1 DEF TaskRepositoryType, TaskTree
  <2>3. content \in TaskContent
    BY <2>1, <2>2 DEF TaskContent, TaskText
  <2>4. taskRepository' = [taskRepository EXCEPT !.work[taskChange.path] = content]
    BY <1>5
  <2> HIDE DEF content, file
  <2>5. /\ taskRepository' \in TaskRepositoryType
        /\ taskRepository'.head = taskRepository.head /\ taskRepository'.at = taskRepository.at
        /\ taskRepository'.branches = taskRepository.branches
        /\ taskRepository'.index = taskRepository.index
        /\ taskRepository'.server = taskRepository.server
        /\ taskRepository'.requests = taskRepository.requests
    BY <1>2, <2>1, <2>3, <2>4 DEF TaskRepositoryType, TaskTree
  <2>6. taskShared' \in [mutated: SUBSET TaskFiles, changed: BOOLEAN]
    BY <1>2, <1>5, <2>1
  <2>7. QED BY <1>1, <1>3, <2>5, <2>6, TaskWorksKeeps
<1>6. QED BY <1>4, <1>5 DEF TaskApply

\* A file is staged.
LEMMA TaskStageStep == TaskIInv /\ TaskStage => TaskIInv'
<1> SUFFICES ASSUME TaskIInv, TaskStage PROVE TaskIInv'
  OBVIOUS
<1>1. /\ taskAt = "act" /\ taskStep \in {"apply", "stage", "action"} /\ TaskWithin
      /\ UNCHANGED taskShared
  BY DEF TaskStage, TaskActs
<1>2. /\ TaskTypes /\ taskRepository \in TaskRepositoryType
      /\ taskShared' \in [mutated: SUBSET TaskFiles, changed: BOOLEAN]
  BY <1>1 DEF TaskIInv, TaskTypes
<1>3. TaskDone \/ (taskRun.changes # <<>> /\ TaskNextChange)
  BY DEF TaskStage
<1>4. CASE UNCHANGED taskRepository
  BY <1>1, <1>2, <1>3, <1>4, TaskWorksKeeps
<1>5. CASE /\ taskRun.changes # <<>>
           /\ taskRepository' = [taskRepository EXCEPT
               !.index[taskChange.path] = taskRepository.work[taskChange.path]]
  BY <1>2, <1>5, TaskChangeIs, <1>1, <1>3, TaskWorksKeeps DEF TaskChangeType, TaskRepositoryType, TaskTree
<1>6. QED BY <1>4, <1>5 DEF TaskStage

\* Only a branch is pushed, by an operation that has one.
LEMMA TaskPushesBranch ==
    ASSUME TaskIInv, taskAt = "act", taskStep \in {"push", "request"}
    PROVE  taskRun.branch \in TaskBranches
BY TaskOrder DEF TaskIInv, TaskTypes, TaskKindsOK, TaskWorking

\* A branch is pushed.
LEMMA TaskPushStep == TaskIInv /\ TaskPush => TaskIInv'
<1> SUFFICES ASSUME TaskIInv, TaskPush PROVE TaskIInv'
  OBVIOUS
<1>1. /\ taskAt = "act" /\ taskStep = "push" /\ TaskWithin /\ TaskDone /\ UNCHANGED taskShared
      /\ taskRepository' = [taskRepository EXCEPT
           !.server[taskRun.branch] = taskRepository.branches[taskRun.branch]]
  BY DEF TaskPush, TaskActs
<1>2. /\ taskRepository \in TaskRepositoryType /\ taskRun.branch \in TaskBranches
      /\ taskShared' \in [mutated: SUBSET TaskFiles, changed: BOOLEAN]
  BY <1>1, TaskPushesBranch DEF TaskIInv, TaskTypes
<1>3. taskRepository.branches[taskRun.branch] \in Seq(TaskTree)
  BY <1>2 DEF TaskRepositoryType
<1>4. /\ taskRepository' \in TaskRepositoryType
      /\ taskRepository'.head = taskRepository.head /\ taskRepository'.at = taskRepository.at
      /\ taskRepository'.branches = taskRepository.branches
      /\ taskRepository'.index = taskRepository.index
      /\ taskRepository'.requests = taskRepository.requests
      /\ taskRepository'.server[taskRun.branch] = taskRepository.branches[taskRun.branch]
  BY <1>1, <1>2, <1>3 DEF TaskRepositoryType
<1>5. /\ taskRun' = [taskRun EXCEPT !.steps = Tail(taskRun.steps), !.change = 1]
      /\ taskAt' = "guard"
  BY <1>1 DEF TaskDone
<1>6. QED BY <1>1, <1>2, <1>4, <1>5, TaskProgressKeeps

\* A pull request is asked for.
LEMMA TaskRequestStep == TaskIInv /\ TaskRequest => TaskIInv'
<1> SUFFICES ASSUME TaskIInv, TaskRequest PROVE TaskIInv'
  OBVIOUS
<1>1. /\ taskAt = "act" /\ taskStep = "request" /\ TaskWithin /\ TaskDone /\ UNCHANGED taskShared
      /\ taskRepository' = [taskRepository EXCEPT !.requests = @ \cup {taskRun.branch}]
  BY DEF TaskRequest, TaskActs
<1>2. /\ taskRepository \in TaskRepositoryType /\ taskRun.branch \in TaskBranches
      /\ taskShared' \in [mutated: SUBSET TaskFiles, changed: BOOLEAN]
  BY <1>1, TaskPushesBranch DEF TaskIInv, TaskTypes
<1>3. /\ taskRepository' \in TaskRepositoryType
      /\ taskRepository'.head = taskRepository.head /\ taskRepository'.at = taskRepository.at
      /\ taskRepository'.branches = taskRepository.branches
      /\ taskRepository'.index = taskRepository.index
      /\ taskRepository'.server = taskRepository.server
      /\ taskRepository'.requests = taskRepository.requests \cup {taskRun.branch}
  BY <1>1, <1>2 DEF TaskRepositoryType
<1>4. /\ taskRun' = [taskRun EXCEPT !.steps = Tail(taskRun.steps), !.change = 1]
      /\ taskAt' = "guard"
  BY <1>1 DEF TaskDone
<1>5. QED BY <1>1, <1>2, <1>3, <1>4, TaskProgressKeeps

\* No step of the program or of the operator breaks the invariant.
LEMMA TaskNextKeeps == TaskIInv /\ TaskNext => TaskIInv'
<1> SUFFICES ASSUME TaskIInv, TaskNext PROVE TaskIInv'
  OBVIOUS
<1>1. CASE TaskBegin \/ TaskEnd
  BY <1>1, TaskBeginKeeps, TaskEndKeeps
<1>2. CASE TaskSafeguard("hard") \/ TaskSafeguard("soft")
  BY <1>2, TaskSafeguardStep
<1>3. CASE TaskPlan \/ TaskGitPlan \/ TaskStageCommitPlan \/ TaskReadOriginal
  BY <1>3, TaskPlanStep, TaskGitPlanStep, TaskStageCommitPlanStep, TaskReadOriginalStep
<1>4. CASE TaskCompare \/ TaskDelete
  BY <1>4, TaskCompareStep, TaskDeleteStep
<1>5. CASE TaskGuard \/ TaskActFails \/ TaskApplied
  BY <1>5, TaskGuardStep, TaskActFailsStep, TaskAppliedStep
<1>6. CASE TaskPrepare \/ TaskApply \/ TaskStage \/ TaskCommit
  BY <1>6, TaskPrepareStep, TaskApplyStep, TaskStageStep, TaskCommitKeeps
<1>7. CASE TaskPush \/ TaskRequest \/ TaskAction \/ TaskRestore
  BY <1>7, TaskPushStep, TaskRequestStep, TaskActionStep, TaskRestoreKeeps
<1>8. CASE \E f \in TaskFiles, line \in TaskLines : TaskOperatorSaves(f, {line})
  BY <1>8, TaskSavesKeeps
<1>9. CASE \E b \in TaskBranches : TaskOperatorCommits(b)
  BY <1>9, TaskCommitsKeeps
<1>10. QED BY <1>1, <1>2, <1>3, <1>4, <1>5, <1>6, <1>7, <1>8, <1>9 DEF TaskNext, TaskRuns

\* Nor does a step of another command
LEMMA TaskStays == TaskIInv /\ UNCHANGED taskVars => TaskIInv'
<1> SUFFICES ASSUME TaskIInv, UNCHANGED taskVars PROVE TaskIInv'
  OBVIOUS
<1>1. UNCHANGED <<taskOperations, taskJoined, taskIndex, taskAt, taskRun, taskBegan,
                  taskRepository, taskShared, taskOutside>>
  BY DEF taskVars, taskGiven
<1> USE DEF TaskIInv
<1>3. /\ taskOperation' = taskOperation /\ TaskPaths' = TaskPaths /\ TaskOwn' = TaskOwn
      /\ TaskByDefault' = TaskByDefault /\ TaskShown' = TaskShown /\ taskStep' = taskStep
      /\ TaskVouched' = TaskVouched /\ TaskCommitted' = TaskCommitted
  BY <1>1 DEF taskOperation, TaskPaths, TaskOwn, TaskIgnored, TaskByDefault, TaskShown, TaskVouched,
    TaskCommitted, taskStep
<1>4. TaskTypes' /\ TaskKindsOK' /\ TaskHeadOK'
  BY <1>1, <1>3 DEF TaskTypes, TaskKindsOK, TaskHeadOK, TaskExists
<1>5. TaskStepsOK' /\ TaskBranchesOK' /\ TaskRequestsOK'
  BY <1>1, <1>3 DEF TaskStepsOK, TaskBranchesOK, TaskRequestsOK
<1>6. TaskContentOK' /\ TaskCheckedOK' /\ TaskConsumedOK' /\ TaskCleanupOK'
  BY <1>1, <1>3 DEF TaskContentOK, TaskCheckedOK, TaskConsumedOK, TaskCleanupOK
<1>7. QED BY <1>4, <1>5, <1>6

\* What the invariant says of an operation that has ended
LEMMA TaskKeepsFollows == TaskIInv => TaskKeepsToItsWork
<1> SUFFICES ASSUME TaskIInv PROVE TaskKeepsToItsWork
  OBVIOUS
<1> USE DEF TaskIInv
<1>2. TaskComesBack
  BY DEF TaskComesBack, TaskHeadOK, TaskOver, TaskBranchesOK, TaskByDefault
<1>3. OnlyPlannedFilesAreCommitted
  <2> SUFFICES ASSUME taskAt = "end", taskRun.committed PROVE OnlyPlannedFilesAreCommitted
    BY DEF OnlyPlannedFilesAreCommitted
  <2> DEFINE changed == {f \in TaskFiles :
                           TaskCommitted[Len(TaskCommitted) - 1][f] # Last(TaskCommitted)[f]}
  <2>1. ASSUME TaskVouched, taskOperation.kind = "task" => taskOperation.steps = <<>>
        PROVE  changed \subseteq TaskOwn
    BY <2>1 DEF TaskContentOK
  <2>2. ASSUME taskOperation.kind = "task", taskOperation.clean, taskOperation.steps = <<>>
        PROVE  changed \subseteq TaskPaths \cup TaskIgnored
    BY <2>2, <2>1 DEF TaskVouched, TaskCheckedOK, TaskOwn
  <2>3. ASSUME taskOperation.kind = "stage-commit", taskRun.consumed # {},
               taskBegan.index = TaskHeadTree(taskBegan)
        PROVE  /\ changed \subseteq taskRun.consumed
               /\ taskOperation.paths # {} => changed \subseteq taskOperation.paths
    BY <2>3, <2>1 DEF TaskVouched, TaskIgnored, TaskOwn, TaskConsumedOK
  <2> HIDE DEF changed
  <2>4. /\ taskOperation.kind = "task" /\ taskOperation.clean /\ taskOperation.steps = <<>> =>
             changed \subseteq {taskRun.changes[i].path : i \in DOMAIN taskRun.changes}
                                 \cup TaskIgnored
        /\ (taskOperation.kind = "stage-commit" /\ taskRun.consumed # {}
              /\ taskBegan.index = TaskHeadTree(taskBegan)) =>
              /\ changed \subseteq taskRun.consumed
              /\ taskOperation.paths # {} => changed \subseteq taskOperation.paths
    BY <2>2, <2>3 DEF TaskPaths
  <2>5. QED BY <2>4, Zenon DEF OnlyPlannedFilesAreCommitted, changed, TaskCommitted
<1>4. RequestsShowTheBranch
  BY DEF RequestsShowTheBranch, TaskRequestsOK, TaskByDefault, TaskShown
<1>5. CleanupLosesNoCommits
  BY DEF CleanupLosesNoCommits, TaskCleanupOK
<1>6. QED BY <1>2, <1>3, <1>4, <1>5 DEF TaskKeepsToItsWork

----------------------------------------
\* WebWorkspace: the queue of the audit workspace

\* A function from paths to folders, as the disk and the rows of an inspection are
WebFolders(rows) ==
    /\ DOMAIN rows \subseteq Seq(WebNames) \ {<<>>}
    /\ \A p \in DOMAIN rows : rows[p] \in WebFolder

\* Folders are folders wherever they are held, changes are changes, and their ids
\* are those given so far.
WebTyped ==
    /\ webAt = "open" /\ webShown \in BOOLEAN /\ webApplying \in {"no", "serving", "refreshing"}
    /\ WebFolders(webDisk) /\ WebFolders(webRows)
    /\ \A r \in webInspections \cup webRefresh : WebFolders(r.rows)
    /\ webQueue \subseteq WebChange /\ IsFiniteSet(webQueue)
    /\ webNext \in 1 .. WebChangesLimit + 1 /\ \A c \in webQueue : c.id \in 1 .. webNext - 1
    /\ webUnresolved \subseteq 1 .. WebChangesLimit

\* A path has a change of a kind once.
WebOnce == \A c, d \in webQueue : c.path = d.path /\ c.kind = d.kind => c = d

\* What the server says of a change
WebResult == [id: Nat, status: {"failed", "skipped", "succeeded"}, acted: SUBSET Seq(WebNames)]

\* The batch is sorted, so that nothing comes after a move of its path, and the
\* results are those of its first changes.
WebBatchOK ==
    /\ webBatch \in Seq(WebChange)
    /\ webResults \in Seq(WebResult) /\ Len(webResults) <= Len(webBatch)
    /\ \A i, j \in DOMAIN webBatch : i < j /\ webBatch[i].path = webBatch[j].path =>
           webBatch[i].kind \notin {"delete", "rename"}

\* The inductive invariant of the workspace
WebIInv == WebTyped /\ WebOnce /\ QueueIsOfTheRows /\ WebBatchOK

\* Each kind has a place in the order.
LEMMA WebPriorities ==
    ASSUME NEW kind \in Range(WebKinds)
    PROVE  WebPriority(kind) \in 1 .. 7 /\ WebKinds[WebPriority(kind)] = kind
<1>1. DOMAIN WebKinds = 1 .. 7
  BY DEF WebKinds
<1>2. \E n \in DOMAIN WebKinds : WebKinds[n] = kind
  BY DEF Range
<1>3. QED BY <1>1, <1>2, Zenon DEF WebPriority

\* What comes after a deletion is a deletion or a renaming, and what comes after a
\* renaming is one.
LEMMA WebMovesLast ==
    ASSUME NEW c \in WebChange, NEW d \in WebChange, WebBefore(c, d)
    PROVE  /\ c # d
           /\ c.kind = "rename" => d.kind = "rename"
           /\ c.kind = "delete" => d.kind \in {"delete", "rename"}
<1>1. c.kind \in Range(WebKinds) /\ d.kind \in Range(WebKinds) /\ c.id \in Nat /\ d.id \in Nat
  BY DEF WebChange
<1> DEFINE m == WebPriority(c.kind)
           n == WebPriority(d.kind)
<1>2. m \in 1 .. 7 /\ n \in 1 .. 7 /\ WebKinds[m] = c.kind /\ WebKinds[n] = d.kind
  BY <1>1, WebPriorities
<1>3. m < n \/ (m = n /\ c.id < d.id)
  BY DEF WebBefore
<1>4. c # d
  BY <1>1, <1>2, <1>3
<1> HIDE DEF m, n
<1>5. c.kind = "rename" => m = 7
  BY <1>2 DEF WebKinds
<1>6. c.kind = "delete" => m = 6
  BY <1>2 DEF WebKinds
<1>7. m = 7 => n = 7
  BY <1>2, <1>3
<1>8. m = 6 => n \in {6, 7}
  BY <1>2, <1>3
<1>9. n = 7 => d.kind = "rename"
  BY <1>2 DEF WebKinds
<1>10. n = 6 => d.kind = "delete"
  BY <1>2 DEF WebKinds
<1>11. QED BY <1>4, <1>5, <1>6, <1>7, <1>8, <1>9, <1>10

\* In a batch made of a queue that is of the rows, moves come last.
LEMMA WebBatchSorted ==
    ASSUME webQueue \subseteq WebChange, IsFiniteSet(webQueue), WebOnce, QueueIsOfTheRows,
           NEW batch \in WebOrders(webQueue)
    PROVE  /\ batch \in Seq(WebChange)
           /\ \A i, j \in DOMAIN batch : i < j /\ batch[i].path = batch[j].path =>
                batch[i].kind \notin {"delete", "rename"}
BY FS_CardinalityType, WebMovesLast DEF WebOrders, QueueIsOfTheRows, WebOnce

\* An inspection finds folders that are there.
LEMMA WebInspectionIsOfFolders ==
    ASSUME NEW disk, WebFolders(disk), NEW of
    PROVE  WebFolders(WebInspection(disk, of))
<1> DEFINE paths == WebDiscovered(disk, of.roots)
                      \cup (IF of.all THEN WebAllFolders(disk, of.roots) ELSE {})
<1>1. paths \subseteq DOMAIN disk
  BY DEF WebDiscovered, WebRepositories, WebAllFolders
<1> HIDE DEF paths
<1>2. WebFolders([p \in paths |-> disk[p]])
  BY <1>1 DEF WebFolders
<1>3. QED BY <1>2 DEF WebInspection, paths

\* A change leaves a folder a folder.
LEMMA WebChangedIsAFolder ==
    ASSUME NEW change, NEW folder \in WebFolder
    PROVE  WebChanged(change, folder) \in WebFolder
BY DEF WebChanged, WebFolder, WebOther, WebProtocols

\* A folder that is renamed, or lies in one, has a path again.
LEMMA WebMovedPathIsAPath ==
    ASSUME NEW disk, WebFolders(disk), NEW acted \in SUBSET DOMAIN disk, NEW p \in DOMAIN disk
    PROVE  WebMovedPath(disk, acted, p) \in Seq(WebNames) \ {<<>>}
<1> DEFINE movers == {q \in acted : IsPrefix(q, p)}
           m == CHOOSE q \in movers : TRUE
<1>1. CASE movers = {}
  BY <1>1 DEF WebMovedPath, WebFolders
<1>2. CASE movers # {}
  <2>1. m \in movers
    BY <1>2
  <2> HIDE DEF m
  <2>2. /\ p \in Seq(WebNames) /\ m \in Seq(WebNames) /\ m # <<>>
        /\ disk[m].name \in WebNames /\ Len(m) <= Len(p)
    BY <2>1 DEF WebFolders, WebFolder, IsPrefix
  <2>3. Front(m) \in Seq(WebNames)
    BY <2>2 DEF Front
  <2>4. Append(Front(m), disk[m].name) \in Seq(WebNames) /\ Len(Append(Front(m), disk[m].name)) >= 1
    BY <2>2, <2>3
  <2>5. SubSeq(p, Len(m) + 1, Len(p)) \in Seq(WebNames)
    BY <2>2
  <2> DEFINE a == Append(Front(m), disk[m].name)
             b == SubSeq(p, Len(m) + 1, Len(p))
  <2> HIDE DEF a, b
  <2>6. a \in Seq(WebNames) /\ Len(a) >= 1 /\ b \in Seq(WebNames)
    BY <2>4, <2>5 DEF a, b
  <2>7. a \o b \in Seq(WebNames) \ {<<>>}
    BY <2>6, ConcatProperties
  <2>8. WebMovedPath(disk, acted, p) = a \o b
    BY <1>2 DEF WebMovedPath, a, b, m
  <2>9. QED BY <2>7, <2>8
<1>3. QED BY <1>1, <1>2

\* Whatever comes of a change, the disk has folders.
LEMMA WebOutcomesAreOfFolders ==
    ASSUME WebFolders(webDisk), NEW change, NEW outcome \in WebOutcomes(change)
    PROVE  /\ WebFolders(outcome.disk) /\ outcome.acted \subseteq DOMAIN webDisk
           /\ outcome.status \in {"failed", "skipped", "succeeded"}
<1>1. outcome.disk = webDisk => WebFolders(outcome.disk)
  OBVIOUS
<1>2. ASSUME NEW left \in SUBSET DOMAIN webDisk, outcome.disk = [p \in left |-> webDisk[p]]
      PROVE  WebFolders(outcome.disk)
  BY <1>2 DEF WebFolders
<1>3. ASSUME NEW acted \in SUBSET DOMAIN webDisk,
             outcome.disk = [p \in DOMAIN webDisk |->
                               IF p \in acted THEN WebChanged(change, webDisk[p]) ELSE webDisk[p]]
      PROVE  WebFolders(outcome.disk)
  BY <1>3, WebChangedIsAFolder DEF WebFolders
<1>4. ASSUME NEW acted \in SUBSET DOMAIN webDisk, outcome.disk = WebMoved(webDisk, acted)
      PROVE  WebFolders(outcome.disk)
  <2> DEFINE places == {WebMovedPath(webDisk, acted, q) : q \in DOMAIN webDisk}
             from(p) == CHOOSE q \in DOMAIN webDisk : WebMovedPath(webDisk, acted, q) = p
  <2>1. places \subseteq Seq(WebNames) \ {<<>>}
    BY WebMovedPathIsAPath
  <2>2. \A p \in places : from(p) \in DOMAIN webDisk
    OBVIOUS
  <2> HIDE DEF from, places
  <2>3. WebFolders([p \in places |-> webDisk[from(p)]])
    BY <2>1, <2>2 DEF WebFolders
  <2>4. QED BY <1>4, <2>3 DEF WebMoved, places, from
<1>5. CASE change.kind = "delete"
  BY <1>1, <1>2, <1>5 DEF WebOutcomes, WebDeleteOutcomes
<1>6. CASE change.kind \in {"commit", "changelog"}
  BY <1>6, WebChangedIsAFolder, <1>1 DEF WebOutcomes, WebMessageOutcomes, WebRepositories, WebFolders
<1>7. CASE change.kind \notin {"delete", "commit", "changelog"}
  <2> DEFINE scope == WebScopeOf(webDisk, change.path)
             tried(broken) == {p \in scope \ broken : WebNeeded(change, p, webDisk[p])}
             acted(broken) == {p \in tried(broken) : change.kind = "rename" =>
                     /\ ~\E q \in tried(broken) : IsStrictPrefix(q, p)
                     /\ Append(Front(p), webDisk[p].name) \notin DOMAIN webDisk}
  <2>1. PICK broken : outcome = WebWorkflowOutcome(change, scope, broken)
    BY <1>7 DEF WebOutcomes, WebWorkflowOutcomes
  <2>2. acted(broken) \in SUBSET DOMAIN webDisk
    BY DEF WebScopeOf, WebRepositories
  <2>3. outcome.disk = IF change.kind = "rename" THEN WebMoved(webDisk, acted(broken))
                       ELSE [p \in DOMAIN webDisk |-> IF p \in acted(broken)
                                                      THEN WebChanged(change, webDisk[p])
                                                      ELSE webDisk[p]]
    BY <2>1, Zenon DEF WebWorkflowOutcome
  <2>4. outcome.acted = acted(broken) /\ outcome.status \in {"failed", "skipped", "succeeded"}
    BY <2>1 DEF WebWorkflowOutcome
  <2> HIDE DEF acted
  <2>5. QED BY <1>3, <1>4, <2>2, <2>3, <2>4
<1>8. QED BY <1>5, <1>6, <1>7

\* What the invariant of the queue and of the batch speaks of
webPlanVars == <<webQueue, webNext, webRows, webBatch, webResults, webUnresolved>>

\* Initially, there are folders and no change.
LEMMA WebFirst == WebInit => WebIInv
<1> SUFFICES ASSUME WebInit PROVE WebIInv
  OBVIOUS
<1>1. PICK launch \in WebLaunches : webDisk = launch.disk
  BY DEF WebInit
<1>2. WebFolders(webDisk)
  BY <1>1, WebAssumption DEF WebFolders
<1>3. WebFolders(<<>>)
  BY DEF WebFolders
<1>4. /\ webAt = "open" /\ webRows = <<>> /\ webShown = FALSE /\ webQueue = {} /\ webNext = 1
      /\ webInspections = {} /\ webApplying = "no" /\ webBatch = <<>> /\ webResults = <<>>
      /\ webRefresh = {} /\ webUnresolved = {}
  BY DEF WebInit
<1>5. WebChangesLimit \in Nat /\ IsFiniteSet({})
  BY WebAssumption, FS_EmptySet
<1>6. WebTyped
  <2>1. \A r \in webInspections \cup webRefresh : WebFolders(r.rows)
    BY <1>4
  <2>2. webNext \in 1 .. WebChangesLimit + 1 /\ \A c \in webQueue : c.id \in 1 .. webNext - 1
    BY <1>4, <1>5
  <2>3. WebFolders(webRows)
    BY <1>3, <1>4
  <2>4. webQueue \subseteq WebChange /\ IsFiniteSet(webQueue)
    BY <1>4, <1>5
  <2>5. QED BY <1>2, <1>4, <2>1, <2>2, <2>3, <2>4 DEF WebTyped
<1>7. WebOnce /\ QueueIsOfTheRows
  BY <1>4 DEF WebOnce, QueueIsOfTheRows
<1>8. WebBatchOK
  BY <1>4 DEF WebBatchOK
<1>9. QED BY <1>6, <1>7, <1>8 DEF WebIInv

\* Neither the folder selected, nor the edits of the disk, nor requests and answers
\* that are not looked at yet concern the queue.
LEMMA WebAsideKeeps ==
    ASSUME WebIInv, UNCHANGED <<webAt, webPlanVars>>,
           webShown' \in BOOLEAN, webApplying' \in {"no", "serving", "refreshing"},
           WebFolders(webDisk'), \A r \in webInspections' \cup webRefresh' : WebFolders(r.rows)
    PROVE  WebIInv'
BY DEF webPlanVars, WebIInv, WebTyped, WebOnce, QueueIsOfTheRows, WebBatchOK

\* Part of a queue is as good as the queue, for rows which call for it.
LEMMA WebPartKeeps ==
    ASSUME WebIInv, NEW part \in SUBSET webQueue, webQueue' = part,
           UNCHANGED <<webAt, webDisk, webNext, webBatch, webResults>>,
           webShown' \in BOOLEAN, webApplying' \in {"no", "serving", "refreshing"},
           webUnresolved' \subseteq 1 .. WebChangesLimit, WebFolders(webRows'),
           \A r \in webInspections' \cup webRefresh' : WebFolders(r.rows),
           \A c \in part : c.path \in DOMAIN webRows' /\ WebMatches(c, webRows'[c.path])
    PROVE  WebIInv'
BY FS_Subset DEF WebIInv, WebTyped, WebOnce, QueueIsOfTheRows, WebBatchOK

\* The operator edits the disk.
LEMMA WebOperatorKeeps == WebIInv /\ WebOperator => WebIInv'
<1> SUFFICES ASSUME WebIInv, WebOperator PROVE WebIInv'
  OBVIOUS
<1>1. WebFolders(webDisk)
  BY DEF WebIInv, WebTyped
<1>2. PICK p \in DOMAIN webDisk :
          \/ webDisk' = [webDisk EXCEPT ![p].git = TRUE]
          \/ webDisk' = [webDisk EXCEPT ![p].dirty = ~@]
          \/ webDisk' = [q \in {r \in DOMAIN webDisk : ~IsPrefix(p, r)} |-> webDisk[q]]
  BY DEF WebOperator
<1>3. webDisk[p] \in WebFolder
  BY <1>1 DEF WebFolders
<1>4. [webDisk[p] EXCEPT !.git = TRUE] \in WebFolder
  BY <1>3 DEF WebFolder
<1>5. [webDisk[p] EXCEPT !.dirty = ~@] \in WebFolder
  BY <1>3 DEF WebFolder
<1>6. WebFolders(webDisk')
  BY <1>1, <1>4, <1>5, <1>2 DEF WebFolders
<1>7. QED BY <1>6, WebAsideKeeps DEF WebOperator, WebIInv, WebTyped, webPlanVars, webQueueVars

\* Folders are selected, inspections sent and answered.
LEMMA WebRequestKeeps == WebIInv /\ (WebSelect \/ WebInspect \/ WebAnswer) => WebIInv'
<1> SUFFICES ASSUME WebIInv, WebSelect \/ WebInspect \/ WebAnswer PROVE WebIInv'
  OBVIOUS
<1>1. /\ WebFolders(webDisk) /\ \A r \in webInspections \cup webRefresh : WebFolders(r.rows)
      /\ webShown \in BOOLEAN /\ webApplying \in {"no", "serving", "refreshing"}
  BY DEF WebIInv, WebTyped
<1>2. UNCHANGED <<webAt, webPlanVars, webDisk, webApplying>>
  BY DEF WebSelect, WebInspect, WebAnswer, webPlanVars, webQueueVars, webServerVars
<1>3. webShown' \in BOOLEAN
  BY <1>1 DEF WebSelect, WebInspect, WebAnswer
<1>4. \A r \in webInspections' \cup webRefresh' : WebFolders(r.rows)
  <2>1. CASE WebSelect
    BY <1>1, <2>1 DEF WebSelect
  <2>2. CASE WebInspect
    BY <1>1, <2>2 DEF WebFolders, WebInspect
  <2>3. CASE WebAnswer
    <3>1. \A r : WebFolders(WebAnswered(r).rows)
      BY <1>1, WebInspectionIsOfFolders DEF WebAnswered
    <3>2. CASE \E r \in webInspections :
             /\ ~r.answered
             /\ webInspections' = (webInspections \ {r}) \cup {WebAnswered(r)}
             /\ UNCHANGED webRefresh
      <4> HIDE DEF WebFolders
      <4>1. QED BY <1>1, <3>1, <3>2
    <3>3. CASE \E r \in webRefresh :
             /\ ~r.answered
             /\ webRefresh' = {WebAnswered(r)}
             /\ UNCHANGED webInspections
      BY <1>1, <3>1, <3>3
    <3>4. QED BY <2>3, <3>2, <3>3 DEF WebAnswer
  <2>4. QED BY <2>1, <2>2, <2>3
<1>5. QED BY <1>1, <1>2, <1>3, <1>4, WebAsideKeeps

\* A change is queued.
LEMMA WebQueueChangeKeeps == WebIInv /\ WebQueueChange => WebIInv'
<1> SUFFICES ASSUME WebIInv, WebQueueChange PROVE WebIInv'
  OBVIOUS
<1>1. /\ webNext <= WebChangesLimit /\ webNext' = webNext + 1
      /\ UNCHANGED <<webAt, webDisk, webRows, webShown, webInspections, webRefresh, webApplying,
                     webBatch, webResults, webUnresolved>>
  BY DEF WebQueueChange, webServerVars
<1>0. PICK p \in DOMAIN webRows : \E k \in WebOffered(p, webRows[p]) :
          /\ ~\E c \in webQueue : c.path = p /\ c.kind = k
          /\ webQueue' = webQueue \cup {WebBuild(webNext, p, k, webRows[p])}
  BY DEF WebQueueChange
<1>2. PICK k \in WebOffered(p, webRows[p]) :
          /\ ~\E c \in webQueue : c.path = p /\ c.kind = k
          /\ webQueue' = webQueue \cup {WebBuild(webNext, p, k, webRows[p])}
  BY <1>0
<1> DEFINE row == webRows[p]
           new == WebBuild(webNext, p, k, row)
<1>3. p \in Seq(WebNames) /\ row \in WebFolder
  BY DEF WebIInv, WebTyped, WebFolders
<1>4. k \in Range(WebKinds)
  BY DEF WebOffered, WebKinds, Range
<1>5. webNext \in Nat /\ WebChangesLimit \in Nat /\ webNext >= 1
  BY WebAssumption DEF WebIInv, WebTyped
<1>6. /\ new.id = webNext /\ new.path = p /\ new.kind = k
      /\ k = "protocol" => new.from = row.protocol
  BY DEF WebBuild
<1>7. new \in WebChange
  BY <1>3, <1>4, <1>5 DEF WebFolder, WebStrategies, WebBuild, WebChange
<1> HIDE DEF new, row
<1>8. webQueue' = webQueue \cup {new}
  BY <1>2 DEF new, row
<1>9. WebTyped'
  BY <1>8, FS_AddElement, <1>1, <1>5, <1>6, <1>7 DEF WebIInv, WebTyped
<1>10. WebOnce'
  BY <1>2, <1>6, <1>8 DEF WebIInv, WebOnce
<1>11. WebMatches(new, row)
  BY <1>2, <1>6 DEF WebMatches, row
<1>12. QueueIsOfTheRows'
  <2>1. \A c \in webQueue' : c.path \in DOMAIN webRows /\ WebMatches(c, webRows[c.path])
    BY <1>2, <1>6, <1>8, <1>11 DEF WebIInv, QueueIsOfTheRows, row
  <2>2. ASSUME NEW c \in webQueue', NEW d \in webQueue', c # d, c.path = d.path
        PROVE  c.kind # "delete"
    BY <2>1, <2>2, <1>10 DEF WebMatches, WebOffered, WebOnce
  <2>3. QED BY <1>1, <2>1, <2>2 DEF QueueIsOfTheRows
<1>13. WebBatchOK'
  BY <1>1 DEF WebIInv, WebBatchOK
<1>14. QED BY <1>9, <1>10, <1>12, <1>13 DEF WebIInv

\* An edited change is one of the same path and kind.
LEMMA WebEditedIsAChange ==
    ASSUME NEW c \in WebChange, NEW edited \in WebEdits(c)
    PROVE  /\ edited \in WebChange /\ edited.id = c.id /\ edited.path = c.path
           /\ edited.kind = c.kind /\ edited.from = c.from
<1>1. CASE c.kind = "delete"
  BY <1>1 DEF WebEdits, WebChange
<1>2. CASE c.kind = "rename"
  BY <1>2 DEF WebEdits, WebChange
<1>3. CASE c.kind = "sync"
  BY <1>3 DEF WebEdits, WebChange
<1>4. QED BY <1>1, <1>2, <1>3 DEF WebEdits

\* A change of the queue is edited.
LEMMA WebEditKeeps == WebIInv /\ WebEdit => WebIInv'
<1> SUFFICES ASSUME WebIInv, WebEdit PROVE WebIInv'
  OBVIOUS
<1>1. UNCHANGED <<webAt, webDisk, webRows, webShown, webInspections, webRefresh, webApplying,
                  webBatch, webResults, webUnresolved, webNext>>
  BY DEF WebEdit, webServerVars
<1>0. PICK c \in webQueue : \E edited \in WebEdits(c) : webQueue' = (webQueue \ {c}) \cup {edited}
  BY DEF WebEdit
<1>2. PICK edited \in WebEdits(c) : webQueue' = (webQueue \ {c}) \cup {edited}
  BY <1>0
<1>3. c \in WebChange
  BY DEF WebIInv, WebTyped
<1>4. /\ edited \in WebChange /\ edited.id = c.id /\ edited.path = c.path
      /\ edited.kind = c.kind /\ edited.from = c.from
  BY <1>3, WebEditedIsAChange
<1>5. WebTyped'
  BY <1>2, FS_AddElement, FS_RemoveElement, <1>1, <1>4 DEF WebIInv, WebTyped
<1>6. WebOnce'
  BY <1>2, <1>4 DEF WebIInv, WebOnce
<1>7. WebMatches(edited, webRows[edited.path]) /\ edited.path \in DOMAIN webRows
  BY <1>4 DEF WebIInv, QueueIsOfTheRows, WebMatches
<1>8. QueueIsOfTheRows'
  BY <1>1, <1>2, <1>7, <1>4 DEF WebIInv, QueueIsOfTheRows
<1>9. WebBatchOK'
  BY <1>1 DEF WebIInv, WebBatchOK
<1>10. QED BY <1>5, <1>6, <1>8, <1>9 DEF WebIInv

\* Changes leave the queue: the operator takes them out, they have succeeded, or the
\* rows have changed.
LEMMA WebShrinkKeeps == WebIInv /\ (WebRemove \/ WebInspected \/ WebServed \/ WebRefreshed) => WebIInv'
<1> SUFFICES ASSUME WebIInv, WebRemove \/ WebInspected \/ WebServed \/ WebRefreshed PROVE WebIInv'
  OBVIOUS
<1>1. /\ WebFolders(webRows) /\ \A r \in webInspections \cup webRefresh : WebFolders(r.rows)
      /\ webShown \in BOOLEAN /\ webApplying \in {"no", "serving", "refreshing"}
      /\ webUnresolved \subseteq 1 .. WebChangesLimit
      /\ \A c \in webQueue : c.path \in DOMAIN webRows /\ WebMatches(c, webRows[c.path])
  BY DEF WebIInv, WebTyped, QueueIsOfTheRows
<1>2. UNCHANGED <<webAt, webDisk, webNext, webBatch, webResults>>
  BY DEF WebRemove, WebInspected, WebServed, WebRefreshed, webServerVars
<1>3. CASE WebRemove
  <2>1. PICK gone : /\ webQueue' = {c \in webQueue : c.id \notin gone}
                    /\ webUnresolved' = webUnresolved \ gone
    BY <1>3 DEF WebRemove
  <2>2. UNCHANGED <<webRows, webShown, webInspections, webRefresh, webApplying>>
    BY <1>3 DEF WebRemove
  <2>3. QED BY <1>1, <1>2, <2>1, <2>2, WebPartKeeps
<1>4. CASE WebInspected
  <2>1. PICK r \in webInspections :
          /\ webInspections' = webInspections \ {r}
          /\ \/ /\ webRows' = r.rows /\ webShown' = TRUE
                /\ webQueue' = {} /\ webUnresolved' = {}
             \/ /\ webShown' = FALSE
                /\ UNCHANGED <<webRows, webQueue, webUnresolved>>
    BY <1>4 DEF WebInspected
  <2>2. UNCHANGED <<webRefresh, webApplying>>
    BY <1>4 DEF WebInspected
  <2>3. webInspections' \cup webRefresh' \subseteq webInspections \cup webRefresh
    BY <2>1, <2>2
  <2>4. webShown' \in BOOLEAN
    BY <2>1
  <2>5. WebFolders(webRows')
    BY <1>1, <2>1
  <2>6. CASE webQueue' = {} /\ webUnresolved' = {}
    BY <1>1, <1>2, <2>2, <2>3, <2>4, <2>5, <2>6, WebPartKeeps
  <2>7. CASE UNCHANGED <<webRows, webQueue, webUnresolved>>
    BY <1>1, <1>2, <2>2, <2>3, <2>4, <2>5, <2>7, WebPartKeeps
  <2>8. QED BY <2>1, <2>6, <2>7
<1>5. CASE WebServed
  <2>1. PICK done : /\ webQueue' = {c \in webQueue : c.id \notin done}
                    /\ webUnresolved' = WebIDs(webQueue') \cap WebIDs(Range(webBatch))
    BY <1>5 DEF WebServed
  <2>2. UNCHANGED <<webRows, webShown, webInspections>>
    BY <1>5 DEF WebServed
  <2>3. webUnresolved' \subseteq 1 .. WebChangesLimit
    BY <2>1, WebAssumption DEF WebIInv, WebTyped, WebIDs
  <2>4. webApplying' \in {"no", "serving", "refreshing"}
    BY <1>5 DEF WebServed
  <2>5. \A r \in webInspections' \cup webRefresh' : WebFolders(r.rows)
    BY <1>5, <1>1, <2>2 DEF WebServed, WebFolders
  <2>6. QED BY <1>1, <1>2, <2>1, <2>2, <2>3, <2>4, <2>5, WebPartKeeps
<1>6. CASE WebRefreshed
  <2>1. PICK r \in webRefresh :
          \/ /\ webRows' = r.rows /\ webShown' = TRUE
             /\ webQueue' = WebReconciled(webQueue, r.rows)
          \/ UNCHANGED <<webRows, webShown, webQueue>>
    BY <1>6 DEF WebRefreshed
  <2>2. /\ webRefresh' = {} /\ webApplying' = "no" /\ UNCHANGED <<webInspections, webUnresolved>>
    BY <1>6 DEF WebRefreshed
  <2>3. \A q \in webInspections' \cup webRefresh' : WebFolders(q.rows)
    BY <1>1, <2>2
  <2>4. webShown' \in BOOLEAN /\ WebFolders(webRows')
    BY <1>1, <2>1
  <2>5. CASE webRows' = r.rows /\ webQueue' = WebReconciled(webQueue, r.rows)
    BY <2>5, <1>1, <1>2, <2>2, <2>3, <2>4, WebPartKeeps DEF WebReconciled
  <2>6. CASE UNCHANGED <<webRows, webShown, webQueue>>
    BY <1>1, <1>2, <2>2, <2>3, <2>4, <2>6, WebPartKeeps
  <2>7. QED BY <2>1, <2>5, <2>6
<1>7. QED BY <1>3, <1>4, <1>5, <1>6

\* The queue is applied, in its order.
LEMMA WebApplyKeeps == WebIInv /\ (WebApply \/ WebServe \/ WebServedLost) => WebIInv'
<1> SUFFICES ASSUME WebIInv, WebApply \/ WebServe \/ WebServedLost PROVE WebIInv'
  OBVIOUS
<1>1. UNCHANGED <<webAt, webQueue, webNext, webUnresolved, webRows, webShown, webInspections,
                  webRefresh>>
  BY DEF WebApply, WebServe, WebServedLost, webQueueVars, webServerVars
<1>2. WebOnce' /\ QueueIsOfTheRows'
  BY <1>1 DEF WebIInv, WebOnce, QueueIsOfTheRows
<1>3. /\ WebFolders(webDisk) /\ webBatch \in Seq(WebChange)
      /\ webResults \in Seq(WebResult) /\ Len(webResults) <= Len(webBatch)
  BY DEF WebIInv, WebTyped, WebBatchOK
<1>4. WebFolders(webDisk')
  <2>1. CASE WebServe
    <3>1. PICK outcome \in WebOutcomes(webBatch[Len(webResults) + 1]) : webDisk' = outcome.disk
      BY <2>1 DEF WebServe
    <3>2. QED BY <1>3, <3>1, WebOutcomesAreOfFolders
  <2>2. CASE WebApply \/ WebServedLost
    BY <1>3, <2>2 DEF WebApply, WebServedLost, webServerVars
  <2>3. QED BY <2>1, <2>2
<1>5. webApplying' \in {"no", "serving", "refreshing"}
  BY DEF WebApply, WebServe, WebServedLost, WebIInv, WebTyped
<1>6. WebTyped'
  BY <1>1, <1>4, <1>5 DEF WebIInv, WebTyped
<1>7. WebBatchOK'
  <2>1. CASE WebApply
    BY <2>1, WebBatchSorted DEF WebApply, WebIInv, WebTyped, WebBatchOK
  <2>2. CASE WebServe
    <3> DEFINE change == webBatch[Len(webResults) + 1]
    <3>1. PICK outcome \in WebOutcomes(change) :
             webResults' = Append(webResults, [id |-> change.id, status |-> outcome.status,
                                               acted |-> outcome.acted])
      BY <2>2 DEF WebServe
    <3>2. webBatch' = webBatch /\ Len(webResults) < Len(webBatch)
      BY <2>2 DEF WebServe
    <3>3. change \in WebChange
      BY <1>3, <3>2
    <3>4. outcome.acted \subseteq Seq(WebNames) /\ outcome.status \in {"failed", "skipped", "succeeded"}
      BY <1>3, WebOutcomesAreOfFolders DEF WebFolders
    <3>5. [id |-> change.id, status |-> outcome.status, acted |-> outcome.acted] \in WebResult
      BY <3>3, <3>4 DEF WebChange, WebResult
    <3> HIDE DEF change
    <3>6. webResults' \in Seq(WebResult) /\ Len(webResults') <= Len(webBatch')
      BY <1>3, <3>1, <3>2, <3>5
    <3>7. QED BY <3>2, <3>6 DEF WebIInv, WebBatchOK
  <2>3. CASE WebServedLost
    BY <2>3 DEF WebServedLost, webServerVars, WebIInv, WebBatchOK
  <2>4. QED BY <2>1, <2>2, <2>3
<1>8. QED BY <1>2, <1>6, <1>7 DEF WebIInv

\* No step of the browser, the server or the operator breaks the invariant.
LEMMA WebNextKeeps == WebIInv /\ WebNextStep => WebIInv'
BY WebOperatorKeeps, WebRequestKeeps, WebQueueChangeKeeps, WebEditKeeps, WebShrinkKeeps, WebApplyKeeps DEF
  WebNextStep, WebRuns

\* Nor does a step of another command.
LEMMA WebStays == WebIInv /\ UNCHANGED webVars => WebIInv'
BY WebAsideKeeps DEF webVars, webPlanVars, WebIInv, WebTyped

\* The invariant says what is promised of the queue, and its type.
LEMMA WebKeepsFollows == WebIInv => QueueIsSound /\ WebTypeOK
BY WebAssumption DEF WebIInv, WebBatchOK, FixesComeBeforeMoves, WebTypeOK, WebTyped, WebFolders, QueueIsSound

========================================
