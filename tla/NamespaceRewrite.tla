--------------------------- MODULE NamespaceRewrite ---------------------------
(***************************************************************************)
(* The namespace rewrite of a Go repository: the files that name the old   *)
(* module prefix are found, and on a branch made for it rewritten, staged, *)
(* committed and pushed.  Of the paths a file names only their relation to *)
(* the old prefix matters: the prefix itself, a path below it, one that    *)
(* merely begins with the same letters, or what they are rewritten to.     *)
(***************************************************************************)
EXTENDS FiniteSets, Functions

CONSTANTS
    NamespaceFiles,        \* besides go.mod
    NamespaceInvocations   \* the requests, and the repositories they meet

NamespaceGoMod == "go.mod"
NamespaceAll == NamespaceFiles \cup {NamespaceGoMod}
NamespaceKinds == {"root", "below", "beside", "new root", "new below"}

\* A file is sound, or its imports cannot be parsed, or only what follows them;
\* and is an ordinary one, ignored by git, vendored, or of a nested repository.
ASSUME NamespaceAssumption ==
    /\ NamespaceGoMod \notin NamespaceFiles
    /\ \A invocation \in NamespaceInvocations :
          /\ invocation.names \in [NamespaceAll -> SUBSET {"root", "below", "beside"}]
          /\ invocation.parses \in [NamespaceAll -> {"all", "imports", "nothing"}]
          /\ invocation.place \in [NamespaceAll -> {"ordinary", "ignored", "vendored", "nested"}]
          /\ invocation.place[NamespaceGoMod] \in {"ordinary", "ignored"}
          /\ {invocation.clean, invocation.git, invocation.push, invocation.remote,
              invocation.identity, invocation.assumeYes, invocation.same} \subseteq BOOLEAN
          /\ invocation.guards \in {"pass", "hard", "soft"}

VARIABLES
    namespaceAsked, namespaceAt,
    namespacePlan,       \* the files of the change plan
    namespaceFiles,      \* file -> what it names, in the working tree
    namespaceIndex,      \* the same, of the index
    namespaceBranch,     \* "original" or the branch of the rewrite
    namespaceCommitted,  \* file -> what it names, in the head of the current branch
    namespacePushed,     \* the server has the branch at that commit
    namespaceVariable    \* namespace_branch_<owner>_<name> is set

namespaceVars == <<namespaceAsked, namespaceAt, namespacePlan, namespaceFiles, namespaceIndex,
                   namespaceBranch, namespaceCommitted, namespacePushed, namespaceVariable>>

----------------------------------------

\* namespaceReplacer.hasPrefix, for go.mod, and goFileImportsPrefix: a slash
\* must follow the prefix in a Go file
NamespaceTouched(file) == IF file = NamespaceGoMod THEN {"root", "below"} ELSE {"below"}

NamespaceNames(file) == namespaceFiles[file] \cap NamespaceTouched(file) # {}

\* namespaceReplacer.replace, rewriteGoMod, rewriteGoFile
NamespaceRewritten(file, names) ==
    { IF name \notin NamespaceTouched(file) THEN name
      ELSE IF name = "root" THEN "new root" ELSE "new below" : name \in names }

\* buildChangePlan walks all but vendor and what begins with .git
NamespaceWalked(asked) == {file \in NamespaceAll : asked.place[file] # "vendored"}

\* excludeIgnoredPlanEntries, CheckIgnoredPaths; what lies in a nested
\* repository is not ignored
NamespaceKept(asked, files) == {file \in files : asked.place[file] # "ignored"}

----------------------------------------

NamespaceInit ==
    \E asked \in NamespaceInvocations :
        /\ namespaceAsked = asked
        /\ namespaceAt = "guards"
        /\ namespacePlan = {}
        /\ namespaceFiles = asked.names
        /\ namespaceIndex = asked.names
        /\ namespaceBranch = "original"
        /\ namespaceCommitted = asked.names
        /\ namespacePushed = FALSE
        /\ namespaceVariable = FALSE

namespaceTree == <<namespaceFiles, namespaceIndex, namespaceBranch, namespaceCommitted>>
namespaceRest == <<namespaceAsked, namespacePushed, namespaceVariable>>

\* handleNamespaceRewriteAction: safeguards, the prompt, Options.sanitize
NamespaceGuard ==
    /\ namespaceAt = "guards"
    /\ \/ namespaceAsked.guards # "pass" /\ namespaceAt' = "skipped"
       \/ /\ namespaceAsked.guards = "pass"
          /\ ~ namespaceAsked.assumeYes
          /\ namespaceAt' = "skipped"                      \* declined
       \/ /\ namespaceAsked.guards = "pass"
          /\ namespaceAt' = IF namespaceAsked.same THEN "failed" ELSE "plan"
    /\ UNCHANGED <<namespacePlan, namespaceTree, namespaceRest>>

\* buildChangePlan and excludeIgnoredPlanEntries: one file whose imports cannot
\* be parsed fails the plan
NamespaceMakePlan ==
    /\ namespaceAt = "plan"
    /\ LET found == {file \in NamespaceWalked(namespaceAsked) : NamespaceNames(file)}
           plan == NamespaceKept(namespaceAsked, found)
       IN IF \E file \in NamespaceWalked(namespaceAsked) : namespaceAsked.parses[file] = "nothing"
          THEN namespaceAt' = "failed" /\ UNCHANGED namespacePlan
          ELSE /\ namespacePlan' = plan
               /\ namespaceAt' = IF plan = {} THEN "skipped" ELSE "branch"
    /\ UNCHANGED <<namespaceTree, namespaceRest>>

\* ensureGitRepository, CheckCleanWorktree, createBranch
NamespaceCreateBranch ==
    /\ namespaceAt = "branch"
    /\ \E created \in BOOLEAN :
          IF namespaceAsked.git /\ namespaceAsked.clean /\ created
          THEN namespaceBranch' = "rewrite" /\ namespaceAt' = "apply"
          ELSE namespaceAt' = "failed" /\ UNCHANGED namespaceBranch
    /\ UNCHANGED <<namespacePlan, namespaceFiles, namespaceIndex, namespaceCommitted,
                   namespaceRest>>

\* applyFileChanges: go.mod first, then file by file; the one that cannot be
\* parsed as a whole ends it
NamespaceApply ==
    /\ namespaceAt = "apply"
    /\ LET broken == {file \in namespacePlan : namespaceAsked.parses[file] = "imports"}
       IN \E written \in SUBSET namespacePlan :
             /\ written \cap broken = {}
             /\ written # {} => (NamespaceGoMod \in namespacePlan => NamespaceGoMod \in written)
             /\ namespaceFiles' = [file \in NamespaceAll |->
                   IF file \in written THEN NamespaceRewritten(file, namespaceFiles[file])
                   ELSE namespaceFiles[file]]
             /\ namespaceAt' = IF written = namespacePlan THEN "stage" ELSE "failed"
    /\ UNCHANGED <<namespacePlan, namespaceIndex, namespaceBranch, namespaceCommitted,
                   namespaceRest>>

\* Faulty variant for mutation: go.mod is not added.
NamespaceStagedGoFiles == namespacePlan \ {NamespaceGoMod}

\* stageChanges adds what the plan names
NamespaceStaged == namespacePlan

\* git add refuses a file of a nested repository
NamespaceStage ==
    /\ namespaceAt = "stage"
    /\ IF \E file \in NamespaceStaged : namespaceAsked.place[file] \in {"ignored", "nested"}
       THEN namespaceAt' = "failed" /\ UNCHANGED namespaceIndex
       ELSE /\ namespaceIndex' = [file \in NamespaceAll |->
                  IF file \in NamespaceStaged THEN namespaceFiles[file] ELSE namespaceIndex[file]]
            /\ namespaceAt' = "commit"
    /\ UNCHANGED <<namespacePlan, namespaceFiles, namespaceBranch, namespaceCommitted,
                   namespaceRest>>

\* hasStagedChanges, ensureGitIdentity, commitChanges
NamespaceCommit ==
    /\ namespaceAt = "commit"
    /\ \E committed \in BOOLEAN :
          IF namespaceIndex = namespaceCommitted
          THEN namespaceAt' = "skipped" /\ UNCHANGED namespaceCommitted
          ELSE IF namespaceAsked.identity /\ committed
          THEN /\ namespaceCommitted' = namespaceIndex
               /\ namespaceAt' = IF namespaceAsked.push THEN "push" ELSE "report"
          ELSE namespaceAt' = "failed" /\ UNCHANGED namespaceCommitted
    /\ UNCHANGED <<namespacePlan, namespaceFiles, namespaceIndex, namespaceBranch, namespaceRest>>

\* what the handler tells the later steps
NamespaceTells(pushed) == pushed

\* pushBranch; a remote that is not configured and a push that fails are logged
\* and the step is reported as done all the same
NamespacePush ==
    /\ namespaceAt = "push"
    /\ \E accepted \in BOOLEAN :
          /\ namespacePushed' = (namespaceAsked.remote /\ accepted)
          /\ namespaceVariable' = NamespaceTells(namespaceAsked.remote /\ accepted)
    /\ namespaceAt' = "report"
    /\ UNCHANGED <<namespaceAsked, namespacePlan, namespaceTree>>

\* the repository's inspection is refreshed
NamespaceReport ==
    /\ namespaceAt = "report"
    /\ namespaceAt' \in {"done", "failed"}
    /\ UNCHANGED <<namespacePlan, namespaceTree, namespaceRest>>

NamespaceNext ==
    \/ NamespaceGuard \/ NamespaceMakePlan \/ NamespaceCreateBranch \/ NamespaceApply
    \/ NamespaceStage \/ NamespaceCommit \/ NamespacePush \/ NamespaceReport

NamespaceSpec == NamespaceInit /\ [][NamespaceNext]_namespaceVars

----------------------------------------

NamespaceTypeOK ==
    /\ namespaceAsked \in NamespaceInvocations
    /\ namespaceAt \in {"idle", "guards", "plan", "branch", "apply", "stage", "commit", "push",
                        "report", "done", "skipped", "failed"}
    /\ namespacePlan \subseteq NamespaceAll
    /\ \A content \in {namespaceFiles, namespaceIndex, namespaceCommitted} :
          content \in [NamespaceAll -> SUBSET NamespaceKinds]
    /\ namespaceBranch \in {"original", "rewrite"}
    /\ {namespacePushed, namespaceVariable} \subseteq BOOLEAN

\* A rewrite reported as done has left nothing half done: all it rewrote is in
\* the commit of its branch, no file it may touch names a path below the old
\* prefix, what only resembles the prefix is as it was, and the branch a later
\* step finds in the variable is on the server (applyRewrite).  One that is
\* skipped has changed nothing.
RewriteIsWhole ==
    /\ namespaceAt = "done" =>
          /\ namespaceBranch = "rewrite"
          /\ namespaceFiles = namespaceIndex /\ namespaceIndex = namespaceCommitted
          /\ \A file \in NamespaceAll :
                /\ "below" \in namespaceFiles[file]
                      => namespaceAsked.place[file] \in {"ignored", "vendored"}
                /\ "beside" \in namespaceAsked.names[file] <=> "beside" \in namespaceFiles[file]
          /\ namespaceVariable => namespacePushed
    /\ namespaceAt = "skipped" =>
          /\ namespaceFiles = namespaceAsked.names /\ namespaceCommitted = namespaceAsked.names
          /\ namespaceBranch = "original"

\* "rewrites Go module namespaces from `github.com/temirov` to
\* `github.com/tyemirov`" (README.md:389): where go.mod has the new name of the
\* module, no file that was rewritten with it imports the module by its old one.
NoImportOfTheOldModule ==
    (namespaceAt = "done" /\ "new root" \in namespaceCommitted[NamespaceGoMod]) =>
        \A file \in namespacePlan : "root" \notin namespaceCommitted[file]

========================================
