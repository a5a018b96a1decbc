-------------------------- MODULE DefaultMigration --------------------------
(***************************************************************************)
(* gix default: the migration of one repository's default branch from a    *)
(* source to a target (internal/migrate), a series of local and remote     *)
(* writes, each of which may fail, also after it took effect (an answer    *)
(* that is lost), while colleagues push.  A branch is the set of its       *)
(* commits; two commits with the same effect (a commit and its squashed    *)
(* copy) make the same tree.                                               *)
(***************************************************************************)
EXTENDS Naturals, FiniteSets

CONSTANTS
    MigrateCommits,
    MigrateRewrite,      \* the commit that retargets the workflow files
    MigrateEffects, MigrateEffect,
    MigrateRequests,     \* pull requests
    MigrateAbsent,
    MigrateInvocations

MigrateBranches == {"source", "target"}
MigrateBranch == {MigrateAbsent} \cup SUBSET MigrateCommits

ASSUME MigrateAssumption ==
    /\ MigrateRewrite \in MigrateCommits
    /\ MigrateEffect \in [MigrateCommits -> MigrateEffects]
    /\ \A commits \in SUBSET MigrateCommits : commits # MigrateAbsent
    /\ MigrateInvocations \subseteq
         [local: [MigrateBranches -> MigrateBranch], remote: [MigrateBranches -> MigrateBranch],
          available: BOOLEAN,            \* origin is there and names a repository
          default: MigrateBranches, clean: BOOLEAN, requireClean: BOOLEAN, token: BOOLEAN,
          push: BOOLEAN, delete: BOOLEAN,
          files: {"none", "branches", "mentions"},   \* what workflow files say of the source
          pages: {"off", "source", "other"}, protected: BOOLEAN,
          requests: SUBSET MigrateRequests,   \* open, to the source
          promotion: SUBSET MigrateRequests,  \* from the target of this repository
          colleague: SUBSET MigrateCommits]   \* what a colleague may push

VARIABLES
    migrateAsked, migrateAt,
    migrateLocal, migrateRemote,   \* the two branches here and there
    migrateDefault,     \* the default branch on GitHub
    migratePages,
    migrateOpen,        \* the pull requests open to the source
    migrateListed,      \* those listed and not yet processed
    migrateClosed,      \* how many were listed and not closed
    migrateVerified,    \* SourceCommit
    migrateMissing,     \* SourceChangesMissing
    migrateFiles,       \* what the workflow files of the worktree say
    migrateEnabled,     \* remoteOperationsEnabled
    migrateGuarded,     \* branchProtected
    migrateDeleted,     \* what the deletion removed from the remote
    migrateOutcome

migrateGit == <<migrateLocal, migrateRemote>>
migrateHub == <<migrateDefault, migratePages, migrateOpen>>
migrateSeen == <<migrateListed, migrateClosed, migrateVerified, migrateMissing, migrateFiles,
                 migrateEnabled, migrateGuarded>>
migrateVars == <<migrateAsked, migrateAt, migrateGit, migrateHub, migrateSeen, migrateDeleted,
                 migrateOutcome>>

MigratePCs == {"begin", "local", "remote", "verify", "rewrite", "commit", "push", "pages", "default",
               "list", "requests", "protection", "delete", "prune", "review", "done"}

MigrateInit ==
    /\ migrateAsked \in MigrateInvocations
    /\ migrateAt = "begin"
    /\ migrateLocal = migrateAsked.local /\ migrateRemote = migrateAsked.remote
    /\ migrateDefault = migrateAsked.default /\ migratePages = migrateAsked.pages
    /\ migrateOpen = migrateAsked.requests /\ migrateListed = {} /\ migrateClosed = {}
    /\ migrateVerified = MigrateAbsent /\ migrateMissing = FALSE
    /\ migrateFiles = migrateAsked.files
    /\ migrateEnabled = migrateAsked.available /\ migrateGuarded = TRUE
    /\ migrateDeleted = MigrateAbsent /\ migrateOutcome = "none"

MigrateGoes(at) == migrateAt' = at /\ UNCHANGED migrateOutcome
MigrateEnds(outcome) == migrateAt' = "done" /\ migrateOutcome' = outcome

----------------------------------------
\* Locally

\* The operation skips a repository that defaults to the target; Execute wants a
\* clean worktree and, for a repository of GitHub, a token.
MigrateBegin ==
    /\ migrateAt = "begin"
    /\ LET refused == \/ migrateAsked.requireClean /\ ~migrateAsked.clean
                      \/ migrateAsked.available /\ ~migrateAsked.token
       IN \/ migrateDefault = "target" /\ MigrateGoes("review")
          \/ migrateDefault # "target" /\ refused /\ MigrateEnds("failed")
          \/ migrateDefault # "target" /\ ~refused /\ MigrateGoes("local")
    /\ UNCHANGED <<migrateAsked, migrateGit, migrateHub, migrateSeen, migrateDeleted>>

\* ensureLocalTargetBranch and the checkout
MigratePrepareLocal ==
    /\ migrateAt = "local"
    /\ LET prepared == IF migrateLocal["target"] # MigrateAbsent THEN migrateLocal
                       ELSE [migrateLocal EXCEPT !["target"] = migrateLocal["source"]]
       IN \/ /\ prepared["target"] # MigrateAbsent
             /\ migrateLocal' = prepared /\ MigrateGoes("remote")
          \/ migrateLocal' \in {migrateLocal, prepared} /\ MigrateEnds("failed")
    /\ UNCHANGED <<migrateAsked, migrateRemote, migrateHub, migrateSeen, migrateDeleted>>

\* A push without force of the target
MigratePushes ==
    /\ migrateRemote["target"] # MigrateAbsent => migrateRemote["target"] \subseteq migrateLocal["target"]
    /\ migrateRemote' = [migrateRemote EXCEPT !["target"] = migrateLocal["target"]]

\* ensureRemoteTargetBranch: a target that is missing, or that cannot be listed,
\* is pushed; a remote that cannot be read is passed over.
MigratePrepareRemote ==
    /\ migrateAt = "remote"
    /\ LET push == migrateAsked.push /\ migrateAsked.available
       IN /\ UNCHANGED migrateRemote \/ (push /\ MigratePushes)
          /\ MigrateGoes("verify") \/ (push /\ MigrateEnds("failed"))
    /\ UNCHANGED <<migrateAsked, migrateLocal, migrateHub, migrateSeen, migrateDeleted>>

\* sourceChangesMissingBetweenReferences: an ancestor, or no difference
MigrateTree(branch) == {MigrateEffect[c] : c \in branch}
MigrateLacks(source, target) ==
    ~(source \subseteq target) /\ MigrateTree(source) # MigrateTree(target)

MigrateDeletes == migrateAsked.delete /\ migrateAsked.available

\* verifyRemoteSourceDeletionSafety when the source is to be deleted, of the
\* remote branches just fetched; else the local ones are compared.
MigrateVerify ==
    /\ migrateAt = "verify"
    /\ LET refs == IF MigrateDeletes THEN migrateRemote ELSE migrateLocal
       IN \/ /\ \A b \in MigrateBranches : refs[b] # MigrateAbsent
             /\ migrateVerified' = IF MigrateDeletes THEN refs["source"] ELSE MigrateAbsent
             /\ migrateMissing' = MigrateLacks(refs["source"], refs["target"])
             /\ MigrateGoes("rewrite")
          \/ MigrateEnds("failed") /\ UNCHANGED <<migrateVerified, migrateMissing>>
    /\ UNCHANGED <<migrateAsked, migrateGit, migrateHub, migrateListed, migrateClosed,
                   migrateFiles, migrateEnabled, migrateGuarded, migrateDeleted>>

\* WorkflowRewriter: lists of branches are rewritten, other mentions stay.
MigrateRewriteFiles ==
    /\ migrateAt = "rewrite"
    /\ \/ migrateFiles = "branches" /\ migrateFiles' = "rewritten" /\ MigrateGoes("commit")
       \/ migrateFiles # "branches" /\ MigrateGoes("pages") /\ UNCHANGED migrateFiles
       \/ migrateFiles # "none" /\ migrateFiles' \in {migrateFiles, "rewritten"} /\ MigrateEnds("failed")
    /\ UNCHANGED <<migrateAsked, migrateGit, migrateHub, migrateListed, migrateClosed,
                   migrateVerified, migrateMissing, migrateEnabled, migrateGuarded, migrateDeleted>>

\* commitWorkflowChanges: a commit that git refuses is taken for nothing to commit.
MigrateCommit ==
    /\ migrateAt = "commit"
    /\ LET committed == [migrateLocal EXCEPT !["target"] = @ \cup {MigrateRewrite}]
       IN \/ /\ migrateLocal' = committed
             /\ MigrateGoes(IF migrateAsked.push /\ migrateAsked.available THEN "push" ELSE "pages")
          \/ /\ migrateLocal' \in {migrateLocal, committed}
             /\ MigrateGoes("pages") \/ MigrateEnds("failed")
    /\ UNCHANGED <<migrateAsked, migrateRemote, migrateHub, migrateSeen, migrateDeleted>>

MigratePush ==
    /\ migrateAt = "push"
    /\ \/ MigratePushes /\ MigrateGoes("pages")
       \/ (MigratePushes \/ UNCHANGED migrateRemote) /\ MigrateEnds("failed")
    /\ UNCHANGED <<migrateAsked, migrateLocal, migrateHub, migrateSeen, migrateDeleted>>

----------------------------------------
\* On GitHub

\* EnsureLegacyBranch: a failure ends the migration.
MigratePagesBranch ==
    /\ migrateAt = "pages"
    /\ LET updated == IF migratePages = "source" THEN "target" ELSE migratePages
       IN \/ ~migrateEnabled /\ MigrateGoes("delete") /\ UNCHANGED migratePages
          \/ migrateEnabled /\ migratePages' = updated /\ MigrateGoes("default")
          \/ migrateEnabled /\ migratePages' \in {migratePages, updated} /\ MigrateEnds("failed")
    /\ UNCHANGED <<migrateAsked, migrateGit, migrateDefault, migrateOpen, migrateSeen,
                   migrateDeleted>>

\* SetDefaultBranch: a repository GitHub does not know turns the rest off; any
\* other error is a DefaultBranchUpdateError, also if the branch was set.
MigrateSetDefault ==
    /\ migrateAt = "default"
    /\ \/ /\ migrateRemote["target"] # MigrateAbsent
          /\ migrateDefault' = "target" /\ UNCHANGED migrateEnabled
          /\ MigrateGoes("list") \/ MigrateEnds("update error")
       \/ migrateEnabled' = FALSE /\ MigrateGoes("delete") /\ UNCHANGED migrateDefault
       \/ MigrateEnds("update error") /\ UNCHANGED <<migrateDefault, migrateEnabled>>
    /\ UNCHANGED <<migrateAsked, migrateGit, migratePages, migrateOpen, migrateListed, migrateClosed,
                   migrateVerified, migrateMissing, migrateFiles, migrateGuarded, migrateDeleted>>

\* ListPullRequests: a failure is a warning, and an empty list.
MigrateList ==
    /\ migrateAt = "list"
    /\ \/ /\ migrateListed' = migrateOpen /\ migrateClosed' = migrateOpen
          /\ MigrateGoes("requests") /\ UNCHANGED migrateEnabled
       \/ MigrateGoes("requests") /\ UNCHANGED <<migrateListed, migrateClosed, migrateEnabled>>
       \/ /\ migrateEnabled' = FALSE /\ MigrateGoes("delete")
          /\ UNCHANGED <<migrateListed, migrateClosed>>
    /\ UNCHANGED <<migrateAsked, migrateGit, migrateHub, migrateVerified, migrateMissing,
                   migrateFiles, migrateGuarded, migrateDeleted>>

\* transitionPullRequests: a promotion is closed, any other gets the target as
\* its base; a failure is a warning.
MigrateTransition ==
    /\ migrateAt = "requests"
    /\ \/ /\ migrateListed = {} /\ MigrateGoes("protection")
          /\ UNCHANGED <<migrateOpen, migrateListed, migrateClosed>>
       \/ \E r \in migrateListed :
             /\ migrateListed' = migrateListed \ {r} /\ MigrateGoes("requests")
             /\ \/ /\ migrateOpen' = migrateOpen \ {r}
                   /\ \/ r \in migrateAsked.promotion /\ migrateClosed' = migrateClosed \ {r}
                      \/ UNCHANGED migrateClosed
                \/ UNCHANGED <<migrateOpen, migrateClosed>>
    /\ UNCHANGED <<migrateAsked, migrateGit, migrateDefault, migratePages, migrateVerified,
                   migrateMissing, migrateFiles, migrateEnabled, migrateGuarded, migrateDeleted>>

\* CheckBranchProtection: what cannot be told is protected.
MigrateProtection ==
    /\ migrateAt = "protection"
    /\ migrateGuarded' \in {migrateAsked.protected, TRUE}
    /\ MigrateGoes("delete")
    /\ UNCHANGED <<migrateAsked, migrateGit, migrateHub, migrateListed, migrateClosed,
                   migrateVerified, migrateMissing, migrateFiles, migrateEnabled, migrateDeleted>>

\* SafetyEvaluator: a pull request that got another base counts as open.
MigrateSafe ==
    /\ migrateClosed = {} /\ ~migrateGuarded
    /\ migrateFiles # "mentions" /\ ~migrateMissing

\* Faulty: without --force-with-lease, whatever the source has become.
MigrateDeleteAnyway ==
    /\ migrateAt = "delete" /\ MigrateDeletes /\ MigrateSafe
    /\ migrateRemote["source"] # MigrateAbsent
    /\ migrateDeleted' = migrateRemote["source"]
    /\ migrateRemote' = [migrateRemote EXCEPT !["source"] = MigrateAbsent]
    /\ MigrateGoes("prune")
    /\ UNCHANGED <<migrateAsked, migrateLocal, migrateHub, migrateSeen>>

\* deleteSourceBranch on the remote, only as it was verified; a failure is a
\* warning.
MigrateDeleteRemote ==
    /\ migrateAt = "delete"
    /\ \/ /\ MigrateDeletes /\ MigrateSafe /\ migrateRemote["source"] = migrateVerified
          /\ migrateDeleted' = migrateRemote["source"]
          /\ migrateRemote' = [migrateRemote EXCEPT !["source"] = MigrateAbsent]
          /\ MigrateGoes("prune") \/ MigrateGoes("review")
       \/ MigrateGoes("review") /\ UNCHANGED <<migrateRemote, migrateDeleted>>
    /\ UNCHANGED <<migrateAsked, migrateLocal, migrateHub, migrateSeen>>

\* git branch -D, the local source, whatever it holds
MigrateDeleteLocal ==
    /\ migrateAt = "prune"
    /\ migrateLocal' \in {migrateLocal, [migrateLocal EXCEPT !["source"] = MigrateAbsent]}
    /\ MigrateGoes("review")
    /\ UNCHANGED <<migrateAsked, migrateRemote, migrateHub, migrateSeen, migrateDeleted>>

\* RemoveBranchReviewBase and the refresh
MigrateReview ==
    /\ migrateAt = "review"
    /\ migrateOutcome' \in {"migrated", "unrecorded"} /\ migrateAt' = "done"
    /\ UNCHANGED <<migrateAsked, migrateGit, migrateHub, migrateSeen, migrateDeleted>>

\* A colleague pushes to either branch.
MigrateColleaguePushes(b, c) ==
    /\ migrateAt # "done" /\ migrateRemote[b] # MigrateAbsent /\ c \in migrateAsked.colleague
    /\ \A o \in MigrateBranches : migrateRemote[o] # MigrateAbsent => c \notin migrateRemote[o]
    /\ migrateRemote' = [migrateRemote EXCEPT ![b] = @ \cup {c}]
    /\ UNCHANGED <<migrateAsked, migrateAt, migrateLocal, migrateHub, migrateSeen, migrateDeleted,
                   migrateOutcome>>

\* The steps of gix itself
MigrateRuns ==
    \/ MigrateBegin \/ MigratePrepareLocal \/ MigratePrepareRemote \/ MigrateVerify
    \/ MigrateRewriteFiles \/ MigrateCommit \/ MigratePush \/ MigratePagesBranch
    \/ MigrateSetDefault \/ MigrateList \/ MigrateTransition \/ MigrateProtection
    \/ MigrateDeleteRemote \/ MigrateDeleteLocal \/ MigrateReview

MigrateNext ==
    \/ MigrateRuns
    \/ \E b \in MigrateBranches, c \in MigrateCommits : MigrateColleaguePushes(b, c)

----------------------------------------
\* Properties

MigrateTypeOK ==
    /\ migrateAt \in MigratePCs
    /\ migrateLocal \in [MigrateBranches -> MigrateBranch]
    /\ migrateRemote \in [MigrateBranches -> MigrateBranch]
    /\ migrateOpen \subseteq MigrateRequests /\ migrateListed \subseteq MigrateRequests
    /\ migrateVerified \in MigrateBranch

\* What is deleted on the remote is the commit that was verified, its changes
\* are in the target still, whatever colleagues pushed in between, and the
\* target is the default by then.
MigrateDeletesVerified ==
    migrateAt # "idle" /\ migrateDeleted # MigrateAbsent =>
        /\ migrateDeleted = migrateVerified /\ migrateDefault = "target"
        /\ migrateRemote["target"] # MigrateAbsent
        /\ MigrateTree(migrateDeleted) \subseteq MigrateTree(migrateRemote["target"])

\* A migration that ends with an error has touched no pull request and deleted
\* nothing, and the default branch is what it was, unless the error is that of
\* setting it: GitHub may have set it then, and a second run finds the target the
\* default and skips what the first did not come to (operations_migrate.go:163).
MigrateFailsEarly ==
    migrateAt = "done" /\ migrateOutcome \in {"failed", "update error"} =>
        /\ migrateOutcome = "failed" => migrateDefault = migrateAsked.default
        /\ migrateOpen = migrateAsked.requests
        /\ migrateLocal["source"] = migrateAsked.local["source"]
        /\ migrateDeleted = MigrateAbsent

\* README.md:661: "Gix retains a source branch that contains changes absent from
\* the target branch": the local one too.
SourceWorkIsRetained ==
    migrateAt = "done" /\ migrateAsked.local["source"] # MigrateAbsent
        /\ migrateLocal["source"] = MigrateAbsent =>
            MigrateTree(migrateAsked.local["source"])
              \subseteq UNION {MigrateTree(b) : b \in {migrateLocal["target"], migrateRemote["target"]}
                                                        \ {MigrateAbsent}}

\* docs/command_warning_matrix.md:13: a failing update of Pages is "Logged as
\* `PAGES-SKIP`; migration continues".
PagesAreNotFatal == [][migrateAt = "pages" => migrateAt' # "done"]_migrateVars

\* A migration deletes only what it has verified, and an error comes before it has
\* touched pull requests or the source, and before or at the new default.
MigrateIsSafe == MigrateDeletesVerified /\ MigrateFailsEarly
========================================
