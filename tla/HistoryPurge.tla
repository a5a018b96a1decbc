----------------------------- MODULE HistoryPurge -----------------------------
(***************************************************************************)
(* gix files rm: the history of a repository is rewritten without some     *)
(* paths by git-filter-repo and, by default, forced upon the remote.  A    *)
(* branch is the set of its commits; a commit has a name and says what it  *)
(* holds of the paths: nothing, something beside other work, or nothing    *)
(* else.  git-filter-repo (not part of the repository) cleans every        *)
(* reference, makes a local branch of each origin/<branch> that has none,  *)
(* and removes origin.                                                     *)
(***************************************************************************)
EXTENDS FiniteSets, Functions

CONSTANTS
    PurgeBranches, PurgeRemotes,
    PurgeOrigin,          \* the remote git-filter-repo knows
    PurgeInvocations,     \* the purges asked for, and the repositories they meet
    PurgeLater            \* a commit a colleague pushes meanwhile

PurgeNoRemote == "none"
PurgeCommit(name, holds) == [name |-> name, holds |-> holds]

ASSUME PurgeAssumption ==
    /\ PurgeOrigin \in PurgeRemotes /\ PurgeNoRemote \notin PurgeRemotes
    /\ \A invocation \in PurgeInvocations :
          /\ invocation.requested \in PurgeRemotes \cup {PurgeNoRemote}
          /\ invocation.current \in PurgeBranches
          /\ {invocation.push, invocation.restore, invocation.missing,
              invocation.ignored} \subseteq BOOLEAN
          /\ DOMAIN invocation.heads \subseteq PurgeBranches
          /\ invocation.current \in DOMAIN invocation.heads
          /\ DOMAIN invocation.remote \subseteq PurgeBranches
          /\ DOMAIN invocation.upstream = DOMAIN invocation.heads
          /\ Range(invocation.upstream) \subseteq PurgeRemotes \cup {PurgeNoRemote}
          /\ invocation.configured \subseteq PurgeRemotes

VARIABLES
    purgeAsked, purgeAt,
    purgeRemoteName,    \* the remote the run works with
    purgeURLKnown,      \* the URL prepareRemote saved
    purgeConfigured,    \* the remotes the repository has
    purgeHeads,         \* local branch -> its commits
    purgeTracking,      \* branch -> its commits, of the remote's last fetch
    purgeRemote,        \* branch -> its commits on the server
    purgeUpstream,      \* local branch -> the remote it follows
    purgeEver,          \* the commits the server had, and those pushed to it later
    purgeInspected,     \* every rev-list of pathsInHistory could be run
    purgeLast           \* branches whose last writer is a colleague, not this run

purgeVars == <<purgeAsked, purgeAt, purgeRemoteName, purgeURLKnown, purgeConfigured,
               purgeHeads, purgeTracking, purgeRemote, purgeUpstream, purgeEver,
               purgeInspected, purgeLast>>

purgeServer == <<purgeRemote, purgeEver, purgeLast>>
purgeLocal == <<purgeHeads, purgeTracking, purgeUpstream, purgeConfigured>>
purgePlan == <<purgeAsked, purgeRemoteName, purgeURLKnown, purgeInspected>>

----------------------------------------

PurgeHolds(branches) == \E b \in DOMAIN branches : \E c \in branches[b] : c.holds # "none"

PurgeCleaned(branches) ==
    [b \in DOMAIN branches |->
        {PurgeCommit(c.name, "none") : c \in {d \in branches[b] : d.holds # "all"}}]

\* one function over another
PurgeOver(new, old) ==
    [b \in DOMAIN new \cup DOMAIN old |-> IF b \in DOMAIN new THEN new[b] ELSE old[b]]

\* detectRemote: the remote of the current branch's upstream
PurgeDetected(asked) == asked.upstream[asked.current]

\* prepareRemote
PurgeSelected(asked) ==
    IF asked.requested # PurgeNoRemote THEN asked.requested
    ELSE IF PurgeDetected(asked) # PurgeNoRemote THEN PurgeDetected(asked)
    ELSE PurgeOrigin

----------------------------------------

PurgeInit ==
    \E asked \in PurgeInvocations :
        /\ purgeAsked = asked
        /\ purgeAt = "prepare"
        /\ purgeRemoteName = PurgeNoRemote
        /\ purgeURLKnown = FALSE
        /\ purgeConfigured = asked.configured
        /\ purgeHeads = asked.heads
        /\ purgeTracking = <<>>
        /\ purgeRemote = asked.remote
        /\ purgeUpstream = asked.upstream
        /\ purgeEver = UNION Range(asked.remote)
        /\ purgeInspected = TRUE
        /\ purgeLast = {}

\* prepareRemote: the URL of a remote that is not configured stays unknown
PurgePrepare ==
    /\ purgeAt = "prepare"
    /\ purgeRemoteName' = PurgeSelected(purgeAsked)
    /\ purgeURLKnown' = (PurgeSelected(purgeAsked) \in purgeConfigured)
    /\ purgeAt' = "fetch"
    /\ UNCHANGED <<purgeAsked, purgeInspected, purgeLocal, purgeServer>>

PurgeFails(steps) ==
    /\ purgeAt \in steps
    /\ purgeAt' = "failed"

\* fetchRemoteRefs; a remote that is not there is an error
PurgeFetch ==
    /\ purgeAt = "fetch"
    /\ purgeRemoteName \in purgeConfigured
    /\ purgeTracking' = purgeRemote
    /\ purgeAt' = "ignore"
    /\ UNCHANGED <<purgePlan, purgeHeads, purgeUpstream, purgeConfigured, purgeServer>>

\* ensureGitIgnore: a .gitignore that lacks a path is completed and committed;
\* a refused commit is not noticed
PurgeIgnore ==
    /\ purgeAt = "ignore"
    /\ purgeAt' = "inspect"
    /\ IF purgeAsked.ignored THEN UNCHANGED purgeHeads
       ELSE \E committed \in BOOLEAN :
              purgeHeads' = IF committed
                            THEN [purgeHeads EXCEPT ![purgeAsked.current] =
                                    @ \cup {PurgeCommit("ignore", "none")}]
                            ELSE purgeHeads
    /\ UNCHANGED <<purgePlan, purgeTracking, purgeUpstream, purgeConfigured, purgeServer>>

\* Faulty variant for mutation: only the current branch is looked at.
PurgeSeenOnCurrent ==
    PurgeHolds([b \in {purgeAsked.current} |-> purgeHeads[b]])

\* rev-list --all: every reference of the repository
PurgeSeen == PurgeHolds(purgeHeads) \/ PurgeHolds(purgeTracking)

\* pathsInHistory: a rev-list that exits with an error is taken for no history
PurgeInspect ==
    /\ purgeAt = "inspect"
    /\ \E runs \in BOOLEAN :
          /\ purgeInspected' = runs
          /\ purgeAt' = IF runs /\ PurgeSeen THEN "filter" ELSE "skipped"
    /\ UNCHANGED <<purgeAsked, purgeRemoteName, purgeURLKnown, purgeLocal, purgeServer>>

\* Faulty variant for mutation: the new local branches are forgotten.
PurgeFollowedBefore(heads) ==
    [b \in DOMAIN purgeUpstream |->
        IF purgeUpstream[b] # PurgeOrigin THEN purgeUpstream[b] ELSE PurgeNoRemote]

\* removing a remote removes what its branches follow
PurgeFollowed(heads) ==
    [b \in DOMAIN heads |->
        IF b \in DOMAIN purgeUpstream /\ purgeUpstream[b] # PurgeOrigin
        THEN purgeUpstream[b] ELSE PurgeNoRemote]

\* runFilterRepo
PurgeFilter ==
    /\ purgeAt = "filter"
    /\ LET migrated == IF purgeRemoteName = PurgeOrigin THEN purgeTracking ELSE <<>>
           heads == PurgeOver(purgeHeads, migrated)
       IN /\ purgeHeads' = PurgeCleaned(heads)
          /\ purgeTracking' = IF purgeRemoteName = PurgeOrigin THEN <<>>
                              ELSE PurgeCleaned(purgeTracking)
          /\ purgeUpstream' = PurgeFollowed(heads)
    /\ purgeConfigured' = purgeConfigured \ {PurgeOrigin}
    /\ purgeAt' = "cleanup"
    /\ UNCHANGED <<purgePlan, purgeServer>>

\* cleanupFilterRepo, postRewriteHousekeeping: the old commits are gone
PurgeCleanup ==
    /\ purgeAt = "cleanup"
    /\ purgeAt' = "remote"
    /\ UNCHANGED <<purgePlan, purgeLocal, purgeServer>>

\* restoreRemote: nothing is noticed of a remote add that fails
PurgeRestoreRemote ==
    /\ purgeAt = "remote"
    /\ \E added \in BOOLEAN :
          purgeConfigured' = IF purgeURLKnown /\ added
                             THEN purgeConfigured \cup {purgeRemoteName} ELSE purgeConfigured
    /\ purgeAt' = IF purgeAsked.push THEN "push" ELSE IF purgeAsked.restore THEN "attach"
                  ELSE "purged"
    /\ UNCHANGED <<purgePlan, purgeHeads, purgeTracking, purgeUpstream, purgeServer>>

\* push --force --all: every local branch
PurgePushed == purgeHeads

\* forcePush: no lease is asked for
PurgePush ==
    /\ purgeAt = "push"
    /\ purgeRemoteName \in purgeConfigured
    /\ purgeRemote' = PurgeOver(PurgePushed, purgeRemote)
    /\ purgeLast' = purgeLast \ DOMAIN PurgePushed
    /\ purgeTracking' = PurgeOver(PurgePushed, purgeTracking)
    /\ purgeAt' = IF purgeAsked.restore THEN "attach" ELSE "purged"
    /\ UNCHANGED <<purgePlan, purgeHeads, purgeUpstream, purgeConfigured, purgeEver>>

\* restoreUpstreams and attachUpstream: fetch, then branch by branch
PurgeAttach ==
    /\ purgeAt = "attach"
    /\ purgeRemoteName \in purgeConfigured
    /\ LET missing == IF purgeAsked.missing THEN DOMAIN purgeHeads \ DOMAIN purgeRemote ELSE {}
           pushed == [b \in missing |-> purgeHeads[b]]
       IN /\ purgeRemote' = PurgeOver(pushed, purgeRemote)
          /\ purgeTracking' = PurgeOver(pushed, purgeRemote)
          /\ purgeUpstream' = [b \in DOMAIN purgeHeads |->
                IF b \in DOMAIN purgeRemote \cup missing THEN purgeRemoteName
                ELSE purgeUpstream[b]]
    /\ purgeAt' = "purged"
    /\ UNCHANGED <<purgePlan, purgeHeads, purgeConfigured, purgeEver, purgeLast>>

\* a step's command fails, and nothing of the following is done
PurgeFail ==
    /\ PurgeFails({"fetch", "ignore", "inspect", "filter", "cleanup", "push", "attach"})
    /\ UNCHANGED <<purgePlan, purgeLocal, purgeServer>>

\* a colleague pushes to the server
PurgeColleague ==
    /\ purgeAt \notin {"idle", "purged", "skipped", "failed"}
    /\ purgeLast = {}
    /\ \E b \in DOMAIN purgeRemote : \E holds \in {"none", "some"} :
          /\ purgeRemote' = [purgeRemote EXCEPT ![b] = @ \cup {PurgeCommit(PurgeLater, holds)}]
          /\ purgeEver' = purgeEver \cup {PurgeCommit(PurgeLater, holds)}
          /\ purgeLast' = {b}
    /\ UNCHANGED <<purgePlan, purgeLocal, purgeAt>>

\* The steps of gix itself
PurgeRuns ==
    \/ PurgePrepare \/ PurgeFetch \/ PurgeIgnore \/ PurgeInspect \/ PurgeFilter
    \/ PurgeCleanup \/ PurgeRestoreRemote \/ PurgePush \/ PurgeAttach \/ PurgeFail

PurgeNext == PurgeRuns \/ PurgeColleague

PurgeSpec == PurgeInit /\ [][PurgeNext]_purgeVars

----------------------------------------

PurgeTypeOK ==
    /\ purgeAsked \in PurgeInvocations
    /\ purgeAt \in {"idle", "prepare", "fetch", "ignore", "inspect", "filter", "cleanup",
                    "remote", "push", "attach", "purged", "skipped", "failed"}
    /\ purgeRemoteName \in PurgeRemotes \cup {PurgeNoRemote}
    /\ purgeConfigured \subseteq PurgeRemotes
    /\ DOMAIN purgeUpstream = DOMAIN purgeHeads
    /\ purgeLast \subseteq DOMAIN purgeRemote

\* A purge that is reported done with its push has left the paths in no branch
\* of the repository and, with origin, in no branch of the server but those a
\* colleague pushed to after the push: also not in branches that had no local
\* branch before (Execute).  And one that is skipped for want of history skips
\* nothing: no branch it has fetched holds the paths.
PurgeReportsTrue ==
    /\ purgeAt = "purged" =>
          /\ ~ PurgeHolds(purgeHeads)
          /\ (purgeAsked.push /\ purgeRemoteName = PurgeOrigin) =>
                \A b \in DOMAIN purgeRemote \ purgeLast :
                    \A c \in purgeRemote[b] : c.holds = "none"
    /\ (purgeAt = "skipped" /\ purgeInspected) =>
          ~ PurgeHolds(purgeHeads) /\ ~ PurgeHolds(purgeTracking)

\* "Purges paths from history using git-filter-repo and optionally force-pushes
\* updates" (README.md:649): of what the server held nothing else is removed.
PurgeRemovesOnlyPaths ==
    purgeAt = "purged" =>
        \A c \in {d \in purgeEver : d.holds # "all" /\ d.name # PurgeLater} :
            \E b \in DOMAIN purgeRemote : \E d \in purgeRemote[b] : d.name = c.name

========================================
