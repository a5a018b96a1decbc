---------------------------- MODULE BranchCleanup ----------------------------
(***************************************************************************)
(* Service.Cleanup of internal/branches: the remote's heads and the closed *)
(* pull requests are listed once; every branch that has a closed pull      *)
(* request and a head is deleted, on the remote and then locally, after a  *)
(* confirmation.  Commands fail, and others go on working meanwhile.       *)
(***************************************************************************)
EXTENDS Naturals, Sequences, FiniteSets, SequencesExt

CONSTANTS
    CleanupBranches,
    CleanupLimit,        \* PullRequestLimit
    CleanupInvocations   \* [remote, local, head, closed, open, yes]: the
                         \* branches here and there, the one checked out, the
                         \* head branches of closed and of open pull requests,
                         \* and --yes

ASSUME CleanupAssumption ==
    /\ CleanupLimit \in Nat \ {0}
    /\ CleanupInvocations \subseteq
         [remote: SUBSET CleanupBranches, local: SUBSET CleanupBranches,
          head: CleanupBranches, closed: Seq(CleanupBranches),
          open: SUBSET CleanupBranches, yes: BOOLEAN]

VARIABLES
    cleanupAsked,
    cleanupAt,
    cleanupRemote, cleanupLocal,   \* the branches there are now
    cleanupListed,     \* remoteBranches, as listed
    cleanupLeft,       \* pullRequestBranches still to process, by their place in the list
    cleanupAll,        \* confirmAll
    cleanupFailed,     \* of the branch at hand: remote or local deletion failed
    cleanupAllowed,    \* the branches whose deletion was confirmed
    cleanupRevived,    \* pushed again by a colleague
    cleanupSummary

cleanupRefs == <<cleanupRemote, cleanupLocal>>
cleanupVars == <<cleanupAsked, cleanupAt, cleanupRefs, cleanupListed, cleanupLeft, cleanupAll,
                 cleanupFailed, cleanupAllowed, cleanupRevived, cleanupSummary>>

CleanupKinds == {"deleted", "missing", "declined", "failed"}

CleanupInit ==
    /\ cleanupAsked \in CleanupInvocations
    /\ cleanupAt = "list"
    /\ cleanupRemote = cleanupAsked.remote /\ cleanupLocal = cleanupAsked.local
    /\ cleanupListed = {} /\ cleanupLeft = {} /\ cleanupAll = FALSE
    /\ cleanupFailed = FALSE /\ cleanupAllowed = {} /\ cleanupRevived = {}
    /\ cleanupSummary = [kind \in CleanupKinds |-> {}]

\* Either listing may fail: nothing is deleted then.
CleanupListFails ==
    /\ cleanupAt \in {"list", "requests"}
    /\ cleanupAt' = "refused"
    /\ UNCHANGED <<cleanupAsked, cleanupRefs, cleanupListed, cleanupLeft, cleanupAll,
                   cleanupFailed, cleanupAllowed, cleanupRevived, cleanupSummary>>

\* git ls-remote --heads
CleanupListRemote ==
    /\ cleanupAt = "list"
    /\ cleanupListed' = cleanupRemote /\ cleanupAt' = "requests"
    /\ UNCHANGED <<cleanupAsked, cleanupRefs, cleanupLeft, cleanupAll, cleanupFailed,
                   cleanupAllowed, cleanupRevived, cleanupSummary>>

\* gh pr list --state closed --limit: the first ones, each branch once
CleanupFirst(closed) ==
    {i \in DOMAIN closed : i <= CleanupLimit /\ \A j \in 1 .. i - 1 : closed[j] # closed[i]}

CleanupListRequests ==
    /\ cleanupAt = "requests"
    /\ cleanupLeft' = CleanupFirst(cleanupAsked.closed)
    /\ cleanupAt' = "branch"
    /\ UNCHANGED <<cleanupAsked, cleanupRefs, cleanupListed, cleanupAll, cleanupFailed,
                   cleanupAllowed, cleanupRevived, cleanupSummary>>

cleanupBranch == cleanupAsked.closed[Min(cleanupLeft)]

CleanupCount(kind) ==
    /\ cleanupSummary' = [cleanupSummary EXCEPT ![kind] = @ \cup {cleanupBranch}]
    /\ cleanupLeft' = cleanupLeft \ {Min(cleanupLeft)}
    /\ cleanupAt' = "branch" /\ cleanupFailed' = FALSE

CleanupMissing ==
    /\ cleanupAt = "branch" /\ cleanupLeft # {} /\ cleanupBranch \notin cleanupListed
    /\ CleanupCount("missing")
    /\ UNCHANGED <<cleanupAsked, cleanupRefs, cleanupListed, cleanupAll, cleanupAllowed,
                   cleanupRevived>>

\* Confirm: yes, no, all the rest, or a prompt that fails
CleanupConfirm ==
    /\ cleanupAt = "branch" /\ cleanupLeft # {} /\ cleanupBranch \in cleanupListed
    /\ LET asks == ~(cleanupAsked.yes \/ cleanupAll)
       IN \/ /\ cleanupAt' = "remote"
             /\ cleanupAll' \in {cleanupAll} \cup (IF asks THEN {TRUE} ELSE {})
             /\ cleanupAllowed' = cleanupAllowed \cup {cleanupBranch}
             /\ UNCHANGED <<cleanupLeft, cleanupFailed, cleanupSummary>>
          \/ /\ asks
             /\ \E kind \in {"declined", "failed"} : CleanupCount(kind)
             /\ UNCHANGED <<cleanupAll, cleanupAllowed>>
    /\ UNCHANGED <<cleanupAsked, cleanupRefs, cleanupListed, cleanupRevived>>

\* git push --delete: a head that is gone already is no failure.
CleanupDeleteRemote ==
    /\ cleanupAt = "remote"
    /\ \/ cleanupRemote' = cleanupRemote \ {cleanupBranch} /\ UNCHANGED cleanupFailed
       \/ cleanupFailed' = TRUE /\ UNCHANGED cleanupRemote
    /\ cleanupAt' = "local"
    /\ UNCHANGED <<cleanupAsked, cleanupLocal, cleanupListed, cleanupLeft, cleanupAll,
                   cleanupAllowed, cleanupRevived, cleanupSummary>>

\* Faulty: a failed local deletion is forgotten.
CleanupDeleteLocalQuietly ==
    /\ cleanupAt = "local"
    /\ \/ cleanupLocal' = cleanupLocal \ {cleanupBranch}
       \/ UNCHANGED cleanupLocal
    /\ CleanupCount(IF cleanupFailed THEN "failed" ELSE "deleted")
    /\ UNCHANGED <<cleanupAsked, cleanupRemote, cleanupListed, cleanupAll, cleanupAllowed,
                   cleanupRevived>>

\* git branch -D, whatever became of the remote: the branch that is checked out
\* cannot be deleted.
CleanupDeleteLocal ==
    /\ cleanupAt = "local"
    /\ \/ /\ cleanupBranch \notin cleanupLocal \/ cleanupBranch # cleanupAsked.head
          /\ cleanupLocal' = cleanupLocal \ {cleanupBranch}
          /\ CleanupCount(IF cleanupFailed THEN "failed" ELSE "deleted")
       \/ /\ cleanupBranch \in cleanupLocal
          /\ CleanupCount("failed") /\ UNCHANGED cleanupLocal
    /\ UNCHANGED <<cleanupAsked, cleanupRemote, cleanupListed, cleanupAll, cleanupAllowed,
                   cleanupRevived>>

CleanupEnd ==
    /\ cleanupAt = "branch" /\ cleanupLeft = {}
    /\ cleanupAt' = "done"
    /\ UNCHANGED <<cleanupAsked, cleanupRefs, cleanupListed, cleanupLeft, cleanupAll,
                   cleanupFailed, cleanupAllowed, cleanupRevived, cleanupSummary>>

\* A colleague deletes a head on the remote, or pushes one again, once.
CleanupColleague(b) ==
    /\ cleanupRevived = {} /\ cleanupAt \notin {"done", "refused"}
    /\ cleanupRevived' = {b}
    /\ cleanupRemote' \in {cleanupRemote \ {b}, cleanupRemote \cup {b}}
    /\ UNCHANGED <<cleanupAsked, cleanupAt, cleanupLocal, cleanupListed, cleanupLeft,
                   cleanupAll, cleanupFailed, cleanupAllowed, cleanupSummary>>

\* The steps of gix itself
CleanupRuns ==
    \/ CleanupListFails \/ CleanupListRemote \/ CleanupListRequests
    \/ CleanupMissing \/ CleanupConfirm
    \/ CleanupDeleteRemote \/ CleanupDeleteLocal \/ CleanupEnd

CleanupNext ==
    \/ CleanupRuns
    \/ \E b \in CleanupBranches : CleanupColleague(b)

CleanupSpec == CleanupInit /\ [][CleanupNext]_cleanupVars

----------------------------------------
\* Properties

CleanupTypeOK ==
    /\ cleanupAt \in {"list", "requests", "branch", "remote", "local", "done", "refused"}
    /\ cleanupRemote \subseteq CleanupBranches /\ cleanupLocal \subseteq CleanupBranches
    /\ cleanupSummary \in [CleanupKinds -> SUBSET CleanupBranches]

\* processBranches counts every branch once and truly: what is reported deleted
\* is gone locally, and from the remote unless a colleague has pushed it again;
\* what was not confirmed (by --yes, a yes or an all) is still where it was; the
\* branch that is checked out is never among the deleted.
CleanupReportIsTrue ==
    cleanupAt # "idle" =>
    LET summary == cleanupSummary
        touched == (cleanupAsked.local \ cleanupLocal)
                     \cup ((cleanupAsked.remote \ cleanupRemote) \ cleanupRevived)
    IN /\ \A j, k \in CleanupKinds : j # k => summary[j] \cap summary[k] = {}
       /\ summary.deleted \cap cleanupLocal = {}
       /\ summary.deleted \cap cleanupRemote \subseteq cleanupRevived
       /\ touched \subseteq cleanupAllowed \cap Range(cleanupAsked.closed)
       /\ (summary.declined \cup summary.missing) \cap touched = {}
       /\ cleanupAt = "done" =>
            UNION Range(summary) = {cleanupAsked.closed[i] : i \in
               {j \in DOMAIN cleanupAsked.closed : j <= CleanupLimit}}

\* README.md:117 deletes branches "whose pull requests are already closed": not
\* the head of one that is open.
OpenWorkIsKept ==
    cleanupAt # "idle" =>
        cleanupAsked.open \cap cleanupAsked.remote \subseteq cleanupRemote \cup cleanupRevived
========================================
