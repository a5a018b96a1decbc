----------------------------- MODULE WebWorkspace -----------------------------
(***************************************************************************)
(* gix --web: the browser's audit workspace and the server behind it.  The *)
(* browser holds the rows of the last inspection and a queue of changes;   *)
(* the server inspects, and applies a batch one change after the other.    *)
(* Requests are answered late: the operator goes on editing the queue, and *)
(* the folders on the disk change meanwhile.  A path is the sequence of    *)
(* its names.                                                              *)
(***************************************************************************)
EXTENDS Naturals, Sequences, FiniteSets, SequencesExt

CONSTANTS
    WebLaunches,      \* --roots and the working directory, the disk, and two bounds:
                      \* changes the operator makes on the disk himself (edits),
                      \* inspections and applies sent (requests)
    WebNames,
    WebChangesLimit   \* bound: changes ever queued

WebKinds == <<"canonical", "protocol", "sync", "changelog", "commit", "delete", "rename">>
WebStrategies == {"require_clean", "stash_changes", "commit_changes"}
WebProtocols == {"ssh", "https"}
WebNoProtocol == "none"   \* origin is missing

WebFolder == [git: BOOLEAN, name: WebNames, canonical: BOOLEAN,
              protocol: WebProtocols \cup {WebNoProtocol},
              synced: BOOLEAN, dirty: BOOLEAN, tagged: BOOLEAN]

ASSUME WebAssumption ==
    /\ WebChangesLimit \in Nat
    /\ \A l \in WebLaunches :
          /\ DOMAIN l = {"disk", "roots", "cwd", "edits", "requests"}
          /\ {l.edits, l.requests} \subseteq Nat
          /\ DOMAIN l.disk \subseteq Seq(WebNames) \ {<<>>}
          /\ \A p \in DOMAIN l.disk : l.disk[p] \in WebFolder
          /\ l.roots \subseteq Seq(WebNames) /\ IsFiniteSet(l.roots)
          /\ l.cwd \in Seq(WebNames)

VARIABLES
    webAt,           \* "idle", "open"
    webDisk,         \* path :> folder
    webExplorer,     \* the roots of the explorer
    webScope,        \* the roots selected for the next inspection
    webRows,         \* path :> folder, as last inspected
    webRowsOf,       \* the request those rows answer
    webShown,        \* the table is visible
    webQueue,        \* state.auditQueue: a set, its order is that of the ids
    webNext,         \* state.nextAuditChangeSequence
    webInspections,  \* inspections under way: [of, rows]
    webApplying,     \* "no", "serving", "refreshing"
    webBatch,        \* the changes of the last apply, in the server's order
    webResults,      \* what the server has said of each: [id, status, acted]
    webRefresh,      \* the inspection that follows an apply
    webUnresolved,   \* changes not succeeded that nobody has taken from the queue
    webEdits, webRequests   \* how many are left

webVars == <<webAt, webDisk, webExplorer, webScope, webRows, webRowsOf, webShown, webQueue,
             webNext, webInspections, webApplying, webBatch, webResults, webRefresh,
             webUnresolved, webEdits, webRequests>>

webServerVars == <<webDisk, webBatch, webResults>>
webQueueVars == <<webQueue, webNext, webUnresolved>>

----------------------------------------
\* Folders

WebRepositories(disk) == {p \in DOMAIN disk : disk[p].git}

\* DiscoverRepositories: the walk goes on below a repository
WebDiscovered(disk, roots) ==
    {p \in WebRepositories(disk) : \E r \in roots : IsPrefix(r, p)}

WebWithin(disk, path) == \E q \in WebRepositories(disk) : IsStrictPrefix(q, path)

\* the directories right under a root, when all folders are asked for
WebAllFolders(disk, roots) ==
    {p \in DOMAIN disk : Front(p) \in roots /\ ~WebWithin(disk, p)}

\* newWebAuditInspector and DiscoverInspections
WebInspection(disk, of) ==
    LET paths == WebDiscovered(disk, of.roots)
                   \cup (IF of.all THEN WebAllFolders(disk, of.roots) ELSE {})
    IN [p \in paths |-> disk[p]]

\* a repository without origin keeps its name
WebNameMatches(path, folder) ==
    folder.protocol = WebNoProtocol \/ folder.name = Last(path)

\* the explorer lists the folders that lead to a repository
WebListed(disk, roots) ==
    UNION {{SubSeq(p, 1, n) : n \in {m \in 1 .. Len(p) : SubSeq(p, 1, m) \notin roots
                                         /\ \E r \in roots : IsPrefix(r, SubSeq(p, 1, m))}}
           : p \in WebRepositories(disk)}

\* resolveWebLaunchRoots and repositoryCatalog: --roots, or the repository the
\* command is started in, or the working directory
WebCatalogRoots(launch) ==
    LET around == {p \in WebRepositories(launch.disk) : IsPrefix(p, launch.cwd)}
        innermost == {p \in around : \A q \in around : Len(q) <= Len(p)}
    IN IF launch.roots # {} THEN launch.roots
       ELSE IF around # {} THEN innermost
       ELSE {launch.cwd}

----------------------------------------
\* The actions a row offers, and the changes they build

\* (a repository is on the default branch of its remote: off it, or where that
\* branch is not known, the page offers neither a sync nor a changelog)
WebOffered(path, row) ==
    IF ~row.git THEN {"delete"}
    ELSE {k \in {"rename", "canonical", "protocol", "sync", "changelog", "commit"} :
            CASE k = "rename" -> ~WebNameMatches(path, row)
              [] k = "canonical" -> row.protocol # WebNoProtocol /\ ~row.canonical
              [] k = "protocol" -> row.protocol \in WebProtocols
              [] k = "sync" -> row.protocol = "ssh" /\ ~row.synced
              [] k = "changelog" -> row.dirty /\ ~row.tagged
              [] OTHER -> row.dirty}

WebOther(protocol) == IF protocol = "ssh" THEN "https" ELSE "ssh"

WebBuild(id, path, kind, row) ==
    [id |-> id, kind |-> kind, path |-> path,
     from |-> IF kind = "protocol" THEN row.protocol ELSE WebNoProtocol,
     confirm |-> FALSE, clean |-> kind = "rename", strategy |-> "require_clean"]

WebChange == [id: Nat, kind: Range(WebKinds), path: Seq(WebNames),
              from: WebProtocols \cup {WebNoProtocol}, confirm: BOOLEAN,
              clean: BOOLEAN, strategy: WebStrategies]

WebMatches(change, row) ==
    /\ change.kind \in WebOffered(change.path, row)
    /\ change.kind = "protocol" => change.from = row.protocol

WebIDs(queue) == {c.id : c \in queue}

\* Faulty variant for mutation: any change of a path that is still listed stays.
WebReconciledLightly(queue, rows) ==
    {c \in queue : c.path \in DOMAIN rows}

\* reconcileAuditQueueToInspection
WebReconciled(queue, rows) ==
    {c \in queue : c.path \in DOMAIN rows /\ WebMatches(c, rows[c.path])}

WebCanApply(queue) == \A c \in queue : c.kind = "delete" => c.confirm

\* webAuditChangePriority, and the same order in the browser
WebPriority(kind) == CHOOSE n \in DOMAIN WebKinds : WebKinds[n] = kind

WebBefore(c, d) ==
    \/ WebPriority(c.kind) < WebPriority(d.kind)
    \/ WebPriority(c.kind) = WebPriority(d.kind) /\ c.id < d.id

\* sortAuditQueueForApply: the stable order, of which there is one
WebOrders(queue) ==
    {batch \in [1 .. Cardinality(queue) -> queue] :
        \A i, j \in DOMAIN batch : i < j => WebBefore(batch[i], batch[j])}

----------------------------------------
\* The server: one change

WebScopeOf(disk, path) == {p \in WebRepositories(disk) : IsPrefix(path, p)}

\* what the operation finds to do in a repository
WebNeeded(change, path, folder) ==
    CASE change.kind = "canonical" -> folder.protocol # WebNoProtocol /\ ~folder.canonical
      [] change.kind = "protocol" -> folder.protocol = change.from
      [] change.kind = "rename" -> ~WebNameMatches(path, folder)
                                     /\ (change.clean => ~folder.dirty)
      [] OTHER -> TRUE

WebRefused(change, folder) ==
    \/ change.kind = "sync" /\ (folder.protocol = WebNoProtocol
                                \/ (change.strategy = "require_clean" /\ folder.dirty))
    \/ change.kind = "changelog" /\ folder.tagged
    \/ change.kind = "commit" /\ ~folder.dirty

WebChanged(change, folder) ==
    CASE change.kind = "canonical" -> [folder EXCEPT !.canonical = TRUE]
      [] change.kind = "protocol" -> [folder EXCEPT !.protocol = WebOther(@)]
      [] change.kind = "sync" ->
           [folder EXCEPT !.synced = TRUE, !.dirty = @ /\ change.strategy # "commit_changes"]
      [] change.kind = "changelog" -> [folder EXCEPT !.dirty = TRUE]
      [] change.kind = "commit" -> [folder EXCEPT !.dirty = FALSE, !.synced = FALSE,
                                                  !.tagged = FALSE]
      [] OTHER -> folder

WebMovedPath(disk, acted, p) ==
    LET movers == {q \in acted : IsPrefix(q, p)}
        q == CHOOSE m \in movers : TRUE
    IN IF movers = {} THEN p
       ELSE Append(Front(q), disk[q].name) \o SubSeq(p, Len(q) + 1, Len(p))

WebMoved(disk, acted) ==
    [p \in {WebMovedPath(disk, acted, q) : q \in DOMAIN disk} |->
        disk[CHOOSE q \in DOMAIN disk : WebMovedPath(disk, acted, q) = p]]

\* applyWebAuditChange for a deletion: outcomes [status, acted, disk]
WebDeleteOutcomes(change) ==
    LET under == {p \in DOMAIN webDisk : IsPrefix(change.path, p)}
        left == [p \in DOMAIN webDisk \ under |-> webDisk[p]]
    IN {[status |-> "failed", acted |-> {}, disk |-> webDisk]}
         \cup (IF change.confirm /\ change.path # <<>>
               THEN {[status |-> "succeeded", acted |-> under, disk |-> left]} ELSE {})

\* applyWebAuditCommitChanges and applyWebAuditUpdateChangelog: in the folder itself
WebMessageOutcomes(change) ==
    {[status |-> "failed", acted |-> {}, disk |-> webDisk]}
      \cup (IF change.path \in WebRepositories(webDisk)
                 /\ ~WebRefused(change, webDisk[change.path])
            THEN {[status |-> "succeeded", acted |-> {change.path},
                   disk |-> [webDisk EXCEPT ![change.path] = WebChanged(change, @)]]}
            ELSE {})

\* executeWebAuditWorkflowChange: an executor over the path as its only root
WebWorkflowOutcome(change, scope, broken) ==
    LET tried == {p \in scope \ broken : WebNeeded(change, p, webDisk[p])}
        renaming == change.kind = "rename"
        \* the parent is renamed first, and the path of what lies in it is old
        acted == {p \in tried : renaming =>
                     /\ ~\E q \in tried : IsStrictPrefix(q, p)
                     /\ Append(Front(p), webDisk[p].name) \notin DOMAIN webDisk}
    IN [status |-> IF broken # {} THEN "failed"
                   ELSE IF acted # scope THEN "skipped" ELSE "succeeded",
        acted |-> acted,
        disk |-> IF renaming THEN WebMoved(webDisk, acted)
                 ELSE [p \in DOMAIN webDisk |-> IF p \in acted THEN WebChanged(change, webDisk[p])
                                                ELSE webDisk[p]]]

WebWorkflowOutcomes(change) ==
    LET scope == WebScopeOf(webDisk, change.path)
        refused == {p \in scope : WebRefused(change, webDisk[p])}
    IN {WebWorkflowOutcome(change, scope, refused \cup more) : more \in SUBSET scope}

WebOutcomes(change) ==
    CASE change.kind = "delete" -> WebDeleteOutcomes(change)
      [] change.kind \in {"commit", "changelog"} -> WebMessageOutcomes(change)
      [] OTHER -> WebWorkflowOutcomes(change)

----------------------------------------

WebNoRequest == [roots |-> {}, all |-> FALSE]

WebInit ==
    /\ webAt = "open"
    /\ \E launch \in WebLaunches :
          /\ webDisk = launch.disk
          /\ webExplorer = WebCatalogRoots(launch)
          /\ webScope = WebCatalogRoots(launch)
          /\ webEdits = launch.edits /\ webRequests = launch.requests
    /\ webRows = <<>> /\ webRowsOf = WebNoRequest /\ webShown = FALSE
    /\ webQueue = {} /\ webNext = 1 /\ webInspections = {} /\ webApplying = "no"
    /\ webBatch = <<>> /\ webResults = <<>> /\ webRefresh = {} /\ webUnresolved = {}

\* a folder of the explorer is selected
WebSelect ==
    /\ webAt = "open"
    /\ \E p \in WebListed(webDisk, webExplorer) : webScope' = {p} /\ webScope # {p}
    /\ UNCHANGED <<webAt, webServerVars, webQueueVars, webExplorer, webRows, webRowsOf, webShown,
                   webInspections, webApplying, webRefresh, webEdits, webRequests>>

\* the operator works on the disk himself
WebOperator ==
    /\ webAt = "open"
    /\ webEdits > 0
    /\ \E p \in DOMAIN webDisk :
          \/ ~webDisk[p].git /\ webDisk' = [webDisk EXCEPT ![p].git = TRUE]
          \/ webDisk[p].git /\ webDisk' = [webDisk EXCEPT ![p].dirty = ~@]
          \/ webDisk' = [q \in {r \in DOMAIN webDisk : ~IsPrefix(p, r)} |-> webDisk[q]]
    /\ webEdits' = webEdits - 1
    /\ UNCHANGED <<webAt, webBatch, webResults, webQueueVars, webExplorer, webScope, webRows,
                   webRowsOf, webShown, webInspections, webApplying, webRefresh, webRequests>>

\* inspectAuditRoots: the request.  The button is enabled again by a new scope.
WebInspect ==
    /\ webAt = "open"
    /\ webRequests > 0
    /\ webScope # {}
    /\ webInspections = {} \/ \A r \in webInspections : r.of.roots # webScope
    /\ \E all \in BOOLEAN :
          webInspections' = webInspections \cup
              {[of |-> [roots |-> webScope, all |-> all], answered |-> FALSE, rows |-> <<>>]}
    /\ webShown' = FALSE
    /\ webRequests' = webRequests - 1
    /\ UNCHANGED <<webAt, webServerVars, webQueueVars, webExplorer, webScope, webRows, webRowsOf,
                   webApplying, webRefresh, webEdits>>

WebAnswered(r) == [of |-> r.of, answered |-> TRUE, rows |-> WebInspection(webDisk, r.of)]

\* handleInspectAudit
WebAnswer ==
    /\ \/ \E r \in webInspections :
             /\ ~r.answered
             /\ webInspections' = (webInspections \ {r}) \cup {WebAnswered(r)}
             /\ UNCHANGED webRefresh
       \/ \E r \in webRefresh :
             /\ ~r.answered
             /\ webRefresh' = {WebAnswered(r)}
             /\ UNCHANGED webInspections
    /\ UNCHANGED <<webAt, webServerVars, webQueueVars, webExplorer, webScope, webRows, webRowsOf,
                   webShown, webApplying, webEdits, webRequests>>

\* inspectAuditRoots: the answer, or an error
WebInspected ==
    /\ \E r \in webInspections :
          /\ webInspections' = webInspections \ {r}
          /\ \/ /\ r.answered
                /\ webRows' = r.rows /\ webRowsOf' = r.of /\ webShown' = TRUE
                /\ webQueue' = {} /\ webUnresolved' = {}
             \/ /\ webShown' = FALSE
                /\ UNCHANGED <<webRows, webRowsOf, webQueue, webUnresolved>>
    /\ UNCHANGED <<webAt, webServerVars, webNext, webExplorer, webScope, webApplying, webRefresh,
                   webEdits, webRequests>>

----------------------------------------
\* The operator at the queue

\* handleAuditResultsClick and queueAuditChange
WebQueueChange ==
    /\ webAt = "open"
    /\ webShown
    /\ webNext <= WebChangesLimit
    /\ \E p \in DOMAIN webRows : \E k \in WebOffered(p, webRows[p]) :
          /\ ~\E c \in webQueue : c.path = p /\ c.kind = k
          /\ webQueue' = webQueue \cup {WebBuild(webNext, p, k, webRows[p])}
    /\ webNext' = webNext + 1
    /\ UNCHANGED <<webAt, webServerVars, webExplorer, webScope, webRows, webRowsOf, webShown,
                   webInspections, webApplying, webRefresh, webUnresolved, webEdits, webRequests>>

\* removeQueuedAuditChange and clearAuditQueue
WebRemove ==
    /\ \E gone \in {{id} : id \in WebIDs(webQueue)}
                     \cup (IF webApplying = "no" THEN {WebIDs(webQueue)} ELSE {}) :
          /\ gone # {}
          /\ webQueue' = {c \in webQueue : c.id \notin gone}
          /\ webUnresolved' = webUnresolved \ gone
    /\ UNCHANGED <<webAt, webServerVars, webNext, webExplorer, webScope, webRows, webRowsOf,
                   webShown, webInspections, webApplying, webRefresh, webEdits, webRequests>>

\* handleAuditQueueListChange
WebEdits(change) ==
    CASE change.kind = "delete" -> {[change EXCEPT !.confirm = ~@]}
      [] change.kind = "rename" -> {[change EXCEPT !.clean = ~@]}
      [] change.kind = "sync" ->
           {[change EXCEPT !.strategy = s] : s \in WebStrategies \ {change.strategy}}
      [] OTHER -> {}

WebEdit ==
    /\ \E c \in webQueue : \E edited \in WebEdits(c) : webQueue' = (webQueue \ {c}) \cup {edited}
    /\ UNCHANGED <<webAt, webServerVars, webNext, webExplorer, webScope, webRows, webRowsOf,
                   webShown, webInspections, webApplying, webRefresh, webUnresolved, webEdits,
                   webRequests>>

----------------------------------------
\* Applying the queue

\* applyAuditQueue: the request
WebApply ==
    /\ webAt = "open"
    /\ webRequests > 0
    /\ webQueue # {}
    /\ webApplying = "no"
    /\ WebCanApply(webQueue)
    /\ webApplying' = "serving"
    /\ webBatch' \in WebOrders(webQueue)
    /\ webResults' = <<>>
    /\ webRequests' = webRequests - 1
    /\ UNCHANGED <<webAt, webDisk, webQueueVars, webExplorer, webScope, webRows, webRowsOf,
                   webShown, webInspections, webRefresh, webEdits>>

\* newWebAuditChangeExecutor: the next change of the batch
WebServe ==
    /\ webApplying = "serving"
    /\ Len(webResults) < Len(webBatch)
    /\ LET change == webBatch[Len(webResults) + 1]
       IN \E outcome \in WebOutcomes(change) :
             /\ webDisk' = outcome.disk
             /\ webResults' = Append(webResults, [id |-> change.id, status |-> outcome.status,
                                                  acted |-> outcome.acted])
    /\ UNCHANGED <<webAt, webBatch, webQueueVars, webExplorer, webScope, webRows, webRowsOf,
                   webShown, webInspections, webApplying, webRefresh, webEdits, webRequests>>

\* applyAuditQueue: the answer.  What succeeded leaves the queue, and the
\* roots of the rows are inspected again.
WebServed ==
    /\ webApplying = "serving"
    /\ Len(webResults) = Len(webBatch)
    /\ LET done == {webResults[i].id : i \in {j \in DOMAIN webResults :
                                                webResults[j].status = "succeeded"}}
       IN /\ webQueue' = {c \in webQueue : c.id \notin done}
          /\ webUnresolved' = WebIDs(webQueue') \cap WebIDs(Range(webBatch))
    /\ IF webRowsOf.roots # {}
       THEN /\ webApplying' = "refreshing"
            /\ webRefresh' = {[of |-> webRowsOf, answered |-> FALSE, rows |-> <<>>]}
       ELSE webApplying' = "no" /\ UNCHANGED webRefresh
    /\ UNCHANGED <<webAt, webServerVars, webNext, webExplorer, webScope, webRows, webRowsOf,
                   webShown, webInspections, webEdits, webRequests>>

\* the answer is lost on its way, whatever was done
WebServedLost ==
    /\ webApplying = "serving"
    /\ Len(webResults) \in {0, Len(webBatch)}
    /\ webApplying' = "no"
    /\ UNCHANGED <<webAt, webServerVars, webQueueVars, webExplorer, webScope, webRows, webRowsOf,
                   webShown, webInspections, webRefresh, webEdits, webRequests>>

\* refreshCurrentAuditInspection
WebRefreshed ==
    /\ webApplying = "refreshing"
    /\ \E r \in webRefresh :
          \/ /\ r.answered
             /\ webRows' = r.rows /\ webRowsOf' = r.of /\ webShown' = TRUE
             /\ webQueue' = WebReconciled(webQueue, r.rows)
          \/ UNCHANGED <<webRows, webRowsOf, webShown, webQueue>>
    /\ webRefresh' = {}
    /\ webApplying' = "no"
    /\ UNCHANGED <<webAt, webServerVars, webNext, webExplorer, webScope, webInspections,
                   webUnresolved, webEdits, webRequests>>

\* Requests are answered, and answers arrive; the rest is the operator's.
WebRuns ==
    \/ WebAnswer \/ WebInspected \/ WebServe \/ WebServed \/ WebServedLost \/ WebRefreshed

WebNextStep ==
    \/ WebRuns
    \/ WebSelect \/ WebOperator \/ WebInspect \/ WebQueueChange \/ WebRemove \/ WebEdit
    \/ WebApply

WebSpec == WebInit /\ [][WebNextStep]_webVars

----------------------------------------

WebTypeOK ==
    /\ webAt \in {"idle", "open"}
    /\ \A p \in DOMAIN webDisk : webDisk[p] \in WebFolder
    /\ \A p \in DOMAIN webRows : webRows[p] \in WebFolder
    /\ webQueue \subseteq WebChange
    /\ \A i \in DOMAIN webBatch : webBatch[i] \in WebChange
    /\ webApplying \in {"no", "serving", "refreshing"}
    /\ webUnresolved \subseteq 1 .. WebChangesLimit
    /\ webShown \in BOOLEAN /\ webNext \in Nat \ {0}

\* Whatever arrives late, the queue is one the rows on the screen offer: each
\* change is of a row that still calls for it, and a deletion is alone on its
\* path (inspectAuditRoots, reconcileAuditQueueToInspection).
QueueIsOfTheRows ==
    /\ \A c \in webQueue : c.path \in DOMAIN webRows /\ WebMatches(c, webRows[c.path])
    /\ \A c, d \in webQueue : c # d /\ c.path = d.path => c.kind # "delete"

\* In a batch no change of a path comes after the path was renamed or deleted
\* (cmpWebAuditChangePriority).
FixesComeBeforeMoves ==
    \A i, j \in DOMAIN webResults :
        (i < j /\ webBatch[i].path = webBatch[j].path)
            => webBatch[i].kind \notin {"delete", "rename"}

\* A repository is changed only by a change that was queued, and so reviewed,
\* for it (executeWebAuditOperation takes what lies below the path too).
OnlyReviewedRepositoriesChange ==
    \A i \in DOMAIN webResults : webBatch[i].kind # "delete" =>
        \A p \in webResults[i].acted :
            \E j \in DOMAIN webBatch : webBatch[j].path = p /\ webBatch[j].kind = webBatch[i].kind

\* A change reported as succeeded was made.
SucceededMeansMade ==
    \A i \in DOMAIN webResults : webResults[i].status = "succeeded" =>
        webBatch[i].path \in webResults[i].acted

\* What was skipped or has failed stays in the queue until the operator takes
\* it out.
FailuresStayForReview == webUnresolved \subseteq WebIDs(webQueue)

\* The queue names rows that were inspected, in the order that keeps their paths.
QueueIsSound == QueueIsOfTheRows /\ FixesComeBeforeMoves
========================================
