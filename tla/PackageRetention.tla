--------------------------- MODULE PackageRetention ---------------------------
(***************************************************************************)
(* gix packages delete --keep: per repository the package is resolved, its *)
(* versions are listed page by page and all but the newest are deleted,    *)
(* the oldest first.  Two repositories may name one package and be worked  *)
(* on at once, and versions are published while the pages are read.  A     *)
(* version is a number, its identifier.                                    *)
(***************************************************************************)
EXTENDS Naturals, FiniteSets

CONSTANTS
    RetentionRepositories, RetentionNames,
    RetentionVersions,     \* identifiers, 1 to this bound
    RetentionPageSize,
    RetentionInvocations   \* [keep, override, origin, owner, published, created]

RetentionNone == "none"
RetentionIDs == 1 .. RetentionVersions

ASSUME RetentionAssumption ==
    /\ RetentionVersions \in Nat /\ RetentionPageSize \in Nat \ {0}
    /\ RetentionNone \notin RetentionNames
    /\ RetentionInvocations \subseteq
         [keep: Nat,                                   \* --keep
          override: RetentionNames \cup {RetentionNone},
          origin: [RetentionRepositories -> RetentionNames \cup {RetentionNone}],
          owner: [RetentionRepositories -> RetentionNames \cup {RetentionNone}],
          published: SUBSET RetentionIDs,              \* of the one package that exists
          created: [RetentionIDs -> Nat]]              \* created_at, 0 if it is missing

VARIABLES
    retentionAsked,
    retentionAt,         \* repository -> where its run is
    retentionPackage,    \* repository -> the package its run works on
    retentionPublished,  \* the versions of each package on the server
    retentionEver,       \* all that were ever published
    retentionPage,
    retentionListed,     \* repository -> the versions read so far
    retentionTwice,      \* repository -> one of them was read twice
    retentionLeft,       \* repository -> the versions still to delete
    retentionDeleted     \* repository -> those its run has deleted

retentionVars == <<retentionAsked, retentionAt, retentionPackage, retentionPublished,
                   retentionEver, retentionPage, retentionListed, retentionTwice, retentionLeft,
                   retentionDeleted>>

----------------------------------------

\* ApplyRetention's order: the newest first, equal times by identifier
RetentionNewer(created, a, b) ==
    \/ created[a] > created[b]
    \/ created[a] = created[b] /\ a > b

RetentionNewerThan(created, versions, v) ==
    {w \in versions : RetentionNewer(created, w, v)}

\* The server's page: GitHub lists the newest first.
RetentionPageOf(created, published, page) ==
    {v \in published :
        LET place == Cardinality(RetentionNewerThan(created, published, v))
        IN (page - 1) * RetentionPageSize <= place /\ place < page * RetentionPageSize}

\* validatePackageVersions
RetentionValid(created, versions, twice) == ~twice /\ \A v \in versions : created[v] # 0

\* ResolveMetadata and handlePackagesRetentionAction
RetentionResolved(asked, r) ==
    IF asked.origin[r] = RetentionNone \/ asked.owner[r] = RetentionNone THEN RetentionNone
    ELSE IF asked.override # RetentionNone THEN asked.override ELSE asked.origin[r]

\* The versions to delete
RetentionSurplus(created, versions, keep) ==
    {v \in versions : Cardinality(RetentionNewerThan(created, versions, v)) >= keep}

\* Faulty: the newest of the surplus goes first.
RetentionIsLast(created, left, v) == \A w \in left \ {v} : RetentionNewer(created, v, w)

\* The oldest of the surplus goes first.
RetentionIsNext(created, left, v) == \A w \in left \ {v} : RetentionNewer(created, w, v)

----------------------------------------

RetentionInit ==
    /\ \E asked \in RetentionInvocations :
          /\ retentionAsked = asked
          /\ retentionPublished = asked.published
          /\ retentionEver = asked.published
    /\ retentionAt = [r \in RetentionRepositories |-> "resolve"]
    /\ retentionPackage = [r \in RetentionRepositories |-> RetentionNone]
    /\ retentionPage = [r \in RetentionRepositories |-> 1]
    /\ retentionListed = [r \in RetentionRepositories |-> {}]
    /\ retentionTwice = [r \in RetentionRepositories |-> FALSE]
    /\ retentionLeft = [r \in RetentionRepositories |-> {}]
    /\ retentionDeleted = [r \in RetentionRepositories |-> {}]

RetentionGoes(r, to) == retentionAt' = [retentionAt EXCEPT ![r] = to]

\* parseCommandOptions, NewKeepCount, ResolveMetadata, RetentionService.Execute
RetentionResolve(r) ==
    /\ retentionAt[r] = "resolve"
    /\ LET package == RetentionResolved(retentionAsked, r)
       IN IF retentionAsked.keep = 0 \/ package = RetentionNone
          THEN RetentionGoes(r, "failed") /\ UNCHANGED retentionPackage
          ELSE /\ RetentionGoes(r, "list")
               /\ retentionPackage' = [retentionPackage EXCEPT ![r] = package]
    /\ UNCHANGED <<retentionAsked, retentionPublished, retentionEver, retentionPage,
                   retentionListed, retentionTwice, retentionLeft, retentionDeleted>>

\* fetchAllVersions: one page, until an empty one
RetentionFetchPage(r) ==
    /\ retentionAt[r] = "list"
    /\ LET page == RetentionPageOf(retentionAsked.created, retentionPublished, retentionPage[r])
       IN IF page = {}
          THEN /\ RetentionGoes(r, "choose")
               /\ UNCHANGED <<retentionPage, retentionListed, retentionTwice>>
          ELSE /\ retentionListed' = [retentionListed EXCEPT ![r] = @ \cup page]
               /\ retentionTwice' =
                    [retentionTwice EXCEPT ![r] = @ \/ retentionListed[r] \cap page # {}]
               /\ retentionPage' = [retentionPage EXCEPT ![r] = @ + 1]
               /\ UNCHANGED retentionAt
    /\ UNCHANGED <<retentionAsked, retentionPackage, retentionPublished, retentionEver,
                   retentionLeft, retentionDeleted>>

\* fetchPage and deleteVersion: the request fails; nothing more is done
RetentionRequestFails(r) ==
    /\ retentionAt[r] \in {"list", "delete"}
    /\ RetentionGoes(r, "failed")
    /\ UNCHANGED <<retentionAsked, retentionPackage, retentionPublished, retentionEver,
                   retentionPage, retentionListed, retentionTwice, retentionLeft, retentionDeleted>>

\* ApplyRetention: the list is validated, sorted and cut
RetentionChoose(r) ==
    /\ retentionAt[r] = "choose"
    /\ IF RetentionValid(retentionAsked.created, retentionListed[r], retentionTwice[r])
       THEN /\ RetentionGoes(r, "delete")
            /\ retentionLeft' = [retentionLeft EXCEPT ![r] =
                  RetentionSurplus(retentionAsked.created, retentionListed[r],
                                   retentionAsked.keep)]
       ELSE RetentionGoes(r, "failed") /\ UNCHANGED retentionLeft
    /\ UNCHANGED <<retentionAsked, retentionPackage, retentionPublished, retentionEver,
                   retentionPage, retentionListed, retentionTwice, retentionDeleted>>

\* deleteVersion; a version that is gone is an error
RetentionDelete(r) ==
    /\ retentionAt[r] = "delete"
    /\ IF retentionLeft[r] = {}
       THEN RetentionGoes(r, "done")
            /\ UNCHANGED <<retentionPublished, retentionLeft, retentionDeleted>>
       ELSE \E version \in retentionLeft[r] :
            /\ RetentionIsNext(retentionAsked.created, retentionLeft[r], version)
            /\ IF version \in retentionPublished
               THEN /\ retentionPublished' = retentionPublished \ {version}
                    /\ retentionDeleted' = [retentionDeleted EXCEPT ![r] = @ \cup {version}]
                    /\ retentionLeft' = [retentionLeft EXCEPT ![r] = @ \ {version}]
                    /\ UNCHANGED retentionAt
               ELSE RetentionGoes(r, "failed")
                    /\ UNCHANGED <<retentionPublished, retentionLeft, retentionDeleted>>
    /\ UNCHANGED <<retentionAsked, retentionPackage, retentionEver, retentionPage,
                   retentionListed, retentionTwice>>

\* a build publishes a version
RetentionPublish ==
    /\ \E r \in RetentionRepositories : retentionAt[r] \in {"list", "choose", "delete"}
    /\ \E v \in RetentionIDs \ retentionEver :
          /\ \A w \in retentionEver : RetentionNewer(retentionAsked.created, v, w)
          /\ retentionPublished' = retentionPublished \cup {v}
          /\ retentionEver' = retentionEver \cup {v}
    /\ UNCHANGED <<retentionAsked, retentionAt, retentionPackage, retentionPage,
                   retentionListed, retentionTwice, retentionLeft, retentionDeleted>>

\* The steps of gix itself
RetentionRuns ==
    \E r \in RetentionRepositories :
          \/ RetentionResolve(r) \/ RetentionFetchPage(r) \/ RetentionRequestFails(r)
          \/ RetentionChoose(r) \/ RetentionDelete(r)

RetentionNext == RetentionRuns \/ RetentionPublish

RetentionSpec == RetentionInit /\ [][RetentionNext]_retentionVars

----------------------------------------

RetentionTypeOK ==
    /\ retentionAsked \in RetentionInvocations
    /\ retentionAt \in [RetentionRepositories ->
                          {"idle", "resolve", "list", "choose", "delete", "done", "failed"}]
    /\ retentionPackage \in [RetentionRepositories -> RetentionNames \cup {RetentionNone}]
    /\ retentionPublished \subseteq retentionEver /\ retentionEver \subseteq RetentionIDs
    /\ \A r \in RetentionRepositories :
          /\ retentionListed[r] \subseteq retentionEver /\ retentionTwice[r] \in BOOLEAN
          /\ retentionLeft[r] \subseteq retentionListed[r]

\* The newest --keep versions ever published are on the server, whatever is
\* published or deleted by another run while the pages are read; and a run
\* deletes a version only after all older ones it has listed, so what a failed
\* run leaves are the newest (ApplyRetention).
NewestAreKept ==
    \A r \in RetentionRepositories : \A v \in retentionDeleted[r] :
        /\ Cardinality(RetentionNewerThan(retentionAsked.created, retentionEver, v))
             >= retentionAsked.keep
        /\ \A w \in retentionListed[r] :
              RetentionNewer(retentionAsked.created, v, w) => w \in retentionDeleted[r]

========================================
