---------------------------- MODULE RemoteUpdate ----------------------------
(***************************************************************************)
(* remote update-to-canonical and remote update-protocol for one           *)
(* repository: the audit inspection, the identity resolver with its search *)
(* as a last resort, the two executors, and the refresh of the repository  *)
(* state.  GitHub answers or not; the operator may change origin meanwhile.*)
(***************************************************************************)
EXTENDS Naturals, Sequences, FiniteSets

CONSTANTS
    RemoteOwners, RemoteNames,
    RemoteFolded,       \* an owner or a name in lower case
    RemoteNone,
    RemoteInvocations   \* [origin, leads, found, owner, operation, from, to, yes, operator]

RemoteSlug == [owner: RemoteOwners, name: RemoteNames]
RemoteForms == {"git@", "ssh://", "https://", "other"}
RemoteProtocols == {"ssh", "https", "other"}
RemoteURL == [form: RemoteForms, hub: BOOLEAN, slug: RemoteSlug]

ASSUME RemoteAssumption ==
    /\ RemoteNone \notin RemoteSlug \cup RemoteURL
    /\ RemoteFolded \in [RemoteOwners \cup RemoteNames -> RemoteOwners \cup RemoteNames]
    /\ RemoteInvocations \subseteq
         [origin: RemoteURL \cup {RemoteNone},
          leads: [RemoteSlug -> RemoteSlug \cup {RemoteNone}],  \* where GitHub leads a slug to
          found: Seq(RemoteSlug),                               \* what its search finds
          owner: RemoteOwners \cup {RemoteNone},                \* --owner
          operation: {"canonical", "convert"},
          from: RemoteProtocols, to: RemoteProtocols, yes: BOOLEAN,
          operator: SUBSET (RemoteURL \cup {RemoteNone})]       \* origins somebody may set
    \* GitHub leads to the name a repository has now, and that leads nowhere else
    /\ \A asked \in RemoteInvocations, slug \in RemoteSlug :
          asked.leads[slug] # RemoteNone => asked.leads[asked.leads[slug]] = asked.leads[slug]

VARIABLES
    remoteAsked, remoteAt,
    remoteOrigin,       \* the URL of origin, in the repository's configuration
    remoteInspection,   \* repository.Inspection
    remoteResolved,     \* OwnerRepository of the resolution
    remoteTarget,       \* the URL to set
    remoteOutcome,
    remoteBlind,        \* a lookup has failed
    remoteSeen          \* the slugs origin has had, whoever set them

remoteVars == <<remoteAsked, remoteAt, remoteOrigin, remoteInspection, remoteResolved,
                remoteTarget, remoteOutcome, remoteBlind, remoteSeen>>

----------------------------------------
\* URLs

\* strings.EqualFold
RemoteEqualFold(s, t) ==
    RemoteFolded[s.owner] = RemoteFolded[t.owner] /\ RemoteFolded[s.name] = RemoteFolded[t.name]

\* detectProtocol and detectRemoteProtocol know three prefixes, of github.com.
RemoteProtocol(url) ==
    IF ~url.hub THEN "other"
    ELSE CASE url.form \in {"git@", "ssh://"} -> "ssh"
           [] url.form = "https://" -> "https"
           [] OTHER -> "other"

\* canonicalizeOwnerRepo
RemoteOwnerRepository(url) ==
    IF RemoteProtocol(url) = "other" THEN RemoteNone ELSE url.slug

\* BuildRemoteURL, of github.com
RemoteBuild(protocol, slug) ==
    [form |-> IF protocol = "https" THEN "https://" ELSE "git@", hub |-> TRUE, slug |-> slug]

RemoteLookup(slug) == IF slug = RemoteNone THEN RemoteNone ELSE remoteAsked.leads[slug]

----------------------------------------

RemoteNothing == [url |-> RemoteNone, origin |-> RemoteNone, canonical |-> RemoteNone,
                  protocol |-> "other"]

RemotePCs == {"inspect", "resolve", "search", "choose", "current", "ask", "set", "refresh", "done"}

RemoteOutcomes == {"none", "unlisted", "skipped", "declined", "failed", "kept", "updated"}

RemoteInit ==
    /\ remoteAsked \in RemoteInvocations
    /\ remoteAt = "inspect"
    /\ remoteOrigin = remoteAsked.origin
    /\ remoteInspection = RemoteNothing
    /\ remoteResolved = RemoteNone /\ remoteTarget = RemoteNone
    /\ remoteOutcome = "none" /\ remoteBlind = FALSE
    /\ remoteSeen = IF remoteOrigin = RemoteNone THEN {} ELSE {remoteOrigin.slug}

RemoteEnds(outcome) == remoteAt' = "done" /\ remoteOutcome' = outcome

\* inspectRepository: a repository without origin is listed, one whose origin is
\* not of github.com is not; metadata that cannot be had is no error.
RemoteInspected(canonical) ==
    IF remoteOrigin = RemoteNone THEN RemoteNothing
    ELSE [url |-> remoteOrigin, origin |-> RemoteOwnerRepository(remoteOrigin),
          canonical |-> canonical, protocol |-> RemoteProtocol(remoteOrigin)]

RemoteListed == remoteOrigin # RemoteNone => remoteOrigin.hub

\* The canonical slug an inspection may come to: that of GitHub, or none.
RemoteCanonicals ==
    {RemoteNone} \cup (IF remoteOrigin = RemoteNone THEN {}
                       ELSE {RemoteLookup(RemoteOwnerRepository(remoteOrigin))})

RemoteInspect ==
    /\ remoteAt = "inspect"
    /\ \/ ~RemoteListed /\ RemoteEnds("unlisted") /\ UNCHANGED <<remoteInspection, remoteBlind>>
       \/ /\ RemoteListed
          /\ \E canonical \in RemoteCanonicals :
                /\ remoteInspection' = RemoteInspected(canonical)
                /\ remoteBlind' = (canonical = RemoteNone)
          /\ \/ /\ remoteAsked.operation = "convert"
                /\ remoteInspection'.protocol # remoteAsked.from /\ RemoteEnds("skipped")
             \/ /\ remoteAsked.operation = "canonical" \/ remoteInspection'.protocol = remoteAsked.from
                /\ remoteAt' = "resolve" /\ UNCHANGED remoteOutcome
    /\ UNCHANGED <<remoteAsked, remoteOrigin, remoteResolved, remoteTarget, remoteSeen>>

\* ResolveRemoteIdentity: origin as it is now, whatever its host, or the
\* reported FinalOwnerRepo.
RemoteCandidate == remoteOrigin.slug

RemoteResolve ==
    /\ remoteAt = "resolve"
    /\ \/ remoteOrigin = RemoteNone /\ RemoteEnds("skipped") /\ UNCHANGED <<remoteResolved, remoteBlind>>
       \/ /\ remoteOrigin # RemoteNone
          /\ \/ /\ RemoteLookup(RemoteCandidate) # RemoteNone
                /\ remoteResolved' = RemoteLookup(RemoteCandidate)
                /\ remoteAt' = "choose" /\ UNCHANGED remoteBlind
             \/ /\ remoteResolved' = RemoteCandidate
                /\ remoteAt' = "search" /\ remoteBlind' = TRUE
          /\ UNCHANGED remoteOutcome
    /\ UNCHANGED <<remoteAsked, remoteOrigin, remoteInspection, remoteTarget, remoteSeen>>

\* Faulty: the first repository found, whatever its name.
RemoteSearchLoosely ==
    /\ remoteAt = "search"
    /\ remoteResolved' \in {remoteResolved} \cup {remoteAsked.found[i] : i \in DOMAIN remoteAsked.found}
    /\ remoteAt' = "choose"
    /\ UNCHANGED <<remoteAsked, remoteOrigin, remoteInspection, remoteTarget, remoteOutcome,
                   remoteBlind, remoteSeen>>

\* resolveRepoMetadataWithSearch: the first one found that has the name; when the
\* search fails too, or finds none, the candidate.
RemoteSearch ==
    /\ remoteAt = "search"
    /\ LET found == remoteAsked.found
           named == {i \in DOMAIN found :
                        RemoteFolded[found[i].name] = RemoteFolded[remoteResolved.name]}
       IN \/ UNCHANGED remoteResolved
          \/ \E i \in named : (\A j \in named : i <= j) /\ remoteResolved' = found[i]
    /\ remoteAt' = "choose"
    /\ UNCHANGED <<remoteAsked, remoteOrigin, remoteInspection, remoteTarget, remoteOutcome,
                   remoteBlind, remoteSeen>>

RemoteOr(slug, other) == IF slug = RemoteNone THEN other ELSE slug

\* The first part of either executor: what the inspection says goes before the
\* resolution.  --owner is parsed and handed on, and not looked at.
RemoteChoose ==
    /\ remoteAt = "choose"
    /\ LET origin == RemoteOr(remoteInspection.origin, remoteResolved)
           canonical == RemoteOr(remoteInspection.canonical, remoteResolved)
           protocol == remoteInspection.protocol
       IN \/ /\ remoteAsked.operation = "convert"
             /\ remoteTarget' = RemoteBuild(remoteAsked.to, canonical)
             /\ remoteAt' = "current" /\ UNCHANGED remoteOutcome
          \/ /\ remoteAsked.operation = "canonical" /\ RemoteEqualFold(origin, canonical)
             /\ remoteAt' = "refresh" /\ remoteOutcome' = "kept" /\ UNCHANGED remoteTarget
          \/ /\ remoteAsked.operation = "canonical" /\ ~RemoteEqualFold(origin, canonical)
             /\ \/ protocol = "other" /\ RemoteEnds("skipped") /\ UNCHANGED remoteTarget
                \/ /\ protocol # "other" /\ remoteTarget' = RemoteBuild(protocol, canonical)
                   /\ remoteAt' = "ask" /\ UNCHANGED remoteOutcome
    /\ UNCHANGED <<remoteAsked, remoteOrigin, remoteInspection, remoteResolved, remoteBlind,
                   remoteSeen>>

\* The conversion reads origin's URL once more; BuildRemoteURL knows no "other".
RemoteCurrent ==
    /\ remoteAt = "current"
    /\ \/ remoteOrigin = RemoteNone /\ RemoteEnds("failed")
       \/ /\ remoteOrigin # RemoteNone /\ RemoteProtocol(remoteOrigin) # remoteAsked.from
          /\ remoteAt' = "refresh" /\ remoteOutcome' = "kept"
       \/ /\ remoteOrigin # RemoteNone /\ RemoteProtocol(remoteOrigin) = remoteAsked.from
          /\ \/ remoteAsked.to = "other" /\ RemoteEnds("skipped")
             \/ remoteAsked.to # "other" /\ remoteAt' = "ask" /\ UNCHANGED remoteOutcome
    /\ UNCHANGED <<remoteAsked, remoteOrigin, remoteInspection, remoteResolved, remoteTarget,
                   remoteBlind, remoteSeen>>

RemoteAsk ==
    /\ remoteAt = "ask"
    /\ \/ remoteAt' = "set" /\ UNCHANGED remoteOutcome
       \/ ~remoteAsked.yes /\ remoteAt' = "refresh" /\ remoteOutcome' = "declined"
       \/ ~remoteAsked.yes /\ RemoteEnds("failed")
    /\ UNCHANGED <<remoteAsked, remoteOrigin, remoteInspection, remoteResolved, remoteTarget,
                   remoteBlind, remoteSeen>>

\* git remote set-url
RemoteSet ==
    /\ remoteAt = "set"
    /\ \/ /\ remoteOrigin # RemoteNone
          /\ remoteOrigin' = remoteTarget
          /\ remoteAt' = "refresh" /\ remoteOutcome' = "updated"
       \/ RemoteEnds("failed") /\ UNCHANGED remoteOrigin
    /\ UNCHANGED <<remoteAsked, remoteInspection, remoteResolved, remoteTarget, remoteBlind,
                   remoteSeen>>

\* RepositoryState.Refresh, after everything that is not an error
RemoteRefresh ==
    /\ remoteAt = "refresh"
    /\ \/ ~RemoteListed /\ RemoteEnds("failed") /\ UNCHANGED remoteInspection
       \/ /\ RemoteListed
          /\ \E canonical \in RemoteCanonicals : remoteInspection' = RemoteInspected(canonical)
          /\ remoteAt' = "done" /\ UNCHANGED remoteOutcome
    /\ UNCHANGED <<remoteAsked, remoteOrigin, remoteResolved, remoteTarget, remoteBlind, remoteSeen>>

\* Somebody sets or removes origin, until gix has set it.
RemoteOperator(url) ==
    /\ remoteAt \notin {"idle", "refresh", "done"} /\ url # remoteOrigin
    /\ remoteOrigin' = url
    /\ remoteSeen' = IF url = RemoteNone THEN remoteSeen ELSE remoteSeen \cup {url.slug}
    /\ UNCHANGED <<remoteAsked, remoteAt, remoteInspection, remoteResolved, remoteTarget,
                   remoteOutcome, remoteBlind>>

\* The steps of gix itself
RemoteRuns ==
    \/ RemoteInspect \/ RemoteResolve \/ RemoteSearch \/ RemoteChoose \/ RemoteCurrent
    \/ RemoteAsk \/ RemoteSet \/ RemoteRefresh

RemoteNext ==
    \/ RemoteRuns
    \/ \E url \in remoteAsked.operator : RemoteOperator(url)

RemoteSpec == RemoteInit /\ [][RemoteNext]_remoteVars

----------------------------------------
\* Properties

RemoteTypeOK ==
    /\ remoteAt \in RemotePCs /\ remoteOutcome \in RemoteOutcomes
    /\ remoteOrigin \in RemoteURL \cup {RemoteNone}
    /\ remoteTarget \in RemoteURL \cup {RemoteNone}
    /\ remoteResolved \in RemoteSlug \cup {RemoteNone}

\* set-url keeps the repository.  What it writes is, for GitHub, the repository
\* that an origin seen before it leads to, whoever changed origin meanwhile and
\* whatever the inspection missed; when a lookup has failed it at least bears
\* the name of one.
RemoteKeepsRepository ==
    remoteAt \in {"refresh", "done"} /\ remoteOutcome = "updated" =>
        \E seen \in remoteSeen :
            \/ RemoteOr(RemoteLookup(seen), seen) = RemoteOr(RemoteLookup(remoteTarget.slug), remoteTarget.slug)
            \/ remoteBlind /\ RemoteFolded[seen.name] = RemoteFolded[remoteTarget.slug.name]

\* cmd/cli/repos/remotes.go:20: --owner: "Require canonical owner to match this
\* value".
OwnerConstraintHolds ==
    remoteAt # "idle" /\ remoteAsked.owner # RemoteNone
        /\ remoteAsked.operation = "canonical" /\ remoteOutcome = "updated" =>
            remoteTarget.slug.owner = remoteAsked.owner
========================================
