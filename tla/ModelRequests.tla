---------------------------- MODULE ModelRequests ----------------------------
(***************************************************************************)
(* What gix asks a language model for: a commit message, a changelog       *)
(* section, a version decision.  One client (internal/llmclient) puts the  *)
(* configured connections in priority order and falls back from one to the *)
(* next; the generators (internal/commitmsg, internal/changelog,           *)
(* internal/semverdecision) collect git evidence, ask, and judge replies.  *)
(* The caller's deadline may pass at any moment.                           *)
(***************************************************************************)
EXTENDS Naturals, Sequences, FiniteSets, SequencesExt

CONSTANTS
    ModelCompatible, ModelProxy,   \* the OpenAI-compatible connection and the proxy
    ModelPriorities,     \* the priorities a profile may be given
    ModelRequestsAsked   \* [kind, priority, credentials, changes, packets,
                         \* fixedMajor, capture]

ModelConnections == {ModelCompatible, ModelProxy}   \* ConnectionProfiles
ModelKinds == {"commit", "changelog", "semver"}
ModelBumps == {"patch", "minor", "major"}

ASSUME ModelAssumption ==
    /\ ModelCompatible # ModelProxy /\ ModelPriorities \subseteq Nat
    /\ ModelRequestsAsked \subseteq
         [kind: ModelKinds, priority: [ModelConnections -> ModelPriorities],
          credentials: SUBSET ModelConnections,
          changes: SUBSET {"staged", "worktree", "committed"},
          packets: Nat \ {0}, fixedMajor: Nat, capture: BOOLEAN]

VARIABLES
    modelRequest,
    modelAt,
    modelCandidates,   \* the connections of the client, in the order tried
    modelTried,        \* of the message being sent: <<connection, outcome>>
    modelExpired,      \* the caller's deadline has passed
    modelReply,        \* the reply of the message being sent
    modelCandidateBump,
    modelAudited,      \* the audited bumps, one for each packet so far
    modelBump,         \* the highest so far, "none" at first
    modelChats,        \* history: [tried, answer] of each message
    modelOutcome,
    modelCaptured      \* the workflow variable was set

modelProgress == <<modelCandidateBump, modelAudited, modelBump>>
modelVars == <<modelRequest, modelAt, modelCandidates, modelTried, modelExpired, modelReply,
               modelProgress, modelChats, modelOutcome, modelCaptured>>

ModelRank(bump) ==
    CASE bump = "major" -> 3 [] bump = "minor" -> 2 [] bump = "patch" -> 1 [] OTHER -> 0

ModelInit ==
    /\ modelRequest \in ModelRequestsAsked
    /\ modelAt = "configure" /\ modelCandidates = <<>> /\ modelTried = <<>>
    /\ modelExpired = FALSE /\ modelReply = "none" /\ modelCandidateBump = "none"
    /\ modelAudited = <<>> /\ modelBump = "none" /\ modelChats = <<>>
    /\ modelOutcome = "none" /\ modelCaptured = FALSE

ModelEnd(outcome) == modelAt' = "done" /\ modelOutcome' = outcome

\* Every connection that has a credential, the smaller number first.
ModelOrder(profile) ==
    LET those(c) == IF c \in profile.credentials THEN <<c>> ELSE <<>>
    IN IF profile.priority[ModelCompatible] > profile.priority[ModelProxy]
       THEN those(ModelProxy) \o those(ModelCompatible)
       ELSE those(ModelCompatible) \o those(ModelProxy)

ModelProfilesValid(profile) ==
    /\ \A c \in ModelConnections : profile.priority[c] > 0
    /\ \A c, d \in ModelConnections : profile.priority[c] = profile.priority[d] => c = d
    /\ profile.credentials # {}

ModelConfigure ==
    /\ modelAt = "configure"
    /\ IF ModelProfilesValid(modelRequest)
       THEN /\ modelCandidates' = ModelOrder(modelRequest) /\ modelAt' = "collect"
            /\ UNCHANGED modelOutcome
       ELSE ModelEnd("refused") /\ UNCHANGED modelCandidates
    /\ UNCHANGED <<modelRequest, modelTried, modelExpired, modelReply, modelProgress, modelChats,
                   modelCaptured>>

\* Whether the evidence read from git is empty.  The status lists staged and
\* worktree changes whatever the source is.
ModelNothing(request) ==
    IF request.kind = "commit" THEN {"staged", "worktree"} \cap request.changes = {}
    ELSE "committed" \notin request.changes

\* BuildRequest(s): the git reads, which fail or are cancelled, and the
\* refusal of an empty change.
ModelCollectFails ==
    /\ modelAt = "collect"
    /\ ModelEnd("failed")
    /\ UNCHANGED <<modelRequest, modelCandidates, modelTried, modelExpired, modelReply,
                   modelProgress, modelChats, modelCaptured>>

ModelCollect ==
    /\ modelAt = "collect" /\ ~modelExpired
    /\ IF ModelNothing(modelRequest)
       THEN ModelEnd(IF modelRequest.kind = "changelog" THEN "nothing" ELSE "failed")
       ELSE modelAt' = "ask" /\ UNCHANGED modelOutcome
    /\ UNCHANGED <<modelRequest, modelCandidates, modelTried, modelExpired, modelReply,
                   modelProgress, modelChats, modelCaptured>>

\* ----------------------------------------------- prioritizedChatClient.Chat

ModelFailures(tried) == {i \in DOMAIN tried : tried[i][2] = "failed"}
modelAttempt == Cardinality(ModelFailures(modelTried))
modelConnection == modelCandidates[modelAttempt + 1]
modelRecovering == modelTried # <<>> /\ Last(modelTried) = <<ModelCompatible, "empty">>

\* What a reply says; "blank" is white space.  The OpenAI-compatible client
\* itself reports a blank reply as an error.
ModelReplies == {"blank", "text"} \cup ModelBumps

ModelReplySuits(reply) ==
    IF modelRequest.kind = "semver" THEN reply # "blank" ELSE reply \in {"blank", "text"}

ModelAnswer ==
    /\ modelAt = "ask" /\ ~modelExpired
    /\ \E reply \in ModelReplies :
         /\ ModelReplySuits(reply)
         /\ modelConnection = ModelCompatible => reply # "blank"
         /\ modelReply' = reply
    /\ modelTried' = Append(modelTried, <<modelConnection, "answered">>)
    /\ modelChats' = Append(modelChats, modelTried')
    /\ modelAt' = "judge"
    /\ UNCHANGED <<modelRequest, modelCandidates, modelExpired, modelProgress, modelOutcome,
                   modelCaptured>>

\* openAIChatClient.Chat asks once more after an empty reply, unless the
\* deadline passed meanwhile.
ModelEmpty ==
    /\ modelAt = "ask" /\ modelConnection = ModelCompatible /\ ~modelRecovering /\ ~modelExpired
    /\ modelTried' = Append(modelTried, <<modelConnection, "empty">>)
    /\ UNCHANGED <<modelRequest, modelAt, modelCandidates, modelExpired, modelReply, modelProgress,
                   modelChats, modelOutcome, modelCaptured>>

\* A failure: the deadline ends the chat, otherwise the next connection is tried.
ModelAttemptFails ==
    /\ modelAt = "ask"
    /\ modelTried' = Append(modelTried, <<modelConnection, "failed">>)
    /\ IF modelExpired THEN ModelEnd("cancelled")
       ELSE IF modelAttempt + 1 = Len(modelCandidates) THEN ModelEnd("failed")
       ELSE UNCHANGED <<modelAt, modelOutcome>>
    /\ modelChats' = IF modelAt' = "done" THEN Append(modelChats, modelTried') ELSE modelChats
    /\ UNCHANGED <<modelRequest, modelCandidates, modelExpired, modelReply, modelProgress,
                   modelCaptured>>

ModelExpire ==
    /\ modelAt \in {"collect", "ask", "judge"} /\ ~modelExpired
    /\ modelExpired' = TRUE
    /\ UNCHANGED <<modelRequest, modelAt, modelCandidates, modelTried, modelReply, modelProgress,
                   modelChats, modelOutcome, modelCaptured>>

\* ----------------------------------------------------------- the generators

\* A message or a section: a blank one is an error, another is printed and kept
\* in the workflow variable the action names.
ModelKeepText ==
    /\ modelAt = "judge" /\ modelRequest.kind # "semver"
    /\ ModelEnd(IF modelReply = "blank" THEN "failed" ELSE "ok")
    /\ modelCaptured' = (modelReply # "blank" /\ modelRequest.capture)
    /\ UNCHANGED <<modelRequest, modelCandidates, modelTried, modelExpired, modelReply,
                   modelProgress, modelChats>>

\* parseDecision: an impact outside the closed set, extra values or a missing
\* reason is an error; a fixed major turns an incompatible impact into a minor.
ModelParsed(reply) ==
    IF reply \notin ModelBumps THEN "none"
    ELSE IF reply = "major" /\ modelRequest.fixedMajor > 0 THEN "minor" ELSE reply

ModelHigher(bump, packet) ==
    IF bump = "none" \/ ModelRank(packet) > ModelRank(bump) THEN packet ELSE bump

\* Faulty: what was proposed counts, not what was audited.
ModelCountedUnaudited(bump, candidate, audited) == ModelHigher(bump, candidate)

ModelCounted(bump, candidate, audited) == ModelHigher(bump, audited)

ModelDecide ==
    /\ modelAt = "judge" /\ modelRequest.kind = "semver"
    /\ modelTried' = <<>>
    /\ \E bump \in {ModelParsed(modelReply)} :
         IF bump = "none" THEN ModelEnd("failed") /\ UNCHANGED modelProgress
         ELSE IF modelCandidateBump = "none"
         THEN /\ modelCandidateBump' = bump /\ modelAt' = "ask"
              /\ UNCHANGED <<modelAudited, modelBump, modelOutcome>>
         ELSE /\ modelAudited' = Append(modelAudited, bump) /\ modelCandidateBump' = "none"
              /\ modelBump' = ModelCounted(modelBump, modelCandidateBump, bump)
              /\ IF Len(modelAudited') = modelRequest.packets THEN ModelEnd("ok")
                 ELSE modelAt' = "ask" /\ UNCHANGED modelOutcome
    /\ UNCHANGED <<modelRequest, modelCandidates, modelExpired, modelReply, modelChats,
                   modelCaptured>>

\* The steps of gix itself; the deadline passes by its own
ModelRuns ==
    \/ ModelConfigure \/ ModelCollect \/ ModelCollectFails \/ ModelAnswer \/ ModelEmpty
    \/ ModelAttemptFails \/ ModelKeepText \/ ModelDecide

ModelNext == ModelRuns \/ ModelExpire

ModelSpec == ModelInit /\ [][ModelNext]_modelVars

\* ---------------------------------------------------------------- properties

ModelTypeOK ==
    /\ modelRequest \in ModelRequestsAsked
    /\ modelAt \in {"configure", "collect", "ask", "judge", "done"}
    /\ modelCandidates \in Seq(ModelConnections) /\ IsInjective(modelCandidates)
    /\ modelTried \in Seq(ModelConnections \X {"answered", "empty", "failed"})
    /\ modelExpired \in BOOLEAN /\ modelCaptured \in BOOLEAN
    /\ modelReply \in ModelReplies \cup {"none"}
    /\ {modelCandidateBump, modelBump} \subseteq ModelBumps \cup {"none"}
    /\ modelAudited \in Seq(ModelBumps)
    /\ modelOutcome \in {"none", "ok", "nothing", "refused", "failed", "cancelled"}

\* A message is answered by a connection only after every connection preferred
\* to it failed for that message, and a request is given up only after every
\* one failed or the deadline passed (the loop of prioritizedChatClient.Chat
\* over the order of orderedConfigurations, llmclient/factory.go).
FallbackKeepsPriority ==
    \A i \in DOMAIN modelChats :
      LET chat == modelChats[i]
          failed == {chat[j][1] : j \in {j \in DOMAIN chat : chat[j][2] = "failed"}}
          preferred(c) == {d \in modelRequest.credentials :
                             modelRequest.priority[d] < modelRequest.priority[c]}
      IN IF Last(chat)[2] = "answered" THEN failed = preferred(Last(chat)[1])
         ELSE modelExpired \/ failed = modelRequest.credentials

\* The bump decided is the highest any packet's audit asked for, it rests on a
\* candidate and an audit of every packet, and on a fixed major it is never a
\* major (semverdecision/generator.go, Generate).
DecisionIsAudited ==
    (modelOutcome = "ok" /\ modelRequest.kind = "semver") =>
      /\ Len(modelAudited) = modelRequest.packets
      /\ Len(modelChats) = 2 * modelRequest.packets
      /\ modelBump \in ToSet(modelAudited)
      /\ \A bump \in ToSet(modelAudited) : ModelRank(bump) <= ModelRank(modelBump)
      /\ modelRequest.fixedMajor > 0 => modelBump # "major"

\* An answer is of the provider that comes first of those that work, and a
\* version bump has passed its audit.
AnswersAreEarned == FallbackKeepsPriority /\ DecisionIsAudited
========================================
