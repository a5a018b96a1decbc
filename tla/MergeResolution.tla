--------------------------- MODULE MergeResolution ---------------------------
(***************************************************************************)
(* merge_conflict_resolution.go: what becomes of a merge or of a stash     *)
(* that could not be applied without conflicts.  Path by path and region   *)
(* by region a text is derived, or asked of the model, and audited by the  *)
(* model; the files are written and staged, the index is validated and the *)
(* merge is concluded; after a failure it is aborted.                      *)
(***************************************************************************)
EXTENDS MergeTexts, SequencesExt

CONSTANTS
    Requests,     \* what Resolve may be called for
    MaxAttempts   \* mergeConflictResolutionMaxSemanticAttempts

\* A text is valid, not to be proved valid
\* (errMergeConflictReplacementIntentProofUnavailable), or refused.
Verdicts == {"valid", "unproven", "refused"}

\* A region with what deterministicMergeConflictRegionResolution derives from
\* it, and what validateMergeConflictRegionResponse finds of the texts there may
\* be for it.
JudgedRegion ==
    [base: Text, ours: Text, theirs: Text, derived: SUBSET Text,
     findings: SUBSET (Text \X Verdicts)]

\* A file without regions is one whose conflict leaves no markers; kept says
\* whether the current branch has it.
ConflictedFile == [regions: Seq(JudgedRegion), kept: BOOLEAN]

Parents == {"current", "incoming"}

\* The unmerged paths as git lists them; whether to commit the merge or to keep
\* the index, which is a stash's; and the parents to which the paths that git has
\* merged by itself add white space errors.
Request == [files: Seq(ConflictedFile), completion: {"commit", "preserve"},
            inherited: SUBSET Parents]

\* The validation of a text is a function: it finds one thing of a text.
OneVerdict(r) == \A x, y \in r.findings : x[1] = y[1] => x = y

ASSUME MergeResolutionAssumption ==
    /\ Requests \subseteq Request
    /\ \A q \in Requests : \A p \in DOMAIN q.files :
         \A k \in DOMAIN q.files[p].regions : OneVerdict(q.files[p].regions[k])
    /\ MaxAttempts \in Nat \ {0}

VARIABLES
    request,
    cancelled,   \* ctx.Err() # nil
    pc,
    at,          \* pathIndex
    region,      \* regionIndex
    client,      \* the provider has returned a client
    resolved,    \* resolvedRegions
    attempt,
    candidate,
    validated,   \* candidateLocallyValidated
    audited,     \* history: for each file, which of its regions were audited
    tree,        \* the files of the working tree
    index,
    noise,       \* the parents to which a staged path adds white space errors
    checked,     \* position in stagedPaths
    merging,     \* MERGE_HEAD exists
    head,        \* "before" or "merged"
    outcome

place == <<at, region, client>>
semantic == <<attempt, candidate, validated>>
texts == <<resolved, audited>>
staging == <<tree, index, noise>>
merge == <<merging, head>>
vars == <<request, cancelled, pc, place, semantic, texts, staging, checked, merge, outcome>>

files == request.files

Paths == 1 .. Len(files)

\* Behind the conflicted paths, one for all that git has merged by itself.
StagedPaths == 1 .. Len(files) + 1

Conflicted == [kind |-> "conflicted", parts |-> <<>>]
Before == [kind |-> "before", parts |-> <<>>]
Gone == [kind |-> "gone", parts |-> <<>>]
Content(parts) == [kind |-> "text", parts |-> parts]

FileType == [kind: {"conflicted", "before", "gone", "text"}, parts: Seq(Text)]

Here == files[at].regions[region]

\* The texts for this region of which this is found.
Found(verdict) == {x[1] : x \in {y \in Here.findings : y[2] = verdict}}

\* A derived text has to pass its own validation.
DerivedCandidates == Here.derived \cap Found("valid")

Init ==
    /\ request \in Requests
    /\ cancelled = FALSE
    /\ pc = "list" /\ at = 1 /\ region = 1 /\ client = FALSE
    /\ resolved = <<>> /\ audited = [p \in Paths |-> <<>>]
    /\ attempt = 1 /\ candidate = None /\ validated = FALSE
    /\ tree = [p \in Paths |-> Conflicted] /\ index = tree
    /\ noise = [p \in StagedPaths |-> IF p \in Paths THEN {} ELSE request.inherited]
    /\ checked = 1
    /\ merging \in IF request.completion = "preserve" THEN {FALSE}
                   ELSE IF files = <<>> THEN BOOLEAN ELSE {TRUE}
    /\ head = "before"
    /\ outcome = "running"

----------------------------------------
\* Failure: resolveMergeConflictOrError aborts the merge whose conflicts were
\* seen; a stash is left to the transaction

End(result) == pc' = "done" /\ outcome' = result

\* conflictObserved is not yet known when the listing fails.
Fail ==
    IF request.completion = "preserve" THEN End("failed")
    ELSE pc' = (IF pc = "list" THEN "inspect" ELSE "abort") /\ UNCHANGED outcome

Cancel ==
    /\ pc # "done" /\ ~cancelled
    /\ cancelled' = TRUE
    /\ UNCHANGED <<request, pc, place, semantic, texts, staging, checked, merge, outcome>>

\* Each of these steps is a call that may fail, and fails once cancelled.
Failing == {"list", "incoming", "collect", "write", "stage", "delete", "recheck",
            "stagedPaths", "incomingCheck", "commit"}

CallFails ==
    /\ pc \in Failing
    /\ Fail
    /\ UNCHANGED <<request, cancelled, place, semantic, texts, staging, checked, merge>>

----------------------------------------
\* Listing and collecting

ListConflicts ==
    /\ pc = "list" /\ ~cancelled
    /\ IF files = <<>> THEN End("failed") ELSE pc' = "incoming" /\ UNCHANGED outcome
    /\ UNCHANGED <<request, cancelled, place, semantic, texts, staging, checked, merge>>

ResolveIncomingParent ==
    /\ pc = "incoming" /\ ~cancelled
    /\ pc' = "collect"
    /\ UNCHANGED <<request, cancelled, place, semantic, texts, staging, checked, merge, outcome>>

\* collectConflictFile and the parse of its document; a conflict without
\* markers is resolved at once.
CollectConflictFile ==
    /\ pc = "collect" /\ ~cancelled
    /\ pc' = IF files[at].regions # <<>> THEN "region"
             ELSE IF files[at].kept THEN "write" ELSE "delete"
    /\ region' = 1 /\ resolved' = <<>>
    /\ UNCHANGED <<request, cancelled, at, client, semantic, audited, staging, checked, merge,
                   outcome>>

----------------------------------------
\* resolveConflictFile: one region after the other

\* The region is settled with this text, in an audit or not.
Settle(text, inAudit) ==
    /\ resolved' = Append(resolved, text)
    /\ audited' = [audited EXCEPT ![at] = Append(@, inAudit)]
    /\ region' = region + 1
    /\ pc' = IF region = Len(files[at].regions) THEN "write" ELSE "region"
    /\ UNCHANGED outcome

ResolveOneSided ==
    /\ pc = "region"
    /\ OneSided(Here)
    /\ Settle(TheChange(Here), FALSE)
    /\ UNCHANGED <<request, cancelled, at, client, attempt, candidate, validated, staging,
                   checked, merge>>

\* A derived candidate goes to the audit, if it passes its own validation.
BeginSemantic ==
    /\ pc = "region"
    /\ ~OneSided(Here)
    /\ \/ candidate' \in DerivedCandidates /\ validated' = TRUE
       \/ DerivedCandidates = {} /\ candidate' = None /\ validated' = FALSE
    /\ attempt' = 1 /\ client' = TRUE
    /\ pc' = "ask"
    /\ UNCHANGED <<request, cancelled, at, region, texts, staging, checked, merge, outcome>>

\* No connection has credentials.
ClientFails ==
    /\ pc = "region" /\ ~client
    /\ ~OneSided(Here)
    /\ Fail
    /\ UNCHANGED <<request, cancelled, place, semantic, texts, staging, checked, merge>>

----------------------------------------
\* resolveSemanticConflictRegion

\* Faulty: one attempt more.
AskingOnceMore == pc = "ask" /\ attempt <= MaxAttempts + 1

Asking == pc = "ask" /\ attempt <= MaxAttempts

Reviewing == candidate # None

\* An error, an empty answer, a deadline, or the caller's cancellation.
ProviderFails ==
    /\ Asking
    /\ Fail
    /\ UNCHANGED <<request, cancelled, place, semantic, texts, staging, checked, merge>>

\* Faulty: a repair does not count as an attempt.
TryAgainUncounted == UNCHANGED <<request, cancelled, pc, place, attempt, texts, staging, checked,
                                 merge, outcome>>

\* Another round.
TryAgain ==
    /\ attempt' = attempt + 1
    /\ UNCHANGED <<request, cancelled, pc, place, texts, staging, checked, merge, outcome>>

\* Conflict markers in the answer, or neither an approval nor an envelope.
AnswerIsMalformed ==
    /\ Asking /\ ~cancelled
    /\ TryAgain
    /\ UNCHANGED <<candidate, validated>>

ApprovalIsRejected ==
    /\ Asking /\ ~cancelled /\ Reviewing /\ ~validated
    /\ TryAgain
    /\ UNCHANGED <<candidate, validated>>

\* Faulty: an approval is taken for whatever candidate there is.
ApproveAnyCandidate ==
    /\ Asking /\ ~cancelled /\ Reviewing
    /\ Settle(candidate, TRUE)
    /\ UNCHANGED <<request, cancelled, at, client, attempt, candidate, validated, staging,
                   checked, merge>>

Approve ==
    /\ Asking /\ ~cancelled /\ Reviewing /\ validated
    /\ Settle(candidate, TRUE)
    /\ UNCHANGED <<request, cancelled, at, client, attempt, candidate, validated, staging,
                   checked, merge>>

AnswerIsRefused ==
    /\ Asking /\ ~cancelled
    /\ Found("refused") # {}
    /\ TryAgain
    /\ UNCHANGED <<candidate, validated>>

\* What cannot be proved is kept for the next round, to be repaired.
RetainUnproven ==
    /\ Asking /\ ~cancelled
    /\ \E text \in Found("unproven") : candidate' = text
    /\ validated' = FALSE
    /\ TryAgain

\* A first candidate: it still has to be audited.
ProposeValid ==
    /\ Asking /\ ~cancelled /\ ~Reviewing
    /\ \E text \in Found("valid") : candidate' = text
    /\ validated' = TRUE
    /\ TryAgain

AcceptCorrection ==
    /\ Asking /\ ~cancelled /\ Reviewing
    /\ \E text \in Found("valid") : Settle(text, Reviewing)
    /\ UNCHANGED <<request, cancelled, at, client, attempt, candidate, validated, staging,
                   checked, merge>>

Exhausted ==
    /\ pc = "ask" /\ attempt > MaxAttempts
    /\ Fail
    /\ UNCHANGED <<request, cancelled, place, semantic, texts, staging, checked, merge>>

----------------------------------------
\* Writing and staging

\* Not a command of git: a cancelled caller does not stop it.
WriteResolvedFile ==
    /\ pc = "write"
    /\ tree' = [tree EXCEPT ![at] = Content(resolved)]
    /\ pc' = "stage"
    /\ UNCHANGED <<request, cancelled, place, semantic, texts, index, noise, checked, merge,
                   outcome>>

NextPath ==
    /\ at' = at + 1
    /\ pc' = IF at = Len(files) THEN "recheck" ELSE "collect"
    /\ UNCHANGED outcome

\* git add reads the file; what it stages may bring white space errors.  A
\* command may be reported as failed when it has taken effect.
StageResolvedFile ==
    /\ pc = "stage" /\ ~cancelled
    /\ index' = [index EXCEPT ![at] = tree[at]]
    /\ \E against \in SUBSET Parents : noise' = [noise EXCEPT ![at] = against]
    /\ NextPath \/ (Fail /\ UNCHANGED at)
    /\ UNCHANGED <<request, cancelled, region, client, semantic, texts, tree, checked, merge>>

StageDeletedFile ==
    /\ pc = "delete" /\ ~cancelled
    /\ index' = [index EXCEPT ![at] = Gone] /\ tree' = [tree EXCEPT ![at] = Gone]
    /\ NextPath \/ (Fail /\ UNCHANGED at)
    /\ UNCHANGED <<request, cancelled, region, client, semantic, texts, noise, checked, merge>>

----------------------------------------
\* Validation: a path may bring white space errors from one parent

Recheck ==
    /\ pc = "recheck" /\ ~cancelled
    /\ \A p \in Paths : index[p] # Conflicted
    /\ pc' = "check"
    /\ UNCHANGED <<request, cancelled, place, semantic, texts, staging, checked, merge, outcome>>

\* git diff --cached --check, on the whole index; its failure is an error found.
CheckIndex ==
    /\ pc = "check"
    /\ \/ /\ ~cancelled /\ \A p \in StagedPaths : "current" \notin noise[p]
          /\ pc' = request.completion
       \/ pc' = "stagedPaths"
    /\ checked' = 1
    /\ UNCHANGED <<request, cancelled, place, semantic, texts, staging, merge, outcome>>

\* The paths that differ from HEAD; the last one may not.
ListStagedPaths ==
    /\ pc = "stagedPaths" /\ ~cancelled
    /\ pc' = "currentCheck"
    /\ UNCHANGED <<request, cancelled, place, semantic, texts, staging, checked, merge, outcome>>

NextStagedPath ==
    /\ checked' = checked + 1
    /\ pc' = IF checked = Len(files) + 1 THEN request.completion ELSE "currentCheck"

CheckCurrentParent ==
    /\ pc = "currentCheck"
    /\ \/ ~cancelled /\ "current" \notin noise[checked] /\ NextStagedPath
       \/ pc' = "incomingCheck" /\ UNCHANGED checked
    /\ UNCHANGED <<request, cancelled, place, semantic, texts, staging, merge, outcome>>

CheckIncomingParent ==
    /\ pc = "incomingCheck" /\ ~cancelled
    /\ "incoming" \notin noise[checked]
    /\ NextStagedPath
    /\ UNCHANGED <<request, cancelled, place, semantic, texts, staging, merge, outcome>>

----------------------------------------
\* Conclusion

PreserveIndex ==
    /\ pc = "preserve"
    /\ End("completed")
    /\ UNCHANGED <<request, cancelled, place, semantic, texts, staging, checked, merge>>

\* git commit --no-edit; it may be reported as failed when it has committed.
CommitMerge ==
    /\ pc = "commit" /\ ~cancelled
    /\ merging' = FALSE /\ head' = "merged"
    /\ End("completed") \/ Fail
    /\ UNCHANGED <<request, cancelled, place, semantic, texts, staging, checked>>

\* operationOwnedMergeInProgress and rollbackFailedMerge have a context of
\* their own, which no cancellation ends.
InspectMerge ==
    /\ pc = "inspect"
    /\ \/ merging /\ pc' = "abort" /\ UNCHANGED outcome
       \/ ~merging /\ End("failed")
       \/ End("handedOff")
    /\ UNCHANGED <<request, cancelled, place, semantic, texts, staging, checked, merge>>

\* git merge --abort; there may be nothing to abort, or it may fail.
AbortMerge ==
    /\ pc = "abort"
    /\ \/ /\ merging /\ merging' = FALSE
          /\ tree' = [p \in Paths |-> Before] /\ index' = tree'
          /\ End("rolledBack") \/ End("handedOff")
       \/ UNCHANGED <<merging, tree, index>> /\ End("handedOff")
    /\ UNCHANGED <<request, cancelled, place, semantic, texts, noise, checked, head>>

----------------------------------------

Resolver ==
    \/ CallFails \/ ListConflicts \/ ResolveIncomingParent \/ CollectConflictFile
    \/ ResolveOneSided \/ BeginSemantic \/ ClientFails \/ ProviderFails
    \/ AnswerIsMalformed \/ ApprovalIsRejected \/ Approve \/ AnswerIsRefused
    \/ RetainUnproven \/ ProposeValid \/ AcceptCorrection \/ Exhausted
    \/ WriteResolvedFile \/ StageResolvedFile \/ StageDeletedFile
    \/ Recheck \/ CheckIndex \/ ListStagedPaths \/ CheckCurrentParent \/ CheckIncomingParent
    \/ PreserveIndex \/ CommitMerge \/ InspectMerge \/ AbortMerge

Done == pc = "done" /\ UNCHANGED vars

Next == Resolver \/ Cancel \/ Done

Spec == Init /\ [][Next]_vars /\ WF_vars(Resolver)

----------------------------------------
\* Properties

\* The variables have their types.
TypeOK ==
    /\ request \in Request
    /\ cancelled \in BOOLEAN /\ client \in BOOLEAN
    /\ pc \in Failing \cup {"region", "ask", "check", "currentCheck", "preserve", "inspect",
                            "abort", "done"}
    /\ at \in 1 .. Len(files) + 1
    /\ region \in Nat \ {0} /\ checked \in 1 .. Len(files) + 2
    /\ resolved \in Seq(Text) /\ audited \in [Paths -> Seq(BOOLEAN)]
    /\ attempt \in 1 .. MaxAttempts + 1
    /\ candidate \in Text \cup {None} /\ validated \in BOOLEAN
    /\ tree \in [Paths -> FileType] /\ index \in [Paths -> FileType]
    /\ noise \in [StagedPaths -> SUBSET Parents]
    /\ merging \in BOOLEAN /\ head \in {"before", "merged"}
    /\ outcome \in {"running", "completed", "rolledBack", "handedOff", "failed"}

\* A text may replace a region: the one change there is, or what an audit has
\* stood by and gix has validated.
Rightful(r, text, wasAudited) ==
    IF OneSided(r) THEN text = TheChange(r) ELSE wasAudited /\ <<text, "valid">> \in r.findings

Rightly(p, parts) ==
    /\ Len(parts) = Len(files[p].regions) /\ Len(audited[p]) = Len(parts)
    /\ \A k \in DOMAIN parts : Rightful(files[p].regions[k], parts[k], audited[p][k])

\* Whatever the model answers, in whatever order: what is staged for a
\* conflicted file, and so what is committed, is region by region the only
\* change or a text that gix has validated and that an audit of the model has
\* approved or returned; never a text that is only derived, only proposed, or
\* approved without a proof.
OnlyAuditedTextIsStaged ==
    \A p \in Paths : index[p].kind = "text" => Rightly(p, index[p].parts)

\* The flag that decides whether an approval counts is that of the candidate
\* shown to the auditor, and a refused text is never shown.
FlagIsOfTheCandidate ==
    pc = "ask" /\ Reviewing =>
        /\ <<candidate, "refused">> \notin Here.findings
        /\ validated <=> <<candidate, "valid">> \in Here.findings

\* A merge is concluded only when every path is resolved and none brings white
\* space errors that are new to both parents, even if the commit that concludes
\* it is reported as failed.
ConcludedIsWhole ==
    head = "merged" \/ outcome = "completed" =>
        /\ \A p \in Paths : index[p].kind \in {"text", "gone"}
        /\ \A p \in StagedPaths : noise[p] # Parents

\* When the resolution is over, no merge is in progress unless a handoff says so
\* (or nothing was in conflict), cancelled or not; a rollback is reported only
\* when nothing of the merge is left; a failed one is never reported completed
\* (so README.md:83; docs/command_warning_matrix.md:8 says otherwise, see
\* ConflictsAreLeft).
NothingLeftHalfMerged ==
    pc = "done" =>
        /\ merging => outcome = "handedOff" \/ (outcome = "failed" /\ files = <<>>)
        /\ outcome = "rolledBack" =>
             /\ ~merging /\ head = "before"
             /\ \A p \in Paths : index[p] = Before /\ tree[p] = Before
        /\ outcome = "completed" /\ request.completion = "commit" => head = "merged"

\* docs/command_warning_matrix.md:8: merge conflicts "leave the repository in
\* Git's normal conflict state".
ConflictsAreLeft ==
    pc = "done" /\ files # <<>> /\ outcome # "completed" => merging

\* A resolution stages only what was audited, in the candidate that was shown,
\* and concludes the merge as a whole or takes it back.
ResolutionIsSound ==
    /\ OnlyAuditedTextIsStaged /\ FlagIsOfTheCandidate
    /\ ConcludedIsWhole /\ NothingLeftHalfMerged

\* Whatever is answered, and whatever fails, the resolution ends.
EveryResolutionEnds == <>(pc = "done")

========================================
