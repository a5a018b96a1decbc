------------------------ MODULE MergeResolutionProofs ------------------------
(***************************************************************************)
(* Theorems about MergeResolution: for any number of files and regions,    *)
(* whatever the model answers and whatever fails, only audited text is     *)
(* staged, and a merge is concluded as a whole or not at all.              *)
(***************************************************************************)
EXTENDS MergeResolution, SequenceTheorems, TLAPS

\* Before the first file is collected.
Starting == {"list", "incoming"}

\* Within a file.
Resolving == {"collect", "region", "ask", "write", "stage", "delete"}

\* All files are staged.
Validating == {"check", "stagedPaths", "currentCheck", "incomingCheck"}

Concluding == {"commit", "preserve"}

\* Where the resolution stands among the paths.
PlaceInv ==
    /\ pc \in Starting => at = 1
    /\ pc \in Resolving \cup {"incoming"} => at \in Paths
    /\ pc \in {"region", "ask"} => region \in 1 .. Len(files[at].regions)
    /\ pc = "ask" => ~OneSided(Here)

\* What has been resolved of a file is its first regions, each rightly; of the
\* files to come there is nothing.
TextsInv ==
    /\ \A p \in Paths : p > at \/ (p = at /\ pc \in Starting \cup {"collect"}) => audited[p] = <<>>
    /\ pc \in {"region", "ask"} =>
         /\ Len(resolved) = region - 1 /\ Len(audited[at]) = region - 1
         /\ \A k \in 1 .. region - 1 :
              Rightful(files[at].regions[k], resolved[k], audited[at][k])
    /\ pc = "write" => Rightly(at, resolved)
    /\ pc = "stage" => tree[at].kind = "text" /\ Rightly(at, tree[at].parts)
    /\ pc = "delete" => files[at].regions = <<>>

\* The files before this one are staged, this one and the others are not.
IndexInv ==
    /\ pc \in Starting \cup Resolving =>
         \A p \in Paths : IF p < at THEN index[p].kind \in {"text", "gone"}
                          ELSE index[p].kind = "conflicted"
    /\ pc \in {"recheck"} \cup Validating \cup Concluding =>
         \A p \in Paths : index[p].kind \in {"text", "gone"}

\* No path that was checked brings errors that are new to both parents.
NoiseInv ==
    /\ pc = "stagedPaths" => checked = 1
    /\ pc \in {"currentCheck", "incomingCheck"} =>
         checked \in StagedPaths /\ \A p \in StagedPaths : p < checked => noise[p] # Parents
    /\ pc \in Concluding => \A p \in StagedPaths : noise[p] # Parents

\* What is known of the merge at the places where it may end.
MergeInv ==
    /\ pc \in Concluding => pc = request.completion
    /\ request.completion = "preserve" => ~merging /\ pc \notin {"inspect", "abort"}
    /\ merging => head = "before"
    /\ head = "merged" => pc \in {"abort", "done"}
    /\ pc = "done" <=> outcome # "running"
    /\ pc \notin {"list", "inspect", "abort", "done"} => files # <<>>

AllAnswersJudgedOnce ==
    \A p \in Paths : \A k \in DOMAIN files[p].regions : OneVerdict(files[p].regions[k])

IInv ==
    /\ TypeOK /\ AllAnswersJudgedOnce
    /\ PlaceInv /\ TextsInv /\ IndexInv /\ NoiseInv /\ MergeInv
    /\ ResolutionIsSound

----------------------------------------
\* What the types say of the request

LEMMA FilesAreTyped ==
    ASSUME TypeOK
    PROVE  /\ files \in Seq(ConflictedFile) /\ Len(files) \in Nat
           /\ request.completion \in {"commit", "preserve"}
           /\ \A p \in Paths : files[p].regions \in Seq(JudgedRegion)
                               /\ Len(files[p].regions) \in Nat
<1>1. files \in Seq(ConflictedFile) /\ request.completion \in {"commit", "preserve"}
  BY DEF TypeOK, Request, files
<1>2. \A p \in Paths : files[p] \in ConflictedFile
  BY <1>1 DEF Paths
<1>3. QED
  BY <1>1, <1>2 DEF ConflictedFile

LEMMA HereIsTyped ==
    ASSUME TypeOK, PlaceInv, pc \in {"region", "ask"}
    PROVE  /\ Here \in JudgedRegion /\ at \in Paths
           /\ region \in DOMAIN files[at].regions
<1>1. at \in Paths /\ region \in 1 .. Len(files[at].regions)
  BY DEF PlaceInv, Resolving
<1>2. files[at].regions \in Seq(JudgedRegion)
  BY <1>1, FilesAreTyped
<1>3. QED
  BY <1>1, <1>2 DEF Here

LEMMA FoundIsText ==
    ASSUME TypeOK, PlaceInv, pc \in {"region", "ask"}, NEW verdict \in Verdicts
    PROVE  Found(verdict) \subseteq Text
<1>1. Here.findings \subseteq Text \X Verdicts
  BY HereIsTyped DEF JudgedRegion
<1>2. QED
  BY <1>1 DEF Found

\* A text of which this is found, and of which nothing else is.
LEMMA OneFinding ==
    ASSUME IInv, pc \in {"region", "ask"},
           NEW verdict \in Verdicts, NEW text \in Found(verdict), NEW v \in Verdicts
    PROVE  <<text, v>> \in Here.findings <=> v = verdict
<1>1. OneVerdict(Here)
  BY HereIsTyped DEF IInv, AllAnswersJudgedOnce, Here
<1>2. PICK y \in Here.findings : y[2] = verdict /\ text = y[1]
  BY DEF Found
<1>3. y \in Text \X Verdicts
  BY <1>2, HereIsTyped DEF IInv, JudgedRegion
<1>4. y = <<text, verdict>>
  BY <1>2, <1>3
<1>5. QED
  BY <1>1, <1>2, <1>4 DEF OneVerdict

LEMMA ChangeIsText ==
    ASSUME TypeOK, PlaceInv, pc = "region"
    PROVE  TheChange(Here) \in Text
  BY HereIsTyped DEF JudgedRegion, TheChange

----------------------------------------
\* Steps that touch neither a file nor a text

Unmoved == UNCHANGED <<request, place, semantic, texts, staging>>

\* What such a step cannot disturb.
LEMMA UnmovedKeeps ==
    ASSUME IInv, Unmoved
    PROVE  AllAnswersJudgedOnce' /\ OnlyAuditedTextIsStaged'
  BY DEF IInv, Unmoved, AllAnswersJudgedOnce, ResolutionIsSound, OnlyAuditedTextIsStaged, Rightly, files, Paths,
    texts, staging

\* Nor one that leaves the files behind.
LEMMA LeavingKeeps ==
    ASSUME IInv, Unmoved, pc' \notin Starting \cup Resolving
    PROVE  PlaceInv' /\ TextsInv' /\ FlagIsOfTheCandidate'
  BY DEF IInv, Unmoved, PlaceInv, TextsInv, FlagIsOfTheCandidate, Starting, Resolving, files, Paths, place,
    texts, staging

LEMMA FailHolds ==
    ASSUME IInv, Fail, pc \in Failing \cup {"region", "ask"},
           UNCHANGED <<request, cancelled, place, semantic, texts, staging, checked, merge>>
    PROVE  IInv'
<1>1. Unmoved /\ pc' \in {"inspect", "abort", "done"}
  BY DEF Unmoved, Fail, End
<1>2. TypeOK'
  BY DEF IInv, TypeOK, Fail, End, files, Paths, StagedPaths, Failing, place, semantic, texts, staging, merge
<1>3. AllAnswersJudgedOnce' /\ OnlyAuditedTextIsStaged'
  BY <1>1, UnmovedKeeps
<1>4. PlaceInv' /\ TextsInv' /\ FlagIsOfTheCandidate'
  BY <1>1, LeavingKeeps DEF Starting, Resolving
<1>5. IndexInv' /\ NoiseInv'
  BY <1>1 DEF IndexInv, NoiseInv, Starting, Resolving, Validating, Concluding
<1>6. MergeInv'
  BY DEF IInv, MergeInv, Fail, End, Failing, Concluding, files, merge
<1>7. ConcludedIsWhole'
  BY DEF IInv, MergeInv, Fail, End, Failing, ResolutionIsSound, ConcludedIsWhole, files, Paths, StagedPaths,
    staging, merge
<1>8. NothingLeftHalfMerged'
  BY DEF IInv, MergeInv, Fail, End, Failing, ResolutionIsSound, NothingLeftHalfMerged, files, Paths, staging,
    merge
<1>9. QED
  BY <1>2, <1>3, <1>4, <1>5, <1>6, <1>7, <1>8 DEF IInv, ResolutionIsSound

LEMMA CancelHolds == IInv /\ (Cancel \/ UNCHANGED vars) => IInv'
<1>. SUFFICES ASSUME IInv, Cancel \/ UNCHANGED vars
              PROVE  IInv'
  OBVIOUS
<1>1. /\ Unmoved /\ cancelled' \in BOOLEAN
      /\ UNCHANGED <<pc, checked, merge, outcome>>
  BY DEF IInv, TypeOK, Cancel, Unmoved, vars
<1>2. TypeOK'
  BY <1>1 DEF IInv, TypeOK, Unmoved, files, Paths, StagedPaths, place, semantic, texts, staging, merge
<1>3. AllAnswersJudgedOnce' /\ OnlyAuditedTextIsStaged'
  BY <1>1, UnmovedKeeps
<1>4. PlaceInv' /\ TextsInv' /\ FlagIsOfTheCandidate'
  <2>1. PlaceInv'
    BY <1>1 DEF IInv, PlaceInv, Here, Unmoved, files, Paths, place
  <2>2. TextsInv'
    BY <1>1 DEF IInv, TextsInv, Rightly, Unmoved, files, Paths, place, texts, staging
  <2>3. FlagIsOfTheCandidate'
    BY <1>1 DEF IInv, ResolutionIsSound, FlagIsOfTheCandidate, Reviewing, Here, Unmoved, files, place, semantic
  <2>4. QED
    BY <2>1, <2>2, <2>3
<1>5. IndexInv' /\ NoiseInv' /\ MergeInv'
  BY <1>1 DEF IInv, IndexInv, NoiseInv, MergeInv, Unmoved, files, Paths, StagedPaths, place, staging, merge
<1>6. ConcludedIsWhole' /\ NothingLeftHalfMerged'
  BY <1>1 DEF IInv, ResolutionIsSound, ConcludedIsWhole, NothingLeftHalfMerged, Unmoved, files, Paths,
    StagedPaths, staging, merge
<1>7. QED
  BY <1>2, <1>3, <1>4, <1>5, <1>6 DEF IInv, ResolutionIsSound

----------------------------------------
\* Steps within a region

\* Another round, or the first one, with a candidate whose flag is its own.
LEMMA RoundHolds ==
    ASSUME IInv, pc \in {"region", "ask"}, ~OneSided(Here), pc' = "ask",
           attempt' \in 1 .. MaxAttempts + 1, client' \in BOOLEAN,
           candidate' \in Text \cup {None}, validated' \in BOOLEAN,
           candidate' # None =>
               /\ <<candidate', "refused">> \notin Here.findings
               /\ validated' <=> <<candidate', "valid">> \in Here.findings,
           UNCHANGED <<request, cancelled, at, region, texts, staging, checked, merge, outcome>>
    PROVE  IInv'
<1>1. TypeOK'
  BY DEF IInv, TypeOK, files, Paths, StagedPaths, Failing, texts, staging, merge
<1>2. AllAnswersJudgedOnce' /\ OnlyAuditedTextIsStaged'
  BY DEF IInv, AllAnswersJudgedOnce, ResolutionIsSound, OnlyAuditedTextIsStaged, Rightly, files, Paths, texts,
    staging
<1>3. PlaceInv'
  BY DEF IInv, PlaceInv, Starting, Resolving, files, Paths, Here
<1>4. TextsInv'
  BY DEF IInv, TextsInv, Starting, files, Paths, texts, staging
<1>5. FlagIsOfTheCandidate'
  BY DEF FlagIsOfTheCandidate, Reviewing, Here, files
<1>6. IndexInv'
  BY DEF IInv, IndexInv, Starting, Resolving, Validating, Concluding, files, Paths, staging
<1>7. NoiseInv'
  BY DEF NoiseInv, Concluding
<1>8. MergeInv'
  BY DEF IInv, MergeInv, Concluding, files, merge
<1>9. ConcludedIsWhole' /\ NothingLeftHalfMerged'
  BY DEF IInv, MergeInv, ResolutionIsSound, ConcludedIsWhole, NothingLeftHalfMerged, merge
<1>10. QED
  BY <1>1, <1>2, <1>3, <1>4, <1>5, <1>6, <1>7, <1>8, <1>9 DEF IInv, ResolutionIsSound

LEMMA BeginSemanticHolds == IInv /\ BeginSemantic => IInv'
<1>. SUFFICES ASSUME IInv, BeginSemantic
              PROVE  IInv'
  OBVIOUS
<1>1. \/ candidate' \in Found("valid") /\ validated' = TRUE
      \/ candidate' = None /\ validated' = FALSE
  BY DEF BeginSemantic, DerivedCandidates
<1>2. /\ candidate' \in Text \cup {None} /\ validated' \in BOOLEAN
      /\ candidate' # None =>
           /\ <<candidate', "refused">> \notin Here.findings
           /\ validated' <=> <<candidate', "valid">> \in Here.findings
  BY <1>1, OneFinding, FoundIsText DEF IInv, BeginSemantic, Verdicts
<1>3. attempt' \in 1 .. MaxAttempts + 1
  BY MergeResolutionAssumption DEF BeginSemantic
<1>4. QED
  BY <1>2, <1>3, RoundHolds DEF BeginSemantic

\* The candidate stays the one it was.
LEMMA SameCandidateHolds ==
    ASSUME IInv, Asking, TryAgain, UNCHANGED <<candidate, validated>>
    PROVE  IInv'
<1>1. attempt' \in 1 .. MaxAttempts + 1 /\ client' \in BOOLEAN
      /\ candidate' \in Text \cup {None} /\ validated' \in BOOLEAN
  BY MergeResolutionAssumption DEF IInv, TypeOK, Asking, TryAgain, place
<1>2. candidate' # None =>
        /\ <<candidate', "refused">> \notin Here.findings
        /\ validated' <=> <<candidate', "valid">> \in Here.findings
  BY DEF IInv, ResolutionIsSound, FlagIsOfTheCandidate, Reviewing, Asking
<1>3. QED
  BY <1>1, <1>2, RoundHolds DEF IInv, PlaceInv, Asking, TryAgain, place

LEMMA NewCandidateHolds ==
    ASSUME IInv, Asking, TryAgain,
           NEW verdict \in {"valid", "unproven"}, candidate' \in Found(verdict),
           validated' = (verdict = "valid")
    PROVE  IInv'
<1>1. attempt' \in 1 .. MaxAttempts + 1 /\ client' \in BOOLEAN
      /\ candidate' \in Text \cup {None} /\ validated' \in BOOLEAN
  BY MergeResolutionAssumption, FoundIsText DEF IInv, TypeOK, Asking, TryAgain, place, Verdicts
<1>2. /\ <<candidate', "refused">> \notin Here.findings
      /\ validated' <=> <<candidate', "valid">> \in Here.findings
  BY OneFinding DEF Asking, Verdicts
<1>3. QED
  BY <1>1, <1>2, RoundHolds DEF IInv, PlaceInv, Asking, TryAgain, place

LEMMA TryAgainHolds ==
    IInv /\ (AnswerIsMalformed \/ ApprovalIsRejected \/ AnswerIsRefused
             \/ RetainUnproven \/ ProposeValid) => IInv'
<1>1. IInv /\ (AnswerIsMalformed \/ ApprovalIsRejected \/ AnswerIsRefused) => IInv'
  BY SameCandidateHolds DEF AnswerIsMalformed, ApprovalIsRejected, AnswerIsRefused
<1>2. IInv /\ RetainUnproven => IInv'
  BY NewCandidateHolds DEF RetainUnproven
<1>3. IInv /\ ProposeValid => IInv'
  BY NewCandidateHolds DEF ProposeValid
<1>4. QED
  BY <1>1, <1>2, <1>3

\* A region is settled with a text that may replace it.
LEMMA SettleHolds ==
    ASSUME IInv, pc \in {"region", "ask"}, NEW text \in Text, NEW inAudit \in BOOLEAN,
           Rightful(Here, text, inAudit), Settle(text, inAudit),
           UNCHANGED <<request, cancelled, at, client, attempt, candidate, validated, staging,
                       checked, merge>>
    PROVE  IInv'
<1>1. /\ at \in Paths /\ Len(files[at].regions) \in Nat
      /\ region \in 1 .. Len(files[at].regions)
  BY FilesAreTyped DEF IInv, PlaceInv, Resolving
<1>2. /\ resolved \in Seq(Text) /\ audited \in [Paths -> Seq(BOOLEAN)]
      /\ Len(resolved) = region - 1 /\ Len(audited[at]) = region - 1
  BY DEF IInv, TypeOK, TextsInv
<1>3. /\ resolved' \in Seq(Text) /\ Len(resolved') = region
      /\ \A k \in 1 .. region : resolved'[k] = IF k = region THEN text ELSE resolved[k]
  BY <1>1, <1>2 DEF Settle
<1>4. /\ audited' \in [Paths -> Seq(BOOLEAN)] /\ Len(audited'[at]) = region
      /\ \A k \in 1 .. region :
           audited'[at][k] = IF k = region THEN inAudit ELSE audited[at][k]
      /\ \A p \in Paths : p # at => audited'[p] = audited[p]
  BY <1>1, <1>2 DEF Settle
<1>5. \A k \in 1 .. region : Rightful(files[at].regions[k], resolved'[k], audited'[at][k])
  BY <1>1, <1>3, <1>4 DEF IInv, TextsInv, Here
<1>6. /\ region' = region + 1
      /\ pc' = IF region = Len(files[at].regions) THEN "write" ELSE "region"
      /\ UNCHANGED <<files, outcome>>
  BY DEF Settle, files
<1>7. TypeOK'
  BY <1>1, <1>3, <1>4, <1>6 DEF IInv, TypeOK, Paths, StagedPaths, Failing, staging, merge
<1>8. AllAnswersJudgedOnce'
  BY DEF IInv, AllAnswersJudgedOnce, files, Paths
<1>9. PlaceInv'
  BY <1>1, <1>6 DEF IInv, PlaceInv, Starting, Resolving, Paths
<1>10. TextsInv'
  <2>1. \A p \in Paths : p > at => audited'[p] = <<>>
    BY <1>1, <1>4 DEF IInv, TypeOK, TextsInv, Paths
  <2>2. pc' = "write" => Rightly(at, resolved)'
    BY <1>1, <1>3, <1>4, <1>5, <1>6 DEF Rightly
  <2>3. QED
    BY <1>1, <1>3, <1>4, <1>5, <1>6, <2>1, <2>2 DEF TextsInv, Starting, Paths
<1>11. IndexInv' /\ NoiseInv'
  BY <1>6 DEF IInv, IndexInv, NoiseInv, Starting, Resolving, Validating, Concluding, Paths, staging
<1>12. MergeInv'
  BY <1>6 DEF IInv, MergeInv, Concluding, merge
<1>13. OnlyAuditedTextIsStaged'
  <2>1. index[at].kind = "conflicted"
    BY <1>1 DEF IInv, IndexInv, Resolving, Paths
  <2>2. QED
    BY <1>4, <1>6, <2>1 DEF IInv, ResolutionIsSound, OnlyAuditedTextIsStaged, Rightly, Paths, staging
<1>14. FlagIsOfTheCandidate' /\ ConcludedIsWhole' /\ NothingLeftHalfMerged'
  BY <1>6 DEF IInv, MergeInv, FlagIsOfTheCandidate, ConcludedIsWhole, NothingLeftHalfMerged, merge
<1>15. QED
  BY <1>7, <1>8, <1>9, <1>10, <1>11, <1>12, <1>13, <1>14 DEF IInv, ResolutionIsSound

LEMMA ResolveOneSidedHolds == IInv /\ ResolveOneSided => IInv'
<1>. SUFFICES ASSUME IInv, ResolveOneSided
              PROVE  IInv'
  OBVIOUS
<1>1. TheChange(Here) \in Text /\ Rightful(Here, TheChange(Here), FALSE)
  BY ChangeIsText DEF IInv, ResolveOneSided, Rightful
<1>2. QED
  BY <1>1, SettleHolds DEF ResolveOneSided

\* What the audit stands by is right for a region with two sides.
LEMMA AuditedHolds ==
    ASSUME IInv, pc = "ask", NEW text \in Found("valid"), Settle(text, TRUE),
           UNCHANGED <<request, cancelled, at, client, attempt, candidate, validated, staging,
                       checked, merge>>
    PROVE  IInv'
<1>1. text \in Text /\ <<text, "valid">> \in Here.findings
  BY OneFinding, FoundIsText DEF IInv, Verdicts
<1>2. Rightful(Here, text, TRUE)
  BY <1>1 DEF IInv, PlaceInv, Rightful
<1>3. QED
  BY <1>1, <1>2, SettleHolds

LEMMA AnswersHold == IInv /\ (Approve \/ AcceptCorrection) => IInv'
<1>1. ASSUME IInv, Approve
      PROVE  IInv'
  <2>1. pc = "ask" /\ candidate # None /\ <<candidate, "valid">> \in Here.findings
    BY <1>1 DEF IInv, ResolutionIsSound, FlagIsOfTheCandidate, Approve, Asking, Reviewing
  <2>2. candidate \in Found("valid")
    BY <2>1 DEF Found
  <2>3. QED
    BY <1>1, <2>1, <2>2, AuditedHolds DEF Approve
<1>2. ASSUME IInv, AcceptCorrection
      PROVE  IInv'
  <2>1. PICK text \in Found("valid") : Settle(text, TRUE)
    BY <1>2 DEF AcceptCorrection, Reviewing
  <2>2. QED
    BY <1>2, <2>1, AuditedHolds DEF AcceptCorrection, Asking
<1>3. QED
  BY <1>1, <1>2

----------------------------------------
\* Steps before, between and after the regions

LEMMA ListConflictsHolds == IInv /\ ListConflicts => IInv'
<1>. SUFFICES ASSUME IInv, ListConflicts
              PROVE  IInv'
  OBVIOUS
<1>1. /\ Unmoved /\ UNCHANGED <<checked, merge>> /\ pc = "list"
      /\ \/ files = <<>> /\ pc' = "done" /\ outcome' = "failed"
         \/ files # <<>> /\ pc' = "incoming" /\ outcome' = outcome
  BY DEF ListConflicts, Unmoved, End
<1>2. TypeOK'
  BY <1>1 DEF IInv, TypeOK, ListConflicts, Failing, files, Paths, StagedPaths, place, semantic, texts, staging,
    merge
<1>3. AllAnswersJudgedOnce' /\ OnlyAuditedTextIsStaged'
  BY <1>1, UnmovedKeeps
<1>4. PlaceInv'
  <2>1. at = 1 /\ (files # <<>> => 1 \in Paths)
    BY <1>1, FilesAreTyped DEF IInv, PlaceInv, Starting, Paths
  <2>2. QED
    BY <1>1, <2>1 DEF PlaceInv, Starting, Resolving, Unmoved, files, Paths, place
<1>5. TextsInv'
  BY <1>1 DEF IInv, PlaceInv, TextsInv, Starting, Unmoved, files, Paths, place, texts, staging
<1>6. IndexInv' /\ NoiseInv' /\ MergeInv'
  BY <1>1 DEF IInv, IndexInv, NoiseInv, MergeInv, Starting, Resolving, Validating, Concluding, Unmoved, files,
    Paths, place, staging, merge
<1>7. FlagIsOfTheCandidate' /\ ConcludedIsWhole' /\ NothingLeftHalfMerged'
  BY <1>1 DEF IInv, MergeInv, FlagIsOfTheCandidate, ConcludedIsWhole, NothingLeftHalfMerged, Unmoved, files,
    merge
<1>8. QED
  BY <1>2, <1>3, <1>4, <1>5, <1>6, <1>7 DEF IInv, ResolutionIsSound

LEMMA ResolveIncomingParentHolds == IInv /\ ResolveIncomingParent => IInv'
<1>. SUFFICES ASSUME IInv, ResolveIncomingParent
              PROVE  IInv'
  OBVIOUS
<1>1. /\ Unmoved /\ UNCHANGED <<cancelled, checked, merge, outcome>>
      /\ pc = "incoming" /\ pc' = "collect"
  BY DEF ResolveIncomingParent, Unmoved
<1>2. TypeOK'
  BY <1>1 DEF IInv, TypeOK, Failing, files, Paths, StagedPaths, Unmoved, place, semantic, texts, staging, merge
<1>3. AllAnswersJudgedOnce' /\ OnlyAuditedTextIsStaged'
  BY <1>1, UnmovedKeeps
<1>4. PlaceInv'
  BY <1>1 DEF IInv, PlaceInv, Starting, Resolving, Unmoved, files, Paths, place
<1>5. TextsInv'
  BY <1>1 DEF IInv, TextsInv, Starting, Unmoved, files, Paths, place, texts, staging
<1>6. IndexInv' /\ NoiseInv' /\ MergeInv'
  BY <1>1 DEF IInv, IndexInv, NoiseInv, MergeInv, Starting, Resolving, Validating, Concluding, Unmoved, files,
    Paths, place, staging, merge
<1>7. FlagIsOfTheCandidate' /\ ConcludedIsWhole' /\ NothingLeftHalfMerged'
  BY <1>1 DEF IInv, MergeInv, FlagIsOfTheCandidate, ConcludedIsWhole, NothingLeftHalfMerged, Unmoved, files,
    merge
<1>8. QED
  BY <1>2, <1>3, <1>4, <1>5, <1>6, <1>7 DEF IInv, ResolutionIsSound

LEMMA CollectConflictFileHolds == IInv /\ CollectConflictFile => IInv'
<1>. SUFFICES ASSUME IInv, CollectConflictFile
              PROVE  IInv'
  OBVIOUS
<1>1. /\ at \in Paths /\ audited[at] = <<>>
      /\ Len(files[at].regions) \in Nat
      /\ files[at].regions # <<>> => Len(files[at].regions) > 0
      /\ files[at].regions = <<>> => Len(files[at].regions) = 0
  <2>1. at \in Paths /\ audited[at] = <<>>
    BY DEF IInv, PlaceInv, TextsInv, Resolving, CollectConflictFile
  <2>2. files[at].regions \in Seq(JudgedRegion)
    BY <2>1, FilesAreTyped DEF IInv
  <2>3. QED
    BY <2>1, <2>2, LenProperties, EmptySeq
<1>2. /\ pc = "collect" /\ pc' \in {"region", "write", "delete"}
      /\ pc' = "region" <=> files[at].regions # <<>>
      /\ region' = 1 /\ resolved' = <<>>
      /\ UNCHANGED <<request, files, cancelled, at, client, semantic, audited, staging, checked,
                     merge, outcome>>
  BY DEF CollectConflictFile, files
<1>3. TypeOK'
  BY <1>2 DEF IInv, TypeOK, Failing, files, Paths, StagedPaths, semantic, staging, merge
<1>4. AllAnswersJudgedOnce' /\ OnlyAuditedTextIsStaged'
  BY <1>2 DEF IInv, AllAnswersJudgedOnce, ResolutionIsSound, OnlyAuditedTextIsStaged, Rightly, Paths, staging
<1>5. PlaceInv'
  BY <1>1, <1>2 DEF PlaceInv, Starting, Resolving, Paths
<1>6. TextsInv'
  BY <1>1, <1>2, EmptySeq DEF IInv, TextsInv, Rightly, Starting, Paths
<1>7. IndexInv' /\ NoiseInv' /\ MergeInv'
  BY <1>2 DEF IInv, IndexInv, NoiseInv, MergeInv, Starting, Resolving, Validating, Concluding, Paths, staging,
    merge
<1>8. FlagIsOfTheCandidate' /\ ConcludedIsWhole' /\ NothingLeftHalfMerged'
  BY <1>2 DEF IInv, MergeInv, FlagIsOfTheCandidate, ConcludedIsWhole, NothingLeftHalfMerged, merge
<1>9. QED
  BY <1>3, <1>4, <1>5, <1>6, <1>7, <1>8 DEF IInv, ResolutionIsSound

LEMMA WriteResolvedFileHolds == IInv /\ WriteResolvedFile => IInv'
<1>. SUFFICES ASSUME IInv, WriteResolvedFile
              PROVE  IInv'
  OBVIOUS
<1>1. at \in Paths /\ Rightly(at, resolved)
  BY DEF IInv, PlaceInv, TextsInv, Resolving, WriteResolvedFile
<1>2. /\ pc = "write" /\ pc' = "stage"
      /\ UNCHANGED <<request, files, cancelled, place, semantic, texts, index, noise, checked,
                     merge, outcome>>
  BY DEF WriteResolvedFile, files
<1>3. tree' \in [Paths -> FileType] /\ tree'[at] = Content(resolved)
  <2>1. Content(resolved) \in FileType /\ tree \in [Paths -> FileType]
    BY DEF IInv, TypeOK, Content, FileType
  <2>2. QED
    BY <1>1, <2>1 DEF WriteResolvedFile
<1>4. TypeOK'
  BY <1>2, <1>3 DEF IInv, TypeOK, Failing, Paths, StagedPaths, place, semantic, texts, merge
<1>5. AllAnswersJudgedOnce' /\ OnlyAuditedTextIsStaged'
  BY <1>2 DEF IInv, AllAnswersJudgedOnce, ResolutionIsSound, OnlyAuditedTextIsStaged, Rightly, Paths, texts
<1>6. PlaceInv'
  BY <1>1, <1>2 DEF PlaceInv, Starting, Resolving, Paths, place
<1>7. TextsInv'
  BY <1>1, <1>2, <1>3 DEF IInv, TextsInv, Rightly, Content, Starting, Paths, place, texts
<1>8. IndexInv' /\ NoiseInv' /\ MergeInv'
  BY <1>2 DEF IInv, IndexInv, NoiseInv, MergeInv, Starting, Resolving, Validating, Concluding, Paths, place,
    merge
<1>9. FlagIsOfTheCandidate' /\ ConcludedIsWhole' /\ NothingLeftHalfMerged'
  BY <1>2 DEF IInv, MergeInv, FlagIsOfTheCandidate, ConcludedIsWhole, NothingLeftHalfMerged, merge
<1>10. QED
  BY <1>4, <1>5, <1>6, <1>7, <1>8, <1>9 DEF IInv, ResolutionIsSound

\* The path is in the index, as it should be: it is the next one's turn, or the
\* command is reported as failed.
LEMMA StagedHolds ==
    ASSUME IInv, pc \in {"stage", "delete"},
           tree' \in [Paths -> FileType], index' \in [Paths -> FileType],
           noise' \in [StagedPaths -> SUBSET Parents],
           index'[at].kind \in {"text", "gone"},
           index'[at].kind = "text" => Rightly(at, index'[at].parts),
           \A p \in Paths \ {at} : index'[p] = index[p],
           NextPath \/ (Fail /\ UNCHANGED at),
           UNCHANGED <<request, cancelled, region, client, semantic, texts, checked, merge>>
    PROVE  IInv'
<1>1. at \in Paths /\ Len(files) \in Nat /\ UNCHANGED files
  BY FilesAreTyped DEF IInv, PlaceInv, Resolving, files
<1>2. \/ /\ at' = at + 1 /\ outcome' = outcome
         /\ pc' = IF at = Len(files) THEN "recheck" ELSE "collect"
      \/ /\ at' = at /\ outcome' = "failed" /\ pc' = "done"
         /\ request.completion = "preserve"
      \/ /\ at' = at /\ outcome' = outcome /\ pc' = "abort"
         /\ request.completion # "preserve"
  BY DEF NextPath, Fail, End
<1>3. TypeOK'
  BY <1>1, <1>2 DEF IInv, TypeOK, Failing, Paths, StagedPaths, semantic, texts, merge
<1>4. AllAnswersJudgedOnce'
  BY <1>1 DEF IInv, AllAnswersJudgedOnce, Paths
<1>5. OnlyAuditedTextIsStaged'
  BY <1>1 DEF IInv, ResolutionIsSound, OnlyAuditedTextIsStaged, Rightly, Paths, texts
<1>6. PlaceInv'
  BY <1>1, <1>2 DEF PlaceInv, Starting, Resolving, Paths
<1>7. TextsInv'
  BY <1>1, <1>2 DEF IInv, TypeOK, TextsInv, Starting, Paths, texts
<1>8. IndexInv'
  BY <1>1, <1>2 DEF IInv, IndexInv, Starting, Resolving, Validating, Concluding, Paths
<1>9. NoiseInv' /\ MergeInv'
  <2>1. NoiseInv'
    BY <1>1, <1>2 DEF IInv, NoiseInv, Concluding
  <2>2. MergeInv'
    BY <1>1, <1>2 DEF IInv, MergeInv, Concluding, merge
  <2>3. QED BY <2>1, <2>2
<1>10. FlagIsOfTheCandidate' /\ ConcludedIsWhole' /\ NothingLeftHalfMerged'
  BY <1>1, <1>2 DEF IInv, MergeInv, FlagIsOfTheCandidate, ConcludedIsWhole, NothingLeftHalfMerged, merge
<1>11. QED
  BY <1>3, <1>4, <1>5, <1>6, <1>7, <1>8, <1>9, <1>10 DEF IInv, ResolutionIsSound

LEMMA StageResolvedFileHolds == IInv /\ StageResolvedFile => IInv'
<1>. SUFFICES ASSUME IInv, StageResolvedFile
              PROVE  IInv'
  OBVIOUS
<1>1. at \in Paths /\ tree[at].kind = "text" /\ Rightly(at, tree[at].parts)
  BY DEF IInv, PlaceInv, TextsInv, Resolving, StageResolvedFile
<1>2. /\ tree \in [Paths -> FileType] /\ index \in [Paths -> FileType]
      /\ noise \in [StagedPaths -> SUBSET Parents]
  BY DEF IInv, TypeOK
<1>3. noise' \in [StagedPaths -> SUBSET Parents]
  BY <1>2 DEF StageResolvedFile
<1>4. index' = [index EXCEPT ![at] = tree[at]] /\ tree' = tree
  BY DEF StageResolvedFile
<1>5. QED
  BY <1>1, <1>2, <1>3, <1>4, StagedHolds DEF StageResolvedFile

LEMMA StageDeletedFileHolds == IInv /\ StageDeletedFile => IInv'
<1>. SUFFICES ASSUME IInv, StageDeletedFile
              PROVE  IInv'
  OBVIOUS
<1>1. at \in Paths /\ Gone \in FileType /\ Gone.kind = "gone"
  BY EmptySeq DEF IInv, PlaceInv, Resolving, StageDeletedFile, Gone, FileType
<1>2. /\ tree \in [Paths -> FileType] /\ index \in [Paths -> FileType]
      /\ noise' \in [StagedPaths -> SUBSET Parents]
  BY DEF IInv, TypeOK, StageDeletedFile, files, Paths, StagedPaths
<1>3. index' = [index EXCEPT ![at] = Gone] /\ tree' = [tree EXCEPT ![at] = Gone]
  BY DEF StageDeletedFile
<1>4. QED
  BY <1>1, <1>2, <1>3, StagedHolds DEF StageDeletedFile

----------------------------------------
\* Validation and conclusion

\* A step of the validation: it only goes on.
LEMMA ValidationHolds ==
    ASSUME IInv, pc \in {"recheck"} \cup Validating,
           pc' \in Validating \cup {request.completion},
           checked' \in 1 .. Len(files) + 2,
           \A p \in Paths : index[p].kind \in {"text", "gone"},
           NoiseInv',
           UNCHANGED <<request, cancelled, place, semantic, texts, staging, merge, outcome>>
    PROVE  IInv'
<1>1. request.completion \in {"commit", "preserve"}
  BY FilesAreTyped DEF IInv
<1>2. Unmoved /\ UNCHANGED files /\ pc' \in Validating \cup Concluding
  BY <1>1 DEF Unmoved, Concluding, files
<1>3. TypeOK'
  BY <1>2 DEF IInv, TypeOK, Validating, Concluding, Failing, Paths, StagedPaths, place, semantic, texts,
    staging, merge
<1>4. AllAnswersJudgedOnce' /\ OnlyAuditedTextIsStaged'
  BY <1>2, UnmovedKeeps
<1>5. PlaceInv' /\ TextsInv' /\ FlagIsOfTheCandidate'
  BY <1>2, LeavingKeeps DEF Starting, Resolving, Validating, Concluding
<1>6. IndexInv'
  BY <1>2 DEF IndexInv, Starting, Resolving, Validating, Concluding, Paths, staging
<1>7. MergeInv'
  BY <1>1, <1>2 DEF IInv, MergeInv, Validating, Concluding, merge
<1>8. ConcludedIsWhole' /\ NothingLeftHalfMerged'
  BY <1>2 DEF IInv, MergeInv, ConcludedIsWhole, NothingLeftHalfMerged, Validating, Concluding, merge
<1>9. QED
  BY <1>3, <1>4, <1>5, <1>6, <1>7, <1>8 DEF IInv, ResolutionIsSound

LEMMA RecheckHolds == IInv /\ Recheck => IInv'
<1>. SUFFICES ASSUME IInv, Recheck
              PROVE  IInv'
  OBVIOUS
<1>1. \A p \in Paths : index[p].kind \in {"text", "gone"}
  BY DEF IInv, IndexInv, Recheck
<1>2. NoiseInv' /\ pc' \in Validating /\ checked' \in 1 .. Len(files) + 2
  BY DEF IInv, TypeOK, Recheck, NoiseInv, Validating, Concluding
<1>3. QED
  BY <1>1, <1>2, ValidationHolds DEF Recheck

LEMMA CheckIndexHolds == IInv /\ CheckIndex => IInv'
<1>. SUFFICES ASSUME IInv, CheckIndex
              PROVE  IInv'
  OBVIOUS
<1>1. \A p \in Paths : index[p].kind \in {"text", "gone"}
  BY DEF IInv, IndexInv, CheckIndex, Validating
<1>2. /\ pc' \in Validating \cup {request.completion} /\ checked' \in 1 .. Len(files) + 2
      /\ UNCHANGED <<StagedPaths, noise>>
  BY FilesAreTyped DEF IInv, CheckIndex, Validating, StagedPaths, files, staging
<1>3. NoiseInv'
  <2>1. CASE pc' = "stagedPaths"
    BY <2>1 DEF NoiseInv, Concluding, CheckIndex
  <2>2. CASE pc' = request.completion /\ \A p \in StagedPaths : "current" \notin noise[p]
    BY <1>2, <2>2, FilesAreTyped DEF IInv, NoiseInv, Parents
  <2>3. QED
    BY <2>1, <2>2 DEF CheckIndex
<1>4. QED
  BY <1>1, <1>2, <1>3, ValidationHolds DEF CheckIndex, Validating

LEMMA ListStagedPathsHolds == IInv /\ ListStagedPaths => IInv'
<1>. SUFFICES ASSUME IInv, ListStagedPaths
              PROVE  IInv'
  OBVIOUS
<1>1. \A p \in Paths : index[p].kind \in {"text", "gone"}
  BY DEF IInv, IndexInv, ListStagedPaths, Validating
<1>2. NoiseInv' /\ pc' \in Validating /\ checked' \in 1 .. Len(files) + 2
  BY FilesAreTyped DEF IInv, TypeOK, ListStagedPaths, NoiseInv, Validating, Concluding, StagedPaths, files,
    staging
<1>3. QED
  BY <1>1, <1>2, ValidationHolds DEF ListStagedPaths, Validating

\* The path at checked is found to be free of errors that are new to both.
LEMMA NextStagedPathHolds ==
    ASSUME IInv, pc \in {"currentCheck", "incomingCheck"}, noise[checked] # Parents,
           NextStagedPath,
           UNCHANGED <<request, cancelled, place, semantic, texts, staging, merge, outcome>>
    PROVE  IInv'
<1>1. \A p \in Paths : index[p].kind \in {"text", "gone"}
  BY DEF IInv, IndexInv, Validating
<1>2. /\ checked \in StagedPaths /\ Len(files) \in Nat
      /\ request.completion \in {"commit", "preserve"}
      /\ \A p \in StagedPaths : p < checked => noise[p] # Parents
  BY FilesAreTyped DEF IInv, NoiseInv
<1>3. /\ checked' = checked + 1 /\ UNCHANGED <<StagedPaths, noise>>
      /\ pc' = IF checked = Len(files) + 1 THEN request.completion ELSE "currentCheck"
  BY DEF NextStagedPath, StagedPaths, files, staging
<1>4. NoiseInv'
  BY <1>2, <1>3 DEF NoiseInv, Concluding, StagedPaths
<1>5. /\ pc' \in Validating \cup {request.completion} /\ checked' \in 1 .. Len(files) + 2
  BY <1>2, <1>3 DEF Validating, StagedPaths
<1>6. QED
  BY <1>1, <1>4, <1>5, ValidationHolds DEF Validating

LEMMA CheckCurrentParentHolds == IInv /\ CheckCurrentParent => IInv'
<1>. SUFFICES ASSUME IInv, CheckCurrentParent
              PROVE  IInv'
  OBVIOUS
<1>1. CASE "current" \notin noise[checked] /\ NextStagedPath
  BY <1>1, NextStagedPathHolds DEF CheckCurrentParent, Parents
<1>2. CASE pc' = "incomingCheck" /\ UNCHANGED checked
  <2>1. \A p \in Paths : index[p].kind \in {"text", "gone"}
    BY DEF IInv, IndexInv, CheckCurrentParent, Validating
  <2>2. NoiseInv' /\ pc' \in Validating /\ checked' \in 1 .. Len(files) + 2
    BY <1>2 DEF IInv, TypeOK, CheckCurrentParent, NoiseInv, Validating, Concluding, StagedPaths, files, staging
  <2>3. QED
    BY <2>1, <2>2, ValidationHolds DEF CheckCurrentParent, Validating
<1>3. QED
  BY <1>1, <1>2 DEF CheckCurrentParent

LEMMA CheckIncomingParentHolds == IInv /\ CheckIncomingParent => IInv'
  BY NextStagedPathHolds DEF CheckIncomingParent, Parents

\* Where the files and the texts are what they were, this is left to show.
LEMMA EndingHolds ==
    ASSUME IInv, Unmoved, TypeOK', pc' \in {"abort", "done"}, MergeInv', ConcludedIsWhole',
           NothingLeftHalfMerged'
    PROVE  IInv'
<1>1. AllAnswersJudgedOnce' /\ OnlyAuditedTextIsStaged'
  BY UnmovedKeeps
<1>2. PlaceInv' /\ TextsInv' /\ FlagIsOfTheCandidate'
  BY LeavingKeeps DEF Starting, Resolving
<1>3. IndexInv' /\ NoiseInv'
  BY DEF IndexInv, NoiseInv, Starting, Resolving, Validating, Concluding
<1>4. QED
  BY <1>1, <1>2, <1>3 DEF IInv, ResolutionIsSound

LEMMA PreserveIndexHolds == IInv /\ PreserveIndex => IInv'
<1>. SUFFICES ASSUME IInv, PreserveIndex
              PROVE  IInv'
  OBVIOUS
<1>1. /\ Unmoved /\ UNCHANGED <<request, files, cancelled, checked, merge>>
      /\ pc = "preserve" /\ pc' = "done" /\ outcome' = "completed"
  BY DEF PreserveIndex, End, Unmoved, files
<1>2. TypeOK'
  BY <1>1 DEF IInv, TypeOK, Unmoved, Failing, Paths, StagedPaths, place, semantic, texts, staging, merge
<1>3. MergeInv' /\ NothingLeftHalfMerged'
  BY <1>1 DEF IInv, MergeInv, NothingLeftHalfMerged, Concluding, merge
<1>4. ConcludedIsWhole'
  BY <1>1 DEF IInv, IndexInv, NoiseInv, ConcludedIsWhole, Concluding, Unmoved, Paths, StagedPaths, staging
<1>5. QED
  BY <1>1, <1>2, <1>3, <1>4, EndingHolds

LEMMA CommitMergeHolds == IInv /\ CommitMerge => IInv'
<1>. SUFFICES ASSUME IInv, CommitMerge
              PROVE  IInv'
  OBVIOUS
<1>1. pc = "commit" /\ request.completion = "commit"
  BY DEF IInv, MergeInv, Concluding, CommitMerge
<1>2. /\ Unmoved /\ UNCHANGED <<request, files, cancelled, checked>>
      /\ merging' = FALSE /\ head' = "merged"
      /\ \/ pc' = "done" /\ outcome' = "completed"
         \/ pc' = "abort" /\ outcome' = outcome
  BY <1>1 DEF CommitMerge, Fail, End, Unmoved, files
<1>3. TypeOK'
  BY <1>2 DEF IInv, TypeOK, Unmoved, Failing, Paths, StagedPaths, place, semantic, texts, staging
<1>4. MergeInv' /\ NothingLeftHalfMerged'
  BY <1>1, <1>2 DEF IInv, MergeInv, NothingLeftHalfMerged, Concluding
<1>5. ConcludedIsWhole'
  BY <1>1, <1>2 DEF IInv, IndexInv, NoiseInv, ConcludedIsWhole, Concluding, Unmoved, Paths, StagedPaths, staging
<1>6. QED
  BY <1>2, <1>3, <1>4, <1>5, EndingHolds

LEMMA InspectMergeHolds == IInv /\ InspectMerge => IInv'
<1>. SUFFICES ASSUME IInv, InspectMerge
              PROVE  IInv'
  OBVIOUS
<1>1. /\ Unmoved /\ UNCHANGED <<request, files, cancelled, checked, merge>> /\ pc = "inspect"
      /\ \/ pc' = "abort" /\ outcome' = outcome
         \/ ~merging /\ pc' = "done" /\ outcome' = "failed"
         \/ pc' = "done" /\ outcome' = "handedOff"
  BY DEF InspectMerge, End, Unmoved, files
<1>2. TypeOK'
  BY <1>1 DEF IInv, TypeOK, Unmoved, Failing, Paths, StagedPaths, place, semantic, texts, staging, merge
<1>3. MergeInv' /\ ConcludedIsWhole' /\ NothingLeftHalfMerged'
  BY <1>1 DEF IInv, MergeInv, ConcludedIsWhole, NothingLeftHalfMerged, Concluding, merge
<1>4. QED
  BY <1>1, <1>2, <1>3, EndingHolds

\* git takes the merge back, or there is nothing that it does.
LEMMA AbortMergeHolds == IInv /\ AbortMerge => IInv'
<1>. SUFFICES ASSUME IInv, AbortMerge
              PROVE  IInv'
  OBVIOUS
<1>1. /\ pc = "abort" /\ pc' = "done" /\ outcome' \in {"rolledBack", "handedOff"}
      /\ UNCHANGED <<request, files, cancelled, place, semantic, texts, noise, checked, head>>
  BY DEF AbortMerge, End, files
<1>2. CASE UNCHANGED <<merging, tree, index>> /\ End("handedOff")
  <2>1. Unmoved
    BY <1>1, <1>2 DEF Unmoved, staging
  <2>2. TypeOK'
    BY <1>1, <1>2 DEF IInv, TypeOK, Failing, Paths, StagedPaths, place, semantic, texts
  <2>3. MergeInv' /\ ConcludedIsWhole' /\ NothingLeftHalfMerged'
    BY <1>1, <1>2 DEF IInv, MergeInv, ResolutionIsSound, ConcludedIsWhole, NothingLeftHalfMerged, End,
      Concluding, Paths, StagedPaths
  <2>4. QED
    BY <1>1, <2>1, <2>2, <2>3, EndingHolds
<1>3. CASE /\ merging /\ merging' = FALSE
           /\ tree' = [p \in Paths |-> Before] /\ index' = tree'
  <2>1. head = "before" /\ request.completion = "commit"
    BY <1>3, FilesAreTyped DEF IInv, MergeInv
  <2>2. Before \in FileType /\ Before.kind = "before"
    BY EmptySeq DEF Before, FileType
  <2>3. TypeOK'
    BY <1>1, <1>3, <2>2 DEF IInv, TypeOK, Failing, Paths, StagedPaths, place, semantic, texts
  <2>4. AllAnswersJudgedOnce' /\ OnlyAuditedTextIsStaged'
    BY <1>1, <1>3, <2>2 DEF IInv, AllAnswersJudgedOnce, OnlyAuditedTextIsStaged, Paths
  <2>5. PlaceInv' /\ IndexInv' /\ NoiseInv' /\ FlagIsOfTheCandidate'
    BY <1>1 DEF PlaceInv, IndexInv, NoiseInv, FlagIsOfTheCandidate, Starting, Resolving, Validating, Concluding
  <2>6. TextsInv'
    BY <1>1 DEF IInv, TextsInv, Starting, Paths, place, texts
  <2>7. MergeInv' /\ ConcludedIsWhole' /\ NothingLeftHalfMerged'
    BY <1>1, <1>3, <2>1 DEF IInv, MergeInv, ConcludedIsWhole, NothingLeftHalfMerged, Concluding, Paths
  <2>8. QED
    BY <2>3, <2>4, <2>5, <2>6, <2>7 DEF IInv, ResolutionIsSound
<1>4. QED
  BY <1>2, <1>3 DEF AbortMerge

----------------------------------------
\* The initial states, and every step

LEMMA InitHolds == Init => IInv
<1>. SUFFICES ASSUME Init
              PROVE  IInv
  OBVIOUS
<1>1. /\ request \in Request /\ AllAnswersJudgedOnce
      /\ MaxAttempts \in Nat \ {0}
  BY MergeResolutionAssumption DEF Init, AllAnswersJudgedOnce, files, Paths
<1>2. /\ files \in Seq(ConflictedFile) /\ Len(files) \in Nat /\ request.inherited \subseteq Parents
  BY <1>1 DEF Request, files
<1>3. Conflicted \in FileType /\ Conflicted.kind = "conflicted"
  BY EmptySeq DEF Conflicted, FileType
<1>4. TypeOK
  <2>1. /\ tree \in [Paths -> FileType] /\ index \in [Paths -> FileType]
        /\ audited \in [Paths -> Seq(BOOLEAN)] /\ resolved \in Seq(Text)
    BY <1>3, EmptySeq DEF Init
  <2>2. noise \in [StagedPaths -> SUBSET Parents]
    BY <1>2 DEF Init
  <2>3. /\ cancelled \in BOOLEAN /\ client \in BOOLEAN /\ validated \in BOOLEAN
        /\ merging \in BOOLEAN
    BY DEF Init
  <2>4. QED
    BY <1>1, <1>2, <2>1, <2>2, <2>3 DEF Init, TypeOK, Failing
<1>5. PlaceInv /\ TextsInv /\ IndexInv /\ NoiseInv
  <2>1. pc = "list" /\ at = 1
    BY DEF Init
  <2>2. \A p \in Paths : audited[p] = <<>> /\ index[p].kind = "conflicted" /\ p \in Nat /\ p >= 1
    BY <1>2, <1>3 DEF Init, Paths
  <2>3. PlaceInv
    BY <2>1 DEF PlaceInv, Starting, Resolving
  <2>4. TextsInv
    BY <2>1, <2>2 DEF TextsInv, Starting
  <2>5. IndexInv
    BY <2>1, <2>2 DEF IndexInv, Starting, Resolving, Validating, Concluding
  <2>6. NoiseInv
    BY <2>1 DEF NoiseInv, Concluding
  <2>7. QED BY <2>3, <2>4, <2>5, <2>6
<1>6. MergeInv
  BY DEF Init, MergeInv, Concluding
<1>7. ResolutionIsSound
  BY <1>3 DEF Init, ResolutionIsSound, OnlyAuditedTextIsStaged, FlagIsOfTheCandidate, ConcludedIsWhole,
    NothingLeftHalfMerged
<1>8. QED
  BY <1>1, <1>4, <1>5, <1>6, <1>7 DEF IInv

LEMMA StepHolds == IInv /\ [Next]_vars => IInv'
<1>1. IInv /\ CallFails => IInv'
  BY FailHolds DEF CallFails
<1>2. IInv /\ (ClientFails \/ ProviderFails \/ Exhausted) => IInv'
  BY FailHolds DEF ClientFails, ProviderFails, Exhausted, Asking
<1>3. IInv /\ (Cancel \/ Done \/ UNCHANGED vars) => IInv'
  BY CancelHolds DEF Done
<1>4. QED
  BY <1>1, <1>2, <1>3, ListConflictsHolds, ResolveIncomingParentHolds, CollectConflictFileHolds,
    ResolveOneSidedHolds, BeginSemanticHolds, TryAgainHolds, AnswersHold, WriteResolvedFileHolds,
    StageResolvedFileHolds, StageDeletedFileHolds, RecheckHolds, CheckIndexHolds, ListStagedPathsHolds,
    CheckCurrentParentHolds, CheckIncomingParentHolds, PreserveIndexHolds, CommitMergeHolds, InspectMergeHolds,
    AbortMergeHolds DEF Next, Resolver

\* The invariant that carries the others: what is resolved of a file is its first
\* regions, rightly; the paths before this one are staged and no other; what is
\* checked is clean; a merge is concluded at the end or not at all.
THEOREM InvariantHolds == Spec => []IInv
  BY InitHolds, StepHolds, PTL DEF Spec

\* The variables of the resolution have their types, for any requests and any
\* number of attempts.
THEOREM TypeCorrect == Spec => []TypeOK
<1>1. IInv => TypeOK
  BY DEF IInv
<1>2. QED
  BY <1>1, InvariantHolds, PTL

\* However many files and regions there are, whatever the model answers, whatever
\* fails or is cancelled: only audited text is staged, the flag that lets an
\* approval count is that of the candidate shown, and the merge is concluded as a
\* whole, taken back, or handed off.
THEOREM ResolutionSound == Spec => []ResolutionIsSound
<1>1. IInv => ResolutionIsSound
  BY DEF IInv
<1>2. QED
  BY <1>1, InvariantHolds, PTL

========================================
