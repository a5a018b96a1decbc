---------------------------- MODULE MergeConflicts ----------------------------
(***************************************************************************)
(* The resolution of conflicts (MergeResolution) with what gix itself      *)
(* derives and proves (MergeTokens).                                       *)
(***************************************************************************)
EXTENDS MergeResolution, MergeTokens, MergeMarkers

\* The region with what gix derives from it and what it finds of the texts that
\* the model, which is external, may return; these may include the derived one.
Judged(r, replies) ==
    LET derived == UNION {Derived(d) : d \in {Diffed(r)}}
    IN [base |-> r.base, ours |-> r.ours, theirs |-> r.theirs, derived |-> derived,
        findings |-> {<<text, Verdict(d, text)>> :
                        text \in replies \cup derived, d \in {Diffed(r)}}]

ASSUME MergeConflictsAssumption ==
    \A q \in Requests : \A p \in DOMAIN q.files : \A k \in DOMAIN q.files[p].regions :
        LET r == q.files[p].regions[k]
        IN r = Judged(r, {finding[1] : finding \in r.findings})

\* The edits of each side, applied to the base, give that side.
EditsReplay ==
    pc = "region" =>
        \A d \in {Diffed(Here)} :
            d.available => /\ ApplyEdits(d.base, d.ours) = Here.ours
                           /\ ApplyEdits(d.base, d.theirs) = Here.theirs

\* The reference for a derived text, position by position: what is inserted
\* there in the order of strings, the replacement that starts there, and the
\* base's token unless an edit covers it.
MergedByPosition(base, edits) ==
    LET Inserted(p) == SetToSortSeq({e.text : e \in {x \in edits : IsInsertion(x) /\ x.start = p}},
                                    Smaller)
        Put(p) == Join(Inserted(p)) \o
                  Join([i \in 1 .. Cardinality({e \in edits : ~IsInsertion(e) /\ e.start = p}) |->
                          (CHOOSE e \in edits : ~IsInsertion(e) /\ e.start = p).text])
        Kept(p) == IF p = Len(base) \/ \E e \in edits : e.start <= p /\ p < e.end
                   THEN <<>> ELSE base[p + 1]
    IN Join([i \in 1 .. Len(base) + 1 |-> Put(i - 1) \o Kept(i - 1)])

\* The derived text is the current side with every edit of the other side that
\* conflicts with none of its own, and nothing else.
DerivedIsMerge ==
    pc = "region" /\ ~OneSided(Here) /\ Here.base # <<>> =>
        \A d \in {Diffed(Here)} :
            d.available =>
                Derived(d) = {MergedByPosition(d.base, d.ours \cup
                                 {o \in d.theirs : \A e \in d.ours : ~EditsConflict(e, o)})}

\* What gix derives passes its own validation, so that the first request is
\* an audit, unless the two sides take each other back.
DerivedIsValid ==
    pc = "region" /\ ~OneSided(Here) => Here.derived \subseteq Found("valid") \cup {Here.base}

\* The visible characters that a side adds with an edit nothing conflicts with.
Added(d, edits, others, other) ==
    UNION {Range(e.text) : e \in {x \in edits : \A o \in others : ~EditsConflict(x, o)}}
        \ (Spaces \cup Range(d.region.base) \cup Range(other))

\* Whatever the model has proposed and corrected: the text written for a region
\* has every visible character that only one side adds, beside whatever the
\* other side does.
SettledTextKeepsAdditions ==
    pc = "write" =>
        \A k \in DOMAIN resolved : \A d \in {Diffed(files[at].regions[k])} :
            d.available =>
                Added(d, d.ours, d.theirs, d.region.theirs)
                    \cup Added(d, d.theirs, d.ours, d.region.ours) \subseteq Range(resolved[k])

\* parseMergeConflictDocument, whatever lines a file has: it is cut where git has
\* put the markers or refused, and refused only when a line of it looks like a
\* marker.  A matter of the file alone: examined where nothing is listed.
FilesAreCutRight ==
    pc = "list" /\ ~cancelled /\ request.files = <<>> /\ request.inherited = {} => MarkersAreCutRight

\* The text of a conflicted region is the merge of its sides: what gix derives is
\* the merge of a region, passes gix's own validation, and what is written has the
\* additions of both.
TextIsTheMerge ==
    /\ EditsReplay /\ DerivedIsMerge /\ DerivedIsValid /\ SettledTextKeepsAdditions
========================================
