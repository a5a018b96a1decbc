----------------------------- MODULE MergeTokens -----------------------------
(***************************************************************************)
(* merge_conflict_strategy.go and validateMergeConflictRegionResponse:     *)
(* what gix itself makes of one conflict region that both sides have       *)
(* changed, and what it can prove of a text that is to replace the region. *)
(***************************************************************************)
EXTENDS MergeTexts, FiniteSets, SequencesExt

CONSTANT MaximumCells  \* mergeConflictTokenDiffMaximumCells

ASSUME MaximumCellsAssumption == MaximumCells \in Nat

----------------------------------------
\* Tokens: runs of characters of one class

Class(c) == CASE c \in Letters -> 1 [] c \in Spaces -> 2 [] OTHER -> 3

Tokens(text) ==
    LET Grow(tokens, c) ==
          IF tokens # <<>> /\ Class(Last(Last(tokens))) = Class(c)
          THEN [tokens EXCEPT ![Len(tokens)] = Append(@, c)]
          ELSE Append(tokens, <<c>>)
    IN FoldLeft(Grow, <<>>, text)

Join(tokens) == FlattenSeq(tokens)

----------------------------------------
\* Edits: what lies between the tokens of a longest common subsequence

\* The matrix of longestSubsequences has a bound.
EditsAvailable(base, variant) ==
    Len(base) + 1 <= MaximumCells \div (Len(variant) + 1)

\* Row i of longestSubsequences, from the row below it.
RowAbove(below, token, t) ==
    FoldRight(LAMBDA j, row :
                 <<IF token = t[j] THEN 1 + below[j + 1]
                   ELSE IF below[j] >= row[1] THEN below[j] ELSE row[1]>> \o row,
              [j \in 1 .. Len(t) |-> j], <<0>>)

LongestSubsequences(s, t) ==
    FoldRight(LAMBDA token, rows : <<RowAbove(rows[1], token, t)>> \o rows,
              s, << [j \in 1 .. Len(t) + 1 |-> 0] >>)

\* The matched positions, between the starts and the ends.
Anchors(s, t) ==
    LET longest == LongestSubsequences(s, t)
        walk[i \in 1 .. Len(s) + 1, j \in 1 .. Len(t) + 1] ==
          IF i > Len(s) \/ j > Len(t) THEN << <<Len(s) + 1, Len(t) + 1>> >>
          ELSE IF s[i] = t[j] THEN << <<i, j>> >> \o walk[i + 1, j + 1]
          ELSE IF longest[i + 1][j] >= longest[i][j + 1] THEN walk[i + 1, j]
          ELSE walk[i, j + 1]
    IN << <<0, 0>> >> \o walk[1, 1]

\* The tokens after position start, up to end, of the base become text.
Edits(base, variant) ==
    LET anchors == Anchors(base, variant)
        Gap(k) == [start |-> anchors[k][1], end |-> anchors[k + 1][1] - 1,
                   text |-> Join(SubSeq(variant, anchors[k][2] + 1, anchors[k + 1][2] - 1))]
    IN {e \in {Gap(k) : k \in 1 .. Len(anchors) - 1} : e.start # e.end \/ e.text # <<>>}

IsInsertion(e) == e.start = e.end

EditsConflict(left, right) ==
    /\ ~(IsInsertion(left) /\ IsInsertion(right))
    /\ IF left.start = right.start /\ left.end = right.end
       THEN left.text # right.text
       ELSE left.start < right.end /\ right.start < left.end

Compatible(edits) == \A left, right \in edits : ~EditsConflict(left, right)

\* The order of byte strings.
Smaller(s, t) ==
    \/ IsStrictPrefix(s, t)
    \/ \E k \in 1 .. Len(s) :
         /\ k <= Len(t) /\ s[k] < t[k]
         /\ SubSeq(s, 1, k - 1) = SubSeq(t, 1, k - 1)

\* Faulty: an insertion comes after the replacement of what follows it.
EditOrderByStart(left, right) ==
    \/ left.start < right.start
    \/ left.start = right.start /\ left.end > right.end

EditOrder(left, right) ==
    \/ left.start < right.start
    \/ left.start = right.start /\ left.end < right.end
    \/ left.start = right.start /\ left.end = right.end /\ Smaller(left.text, right.text)

ApplyEdits(base, edits) ==
    LET Splice(done, e) ==
          [ok |-> done.ok /\ done.cursor <= e.start, cursor |-> e.end,
           text |-> done.text \o Join(SubSeq(base, done.cursor + 1, e.start)) \o e.text]
        done == FoldLeft(Splice, [ok |-> TRUE, cursor |-> 0, text |-> <<>>],
                         SetToSortSeq(edits, EditOrder))
    IN IF done.ok THEN done.text \o Join(SubSeq(base, done.cursor + 1, Len(base))) ELSE None

\* mergeConflictVariantWithCompatibleOtherEdits
WithCompatible(base, edits, others) ==
    LET all == edits \cup {o \in others : \A e \in edits : ~EditsConflict(e, o)}
    IN IF Compatible(all) THEN ApplyEdits(base, all) ELSE None

----------------------------------------
\* deterministicMergeConflictRegionResolution

\* A region with the tokens of its base and the edits of the two sides; these
\* are not used where the matrix would be too large.
Diffed(r) ==
    LET base == Tokens(r.base)
    IN [region |-> r, base |-> base,
        ours |-> Edits(base, Tokens(r.ours)), theirs |-> Edits(base, Tokens(r.theirs)),
        available |-> \A side \in {r.ours, r.theirs} : EditsAvailable(base, Tokens(side))]

\* What gix derives from a region both sides have changed, if anything.
Derived(d) ==
    IF d.region.base = <<>> THEN {d.region.ours \o d.region.theirs}
    ELSE IF ~d.available THEN {}
    ELSE (IF Compatible(d.ours \cup d.theirs) THEN {ApplyEdits(d.base, d.ours \cup d.theirs)}
          ELSE {WithCompatible(d.base, d.ours, d.theirs)}) \ {None}

----------------------------------------
\* validateMergeConflictRegionResponse: white space aside, are the
\* replacements of both sides in the text returned?

Bare(text) == SelectSeq(text, LAMBDA c : c \notin Spaces)

Occurs(part, text) ==
    \E i \in 0 .. Len(text) : i + Len(part) <= Len(text) /\ SubSeq(text, i + 1, i + Len(part)) = part

\* strings.Count of a part that is not empty.
Occurrences(part, text) ==
    LET count[i \in 0 .. Len(text)] ==
          IF i + Len(part) > Len(text) THEN 0
          ELSE IF SubSeq(text, i + 1, i + Len(part)) = part THEN 1 + count[i + Len(part)]
          ELSE count[i + 1]
    IN count[0]

ContextTokens == 3

Visible(tokens) == SelectSeq(tokens, LAMBDA token : Bare(token) # <<>>)

LeftContext(base, start) ==
    LET before == Visible(SubSeq(base, 1, start))
        skipped == IF Len(before) > ContextTokens THEN Len(before) - ContextTokens ELSE 0
    IN Join(SubSeq(before, skipped + 1, Len(before)))

RightContext(base, end) ==
    LET behind == Visible(SubSeq(base, end + 1, Len(base)))
    IN Join(SubSeq(behind, 1, IF Len(behind) > ContextTokens THEN ContextTokens ELSE Len(behind)))

\* The replacement occurs as often as in its side, or beside what it was beside.
IntentKept(base, e, variant, answer) ==
    LET new == Bare(e.text)
        left == LeftContext(base, e.start)
        right == RightContext(base, e.end)
    IN \/ /\ Occurrences(new, Bare(variant)) > Occurrences(new, Bare(Join(base)))
          /\ Occurrences(new, answer) >= Occurrences(new, Bare(variant))
       \/ left # <<>> /\ Occurs(left \o new, answer)
       \/ right # <<>> /\ Occurs(new \o right, answer)

\* The other side's replacement of the same tokens is there instead.
AlternativeKept(base, e, others, other, answer) ==
    \E o \in others :
        /\ EditsConflict(e, o)
        /\ \/ answer = Bare(other)
           \/ Bare(o.text) # <<>> /\ IntentKept(base, o, other, answer)

\* mergeConflictMissingReplacementIntents
Missing(base, edits, variant, others, other, answer) ==
    LET combined == WithCompatible(base, edits, others)
    IN IF \/ Bare(variant) # <<>> /\ Occurs(Bare(variant), answer)
          \/ combined # None /\ Bare(combined) # <<>> /\ Occurs(Bare(combined), answer)
       THEN {}
       ELSE {e \in edits :
               /\ Bare(e.text) # <<>>
               /\ ~IntentKept(base, e, variant, answer)
               /\ ~AlternativeKept(base, e, others, other, answer)}

\* "valid", "unproven" (errMergeConflictReplacementIntentProofUnavailable) or
\* "refused".
Verdict(d, answer) ==
    LET r == d.region
        bare == Bare(answer)
        IsVariant(text) == text # None /\ Bare(text) = bare
    IN IF r.base = <<>>
       THEN IF answer \in {r.ours \o r.theirs, r.theirs \o r.ours} THEN "valid" ELSE "refused"
       ELSE IF answer = r.base /\ (r.ours # r.base \/ r.theirs # r.base) THEN "refused"
       ELSE IF ~d.available THEN "unproven"
       ELSE IF \/ IsVariant(WithCompatible(d.base, d.ours, d.theirs))
               \/ IsVariant(WithCompatible(d.base, d.theirs, d.ours))
               \/ /\ Missing(d.base, d.ours, r.ours, d.theirs, r.theirs, bare) = {}
                  /\ Missing(d.base, d.theirs, r.theirs, d.ours, r.ours, bare) = {}
            THEN "valid"
       ELSE "unproven"
========================================
