----------------------------- MODULE MergeMarkers -----------------------------
(***************************************************************************)
(* parseMergeConflictDocument: a conflicted file, as git has written it    *)
(* with diff3 markers, is cut into the regions in conflict and the text    *)
(* between them.  A line is a marker when it begins like one, so that a    *)
(* line of the text may be taken for one.  A marker repeats its character  *)
(* seven times; here it is three.                                          *)
(***************************************************************************)
EXTENDS Naturals, Sequences, SequencesExt

Markers == {"<<<", "|||", "===", ">>>"}

\* One more text than there are regions.
Document == [between: Seq(Seq(STRING)),
             regions: Seq([ours: Seq(STRING), base: Seq(STRING), theirs: Seq(STRING),
                           based: BOOLEAN])]

EmptyRegion == [ours |-> <<>>, base |-> <<>>, theirs |-> <<>>, based |-> FALSE]

Cutting == [at |-> "outside", between |-> <<>>, text |-> <<>>, regions |-> <<>>,
            region |-> EmptyRegion]

\* A marker that has no place where it stands.
Refuse(cut) == [cut EXCEPT !.at = "refused"]

CutOutside(cut, line) ==
    CASE line = "<<<" -> [cut EXCEPT !.at = "ours", !.between = Append(@, cut.text),
                                     !.text = <<>>, !.region = EmptyRegion]
      [] line \in Markers \ {"<<<"} -> Refuse(cut)
      [] OTHER -> [cut EXCEPT !.text = Append(@, line)]

CutOurs(cut, line) ==
    CASE line = "|||" -> [cut EXCEPT !.at = "base", !.region.based = TRUE]
      [] line = "===" -> [cut EXCEPT !.at = "theirs"]
      [] line \in {"<<<", ">>>"} -> Refuse(cut)
      [] OTHER -> [cut EXCEPT !.region.ours = Append(@, line)]

CutBase(cut, line) ==
    CASE line = "===" -> [cut EXCEPT !.at = "theirs"]
      [] line \in Markers \ {"==="} -> Refuse(cut)
      [] OTHER -> [cut EXCEPT !.region.base = Append(@, line)]

\* Faulty: a separator among the incoming lines is one of them.
CutTheirsLoosely(cut, line) ==
    CASE line = ">>>" -> [cut EXCEPT !.at = "outside", !.regions = Append(@, cut.region)]
      [] line \in {"<<<", "|||"} -> Refuse(cut)
      [] OTHER -> [cut EXCEPT !.region.theirs = Append(@, line)]

CutTheirs(cut, line) ==
    CASE line = ">>>" -> [cut EXCEPT !.at = "outside", !.regions = Append(@, cut.region)]
      [] line \in Markers \ {">>>"} -> Refuse(cut)
      [] OTHER -> [cut EXCEPT !.region.theirs = Append(@, line)]

Cut(cut, line) ==
    CASE cut.at = "outside" -> CutOutside(cut, line)
      [] cut.at = "ours" -> CutOurs(cut, line)
      [] cut.at = "base" -> CutBase(cut, line)
      [] cut.at = "theirs" -> CutTheirs(cut, line)
      [] OTHER -> cut

\* A document, or none when the markers are refused; without regions the
\* document is empty.
Parsed(lines) ==
    LET cut == FoldLeft(Cut, Cutting, lines)
    IN IF cut.at # "outside" THEN {}
       ELSE IF cut.regions = <<>> THEN {[between |-> <<>>, regions |-> <<>>]}
       ELSE {[between |-> Append(cut.between, cut.text), regions |-> cut.regions]}

\* document.resolve
Resolved(document, texts) ==
    FlattenSeq([i \in DOMAIN texts |-> document.between[i] \o texts[i]])
        \o Last(document.between)

----------------------------------------
\* What git checkout --conflict=diff3 writes, which is external

WrittenRegion(region) ==
    <<"<<<">> \o region.ours \o <<"|||">> \o region.base
        \o <<"===">> \o region.theirs \o <<">>>">>

Written(document) ==
    Resolved(document, [i \in DOMAIN document.regions |-> WrittenRegion(document.regions[i])])

----------------------------------------
\* Bounded documents, some with lines that look like markers

Lines == {"text"} \cup Markers

Texts == {<<>>} \cup {<<line>> : line \in Lines}

FewTexts == {<<>>, <<"text">>, <<"===">>}

DiffedRegions(texts) == [ours: texts, base: texts, theirs: texts, based: {TRUE}]

Documents ==
    {[between |-> <<before, after>>, regions |-> <<region>>] :
        before \in Texts, after \in Texts, region \in DiffedRegions(Texts)}
    \cup
    {[between |-> <<<<"text">>, between, <<>>>>, regions |-> <<first, second>>] :
        between \in FewTexts, first \in DiffedRegions(FewTexts), second \in DiffedRegions(FewTexts)}

Ambiguous(document) == \E i \in DOMAIN document.between : document.between[i] \in {<<m>> : m \in Markers}
                       \/ \E r \in ToSet(document.regions) :
                            {r.ours, r.base, r.theirs} \cap {<<m>> : m \in Markers} # {}

\* Whatever lines the file has (parseMergeConflictDocument): it is cut where git
\* has put the markers or refused, and it is refused only when a line of the
\* text looks like a marker.
MarkersAreCutRight ==
    \A document \in Documents :
        LET parsed == Parsed(Written(document))
        IN /\ parsed \subseteq {document}
           /\ parsed = {} => Ambiguous(document)
========================================
