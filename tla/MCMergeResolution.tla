-------------------------- MODULE MCMergeResolution --------------------------
(***************************************************************************)
(* Instances of MergeConflicts for TLC.  The letters are 1, 2 and 3, the   *)
(* space is 0 and 9 is a symbol.                                           *)
(***************************************************************************)
EXTENDS MergeConflicts

R(base, ours, theirs) == [base |-> base, ours |-> ours, theirs |-> theirs]

\* A side, both in either order, the base, the merge that prefers the incoming
\* side, and something else.
SomeReplies(r) ==
    {r.base, r.ours, r.theirs, r.ours \o r.theirs, r.theirs \o r.ours,
     <<3, 0, 3>>, <<3, 0, 2, 9>>, <<2, 3>>}
    \cup UNION {Derived(Diffed(x)) : x \in {[r EXCEPT !.ours = r.theirs, !.theirs = r.ours]}}

File(regions) == [regions |-> regions, kept |-> TRUE]

\* A region only one side changed; one with a derived candidate; one whose
\* sides replace the same; one that is too large for the matrix.
Single == R(<<1>>, <<1>>, <<2>>)
Both == R(<<1, 0, 2>>, <<3, 0, 2>>, <<1, 0, 2, 9>>)
Clash == R(<<1>>, <<2>>, <<3>>)
Huge == R(<<1, 0, 2>>, <<1, 0, 2, 9, 1, 9>>, <<2, 9, 2, 9, 1, 9>>)

\* Several files, several regions.
Compound ==
    { <<>>,
      <<File(<<Single, Both>>)>>,
      <<File(<<Clash>>)>>,
      <<File(<<Huge>>)>>,
      <<File(<<>>), File(<<Single>>)>>,
      <<[regions |-> <<>>, kept |-> FALSE], File(<<Both>>)>> }

Variants(base) ==
    CASE base = <<>> -> {<<1>>, <<2>>, <<1, 0>>}
      [] base = <<1>> -> {<<>>, <<2>>, <<1, 9>>, <<9, 1>>, <<3, 9>>}
      [] base = <<1, 0, 2>> ->
           {<<1>>, <<2, 9>>, <<1, 0, 3>>, <<3, 0, 2>>, <<1, 9, 2>>, <<3, 9, 1, 0, 2>>,
            <<1, 0, 2, 9>>, <<2, 0, 1>>, <<1, 0, 2, 0, 2>>}
      [] base = <<1, 0, 1>> ->
           {<<0, 1>>, <<1, 0, 3>>, <<3, 0, 1>>, <<1, 9, 1>>, <<1, 9, 0, 9, 1>>, <<3, 0, 3>>}
      [] base = <<1, 9, 2, 9, 3>> ->
           {<<1, 9, 3>>, <<2, 9, 3>>, <<3, 9, 2, 9, 1>>, <<1, 9, 2, 9, 2>>, <<1, 0, 2, 9, 3>>}

\* Every small region by itself.
Small ==
    UNION {{<<File(<<R(base, ours, theirs)>>)>> : ours \in Variants(base), theirs \in Variants(base)} :
             base \in {<<>>, <<1>>, <<1, 0, 2>>, <<1, 0, 1>>, <<1, 9, 2, 9, 3>>}}

\* Two files with a region each for the model.
Long == <<File(<<Both>>), File(<<Clash>>)>>

Plain ==
    [files: Compound, completion: {"commit"}, inherited: SUBSET Parents]
    \cup [files: {Long}, completion: {"commit"}, inherited: {{}}]
    \cup [files: Compound \cup Small, completion: {"preserve"}, inherited: {{}}]

WithFindings(regions) == [k \in DOMAIN regions |-> Judged(regions[k], SomeReplies(regions[k]))]

SomeRequests ==
    {[q EXCEPT !.files = [p \in DOMAIN @ |-> [@[p] EXCEPT !.regions = WithFindings(@)]]] : q \in Plain}

========================================
