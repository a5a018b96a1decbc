----------------------------- MODULE MergeTexts -----------------------------
(***************************************************************************)
(* The texts of a file with conflicts: a region is what stands between the *)
(* markers, in the version both sides come from and in each of the two.    *)
(***************************************************************************)
EXTENDS Naturals, Sequences

CONSTANTS
    Letters, Spaces, Symbols,  \* the codes of the characters, by class
    None                       \* no text

Characters == Letters \cup Spaces \cup Symbols

Text == Seq(Characters)

Region == [base: Text, ours: Text, theirs: Text]

ASSUME MergeTextsAssumption ==
    /\ Characters \subseteq Nat
    /\ Letters \cap Spaces = {} /\ (Letters \cup Spaces) \cap Symbols = {}
    /\ None \notin Text

\* No choice between two sides is to be made.
OneSided(r) == r.ours = r.theirs \/ r.ours = r.base \/ r.theirs = r.base

TheChange(r) == IF r.ours = r.base THEN r.theirs ELSE r.ours

========================================
