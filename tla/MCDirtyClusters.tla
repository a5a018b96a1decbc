--------------------------- MODULE MCDirtyClusters ---------------------------
(***************************************************************************)
(* An instance of DirtyClusters for TLC: two clusters, one of a modified   *)
(* and a new file, one of a new file, and a path of neither.               *)
(***************************************************************************)
EXTENDS DirtyClusters

CONSTANTS a, b, c, z, old, new

TwoClusters ==
    << [tracked |-> {a}, untracked |-> {b}], [tracked |-> {}, untracked |-> {c}] >>

Committed == [p \in Paths |-> IF p \in {a, z} THEN old ELSE Missing]

\* The modified file may be a deleted one, and may be staged at the start.
Starts ==
    { [tree |-> Committed,
       files |-> [p \in Paths |-> IF p = z THEN old ELSE IF p = a THEN content ELSE new],
       index |-> IF staged THEN [Committed EXCEPT ![a] = content] ELSE Committed] :
         content \in {new, Missing}, staged \in BOOLEAN }
========================================
