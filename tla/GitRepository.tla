---------------------------- MODULE GitRepository ----------------------------
(***************************************************************************)
(* The part of Git that strict sync drives, as operators on one repository *)
(* record.  Git is not part of the repository's sources: each operator is  *)
(* what internal/branches/syncflow relies on when it runs the command of   *)
(* that name.  A commit is the set of tokens its history contains, so      *)
(* "ancestor" is inclusion, a merge is a union and the commits of a that b *)
(* lacks are a \ b.  A token is a change somebody made: an uncommitted     *)
(* edit, a commit only one side has, an operator's stash.                  *)
(***************************************************************************)
EXTENDS Naturals, Sequences, SequencesExt

CONSTANTS
    Worktrees,  \* registered checkouts that share one Git directory
    Branches,   \* short branch names
    Tokens,     \* individual changes
    None        \* the missing reference, the detached HEAD, no object

ASSUME NoneAssumption ==
    None \notin Branches /\ \A edits \in SUBSET Tokens : None # edits

Commits == SUBSET Tokens

\* Why a stash entry exists: a transaction snapshot, an owned stash of the
\* invocation, or the operator's own.
StashUses == {"snapshot", "invocation", "isolation", "operator"}

Entries == [tree: Worktrees, edits: SUBSET Tokens, use: StashUses]

\* refs and origin: local heads and the remote's heads as last fetched;
\* head: the branch a checkout holds, or None when it is detached at `at`;
\* work: uncommitted edits; unmerged: checkouts with a conflicted index;
\* stashes: the shared stash list, newest first; review: the review base
\* recorded for a branch in branch.<name>.gix-review-base.
RepositoryType ==
    [ refs:     [Branches -> {None} \cup Commits],
      origin:   [Branches -> {None} \cup Commits],
      head:     [Worktrees -> {None} \cup Branches],
      at:       [Worktrees -> Commits],
      trees:    SUBSET Worktrees,
      work:     [Worktrees -> SUBSET Tokens],
      unmerged: SUBSET Worktrees,
      stashes:  Seq(Entries),
      review:   [Branches -> {None} \cup Branches] ]

----------------------------------------
\* Reading

Tip(g, w) == IF g.head[w] = None THEN g.at[w] ELSE g.refs[g.head[w]]

Exists(refs, b) == refs[b] # None

\* rev-list --count base..tip is positive (it fails when either is missing).
Beyond(tip, base) == tip # None /\ base # None /\ tip \ base # {}

Holders(g, b) == {w \in g.trees : g.head[w] = b}

\* A branch may be checked out in one worktree at a time.
Free(g, w, b) == Holders(g, b) \subseteq {w}

Listed(g, w) == [head |-> g.head[w], commit |-> Tip(g, w)]

StashIndexes(g, entry) == {i \in DOMAIN g.stashes : g.stashes[i] = entry}

\* Everything a reader of the repository could still recover.
Recoverable(g) ==
    UNION ( {g.work[w] : w \in g.trees}
            \cup {g.at[w] : w \in g.trees}
            \cup {g.refs[b] : b \in {x \in Branches : Exists(g.refs, x)}}
            \cup {g.origin[b] : b \in {x \in Branches : Exists(g.origin, x)}}
            \cup {g.stashes[i].edits : i \in DOMAIN g.stashes} )

----------------------------------------
\* Writing

MoveTip(g, w, c) ==
    IF g.head[w] = None THEN [g EXCEPT !.at[w] = c]
                        ELSE [g EXCEPT !.refs[g.head[w]] = c]

CommitEdits(g, w, edits) ==
    [MoveTip(g, w, Tip(g, w) \cup edits) EXCEPT !.work[w] = @ \ edits]

MergeCommit(g, w, c) ==
    [MoveTip(g, w, Tip(g, w) \cup c) EXCEPT !.unmerged = @ \ {w}]

ResetHard(g, w, c) ==
    [MoveTip(g, w, c) EXCEPT !.work[w] = {}, !.unmerged = @ \ {w}]

SwitchTo(g, w, b) == [g EXCEPT !.head[w] = b, !.at[w] = {}]

CreateBranch(g, w, b, c) == SwitchTo([g EXCEPT !.refs[b] = c], w, b)

DetachAt(g, w, c) == [g EXCEPT !.head[w] = None, !.at[w] = c]

RemoveTree(g, w) == [DetachAt(g, w, {}) EXCEPT !.trees = @ \ {w}]

Restored(g, w, listed) ==
    IF listed.head = None THEN DetachAt(g, w, listed.commit)
                          ELSE SwitchTo(g, w, listed.head)

AddTree(g, w, listed) ==
    Restored([g EXCEPT !.trees = @ \cup {w}, !.work[w] = {}], w, listed)

PushStash(g, w, use) ==
    [g EXCEPT !.stashes = <<[tree |-> w, edits |-> g.work[w], use |-> use]>> \o @,
              !.work[w] = {}]

ApplyStash(g, w, entry) == [g EXCEPT !.work[w] = @ \cup entry.edits]

DropStashAt(g, i) == [g EXCEPT !.stashes = RemoveAt(@, i)]

PushBranch(g, b) == [g EXCEPT !.origin[b] = g.refs[b]]

RecordReview(g, b, base) == [g EXCEPT !.review[b] = base]
========================================
