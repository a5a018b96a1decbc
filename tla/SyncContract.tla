---------------------------- MODULE SyncContract ----------------------------
(***************************************************************************)
(* What a strict-sync invocation promises about its recovery objects,      *)
(* whatever commands it runs: when it may take them, when it may let them  *)
(* go, and what it may report.  StrictSync implements it (Contract there). *)
(***************************************************************************)
CONSTANT Objects    \* stash objects an invocation may own

VARIABLES
    stage,      \* open, settling, failing, undoing, closed
    verdict,    \* what has been reported
    published,  \* the remote was changed
    lost,       \* another writer owns something the invocation claimed
    owned,      \* stashes of the invocation, to be applied and dropped
    backups     \* backups that have not been dropped

vars == <<stage, verdict, published, lost, owned, backups>>

held == <<owned, backups>>

Verdicts ==
    {"running", "synced", "rolledBack", "handoff", "refused", "unreported"}

Init ==
    /\ stage = "open" /\ verdict = "running"
    /\ published = FALSE /\ lost = FALSE
    /\ owned = {} /\ backups = {}

\* A backup can be taken while work is done, even by the capture that fails.
Protect ==
    /\ stage = "open" /\ ~lost
    /\ backups \subseteq backups'
    /\ \A b, c \in backups' \ backups : b = c
    /\ stage' \in {"open", "failing", "undoing"}
    /\ stage' = "undoing" => ~published
    /\ UNCHANGED <<verdict, published, lost, owned>>

Own ==
    /\ stage = "open" /\ ~lost
    /\ \E e \in Objects : owned' = owned \cup {e}
    /\ UNCHANGED <<stage, verdict, published, lost, backups>>

\* The remote changes while work is done; a malformed answer ends the work.
Publish ==
    /\ stage = "open" /\ ~lost
    /\ published' = TRUE
    /\ stage' \in {"open", "failing"}
    /\ UNCHANGED <<verdict, lost, held>>

\* From then on the work can only fail; a merge may have to be abandoned first.
LoseOwnership ==
    /\ stage = "open"
    /\ lost' = TRUE /\ stage' \in {"open", "failing"}
    /\ UNCHANGED <<verdict, published, held>>

\* An owned stash goes once its edits are back, or when the work is undone.
Repay ==
    /\ stage \in {"open", "undoing"} /\ ~lost
    /\ \E e \in owned : owned' = owned \ {e}
    /\ stage' \in {stage, "settling"}
    /\ stage' # stage => stage = "open" /\ owned' = {}
    /\ UNCHANGED <<verdict, published, lost, backups>>

\* The work is complete, or was refused before anything changed.
Settle ==
    /\ stage = "open" /\ ~lost
    /\ owned = {}
    /\ stage' = "settling"
    /\ verdict' \in {"running", "refused"}
    /\ verdict' = "refused" => ~published
    /\ UNCHANGED <<published, lost, held>>

\* Backups are let go only after the work: not while it may still have to be
\* undone by them, never while another writer's claim is unresolved, and
\* after every owned stash unless the result has been handed over.
Release ==
    /\ stage \in {"settling", "undoing"}
    /\ owned = {} \/ verdict = "handoff"
    /\ lost => published
    /\ \E b \in backups : backups' \subseteq backups \ {b}
    /\ UNCHANGED <<stage, verdict, published, lost, owned>>

FailWork ==
    /\ stage \in {"open", "settling"} /\ verdict = "running"
    /\ stage' = "failing"
    /\ UNCHANGED <<verdict, published, lost, held>>

\* Published work is handed over; unpublished work is undone unless another
\* writer is in the way.
HandOver ==
    /\ stage = "failing" /\ published
    /\ verdict' = "handoff" /\ stage' = "settling"
    /\ UNCHANGED <<published, lost, held>>

Undo ==
    /\ stage = "failing" /\ ~published /\ ~lost
    /\ stage' = "undoing"
    /\ UNCHANGED <<verdict, published, lost, held>>

Freeze ==
    /\ stage = "failing" /\ ~published /\ lost
    /\ verdict' = "handoff" /\ stage' = "closed"
    /\ UNCHANGED <<published, lost, held>>

Succeed ==
    /\ stage = "settling" /\ verdict = "running"
    /\ owned = {} /\ backups = {} /\ ~lost
    /\ verdict' = "synced" /\ stage' = "closed"
    /\ UNCHANGED <<published, lost, held>>

Undone ==
    /\ stage = "undoing"
    /\ owned = {} /\ backups = {} /\ ~published /\ ~lost
    /\ verdict' = "rolledBack" /\ stage' = "closed"
    /\ UNCHANGED <<published, lost, held>>

\* What could not be undone is handed over; begin's own rollback says nothing.
UndoFails ==
    /\ stage = "undoing"
    /\ verdict' \in {"handoff", "unreported"} /\ stage' = "closed"
    /\ UNCHANGED <<published, lost, held>>

\* Whether every backup could be dropped is not part of the report.
Close ==
    /\ stage = "settling" /\ verdict \in {"handoff", "refused"}
    /\ stage' = "closed"
    /\ UNCHANGED <<verdict, published, lost, held>>

Next ==
    \/ Protect \/ Own \/ Publish \/ LoseOwnership \/ Repay \/ Settle
    \/ Release \/ FailWork \/ HandOver \/ Undo \/ Freeze \/ Succeed \/ Undone
    \/ UndoFails \/ Close

Spec == Init /\ [][Next]_vars
========================================
