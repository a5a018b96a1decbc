------------------------- MODULE MCWorkflowExecutor -------------------------
(***************************************************************************)
(* Instances of WorkflowExecutor for TLC: three steps, two repositories,   *)
(* up to two workers.                                                      *)
(***************************************************************************)
EXTENDS WorkflowExecutor

CONSTANTS x, y, z

Flow(after, global) == [order |-> <<x, y, z>>, after |-> after, global |-> global]

After(ofX, ofY, ofZ) == (x :> ofX) @@ (y :> ofY) @@ (z :> ofZ)

\* Without "after" every step waits for the one before it.
Chain == After({}, {x}, {y})

\* One pipeline; a step for all repositories before, between or after the
\* others; two steps side by side; a mixed stage behind a pipeline; a step named
\* before the one it waits for; and what is refused: a cycle, a cycle behind a
\* step, a step that waits for itself, one that waits for no step.
Refusals ==
    { Flow(After({y}, {z}, {x}), {}), Flow(After({}, {z}, {y}), {}),
      Flow(After({x}, {}, {}), {}), Flow(After({Unknown}, {}, {}), {}) }

Sequential == { Flow(Chain, {y}) }

Parallel ==
    { Flow(Chain, {}), Flow(Chain, {x}), Flow(Chain, {z}),
      Flow(After({}, {}, {x, y}), {}), Flow(After({}, {x}, {x}), {y}),
      Flow(After({z}, {}, {y}), {}) }

SomeInvocations ==
    [workflow: Sequential \cup Parallel \cup Refusals, requested: {0}]
    \cup [workflow: Parallel, requested: {2}]

\* A step that is run for all repositories at once between two others.
GlobalBetween == [workflow: Sequential, requested: {0}]
========================================
