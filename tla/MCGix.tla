-------------------------------- MODULE MCGix --------------------------------
(***************************************************************************)
(* Instances of the commands of GixCommands for TLC: what each of them is  *)
(* asked for, and the repositories it meets.                               *)
(***************************************************************************)
EXTENDS GixCommands, TLC

CONSTANTS
    none, absent,
    k1, k2, k3,                   \* commits
    kc, kr,                       \* connections to a model
    home, own, Own, sup, px, py   \* names of folders

----------------------------------------
\* gix cd, workflow steps that sync, refresh and restore

SyncStep ==
    [kind |-> "sync", branch |-> "main", remote |-> "nobody", create |-> FALSE,
     refresh |-> FALSE, stash |-> FALSE, commit |-> FALSE, clean |-> FALSE,
     capture |-> "none", overwrite |-> FALSE]
RestoreStep == [SyncStep EXCEPT !.kind = "restore"]
CaptureStep(kind, branch, overwrite) ==
    [SyncStep EXCEPT !.capture = kind, !.branch = branch, !.overwrite = overwrite]

Flow(steps, repositories, seed) ==
    [steps: {steps}, repository: repositories, seed: {seed}]

Both(main, work) == ("main" :> main) @@ ("work" :> work)
OfRemotes(main, work) == [r \in {"origin", "fork"} |-> Both(main, work)]
Clone ==
    [remotes |-> {"origin"}, head |-> [branch |-> "main", at |-> {}],
     local |-> Both({"base"}, {}), upstream |-> Both("origin", "nobody"),
     known |-> OfRemotes({"base"}, {}), server |-> OfRemotes({"base"}, {"base"}),
     tree |-> [tracked |-> {}, untracked |-> {}], stash |-> <<>>]
Stashed == [Clone EXCEPT !.stash = <<[tracked |-> {"g"}, untracked |-> {}]>>]
Edited == [Stashed EXCEPT !.tree = [tracked |-> {"f"}, untracked |-> {"g"}]]
Clones ==
    {[Stashed EXCEPT !.tree.untracked = {"g"}], [Edited EXCEPT !.local["work"] = {"base", "mine"}],
     [Edited EXCEPT !.remotes = {"origin", "fork"}, !.server["origin"]["work"] = {}],
     [Clone EXCEPT !.remotes = {"origin", "fork"}],
     [Clone EXCEPT !.remotes = {}, !.upstream["main"] = "nobody", !.local["work"] = {"base"}]}

ToWork(refresh, stash, commit, clean, remote) ==
    [SyncStep EXCEPT !.branch = "work", !.create = TRUE, !.refresh = refresh,
                     !.stash = stash, !.commit = commit, !.clean = clean, !.remote = remote]
Seeds(kind) ==
    {SwitchNoValue} \cup IF kind = "branch" THEN {[kind |-> "branch", branch |-> "main", at |-> {}]}
                         ELSE {}

SwitchFlows ==
    UNION {Flow(<<ToWork(r, s, c, k, "nobody")>>, {Edited}, SwitchNoValue) :
             r \in BOOLEAN, s \in BOOLEAN, c \in BOOLEAN, k \in BOOLEAN}
    \cup UNION {Flow(<<ToWork(r, TRUE, FALSE, FALSE, m)>>, Clones, SwitchNoValue) :
                  r \in BOOLEAN, m \in {"nobody", "fork"}}
    \cup UNION {Flow(<<[ToWork(FALSE, s, c, TRUE, "nobody") EXCEPT !.kind = "refresh"]>>,
                     {Edited}, SwitchNoValue) : s \in BOOLEAN, c \in BOOLEAN}
    \cup UNION {UNION {Flow(<<CaptureStep(k, "work", FALSE), CaptureStep(k, "main", o), RestoreStep>>,
                            {Clone}, seed) : seed \in Seeds(k)} :
                  k \in {"branch", "commit"}, o \in BOOLEAN}
    \cup Flow(<<CaptureStep("branch", "work", FALSE), [SyncStep EXCEPT !.kind = "everywhere"],
                RestoreStep>>, {Clone}, SwitchNoValue)

----------------------------------------
\* gix prs delete

Purge == [remote |-> {"b1", "b2", "b3"}, local |-> {"b1", "b2", "b3"}, head |-> "b3",
          closed |-> <<"b1", "b2", "b1", "b3">>, open |-> {"b2"}, yes |-> FALSE]
CleanupAsks ==
    {Purge, [Purge EXCEPT !.yes = TRUE, !.remote = {"b2", "b3"}], [Purge EXCEPT !.local = {"b3"}]}

----------------------------------------
\* the tasks and git steps of a workflow

TaskNamed(n) == IF n = "raw" THEN "auto" ELSE n
TaskNames == [n \in {"main", "dev", "auto", "raw"} |-> TaskNamed(n)]
PlainTask ==
    [kind |-> "task", branch |-> "raw", base |-> "main", remote |-> TRUE, clean |-> TRUE,
     hard |-> TaskNoSafeguard, soft |-> TaskNoSafeguard, files |-> <<>>, steps |-> <<>>,
     actions |-> FALSE, request |-> FALSE, paths |-> {}, empty |-> FALSE]
TaskKind(kind, branch) == [PlainTask EXCEPT !.kind = kind, !.clean = FALSE, !.branch = branch]
FileOf(mode, lines) == [mode |-> mode, paths |-> {"f"}, lines |-> lines, from |-> "a", to |-> "b"]
Bare == [x \in {"f", "g"} |-> IF x = "g" THEN TaskText({"b"}) ELSE TaskMissing]
Full == [x \in {"f", "g"} |-> TaskText({"a"})]
TaskClone ==
    [head |-> "main", at |-> <<Full>>,
     branches |-> [n \in TaskBranches |-> CASE n = "main" -> <<Bare, Full>> [] n = "dev" -> <<Bare>>
                                            [] OTHER -> <<>>],
     index |-> Full, work |-> Full, remote |-> TRUE,
     server |-> [n \in TaskBranches |-> <<>>], requests |-> {}]
OnDev == [TaskClone EXCEPT !.head = "dev", !.index = Bare, !.work = Bare]
EditedClone == [TaskClone EXCEPT !.work["g"] = TaskText({"b"})]
StagedClone == [EditedClone EXCEPT !.index["g"] = TaskText({"b"})]
Asked(operations, joined, repositories) ==
    [operations: {operations}, joined: {joined}, repository: repositories]
TaskFlows ==
    Asked(<<[PlainTask EXCEPT !.files = <<FileOf("overwrite", {"b"})>>, !.request = TRUE,
                              !.actions = TRUE]>>, FALSE,
          {TaskClone, OnDev, [TaskClone EXCEPT !.head = TaskNobody], StagedClone,
           [TaskClone EXCEPT !.server["auto"] = <<Bare>>], [TaskClone EXCEPT !.remote = FALSE]})
    \cup Asked(<<[PlainTask EXCEPT !.files = <<FileOf("skip", {"b"})>>]>>, FALSE, {TaskClone, OnDev})
    \cup Asked(<<[PlainTask EXCEPT !.files = <<FileOf("skip", {"b"}),
                                              [FileOf("overwrite", {"b"}) EXCEPT !.paths = {"g"}]>>],
                 [PlainTask EXCEPT !.steps = <<"apply", "stage">>]>>, TRUE, {[OnDev EXCEPT !.work = Full,
                   !.index = Full, !.branches["dev"] = <<Full>>]})
    \cup Asked(<<[PlainTask EXCEPT !.files = <<FileOf("append", {"b"})>>, !.clean = FALSE]>>, FALSE,
               {OnDev, EditedClone})
    \cup Asked(<<[PlainTask EXCEPT !.files = <<[FileOf("replace", {}) EXCEPT !.paths = {"f", "g"}]>>,
                    !.hard = [TaskNoSafeguard EXCEPT !.clean = TRUE, !.ignored = {"g"},
                                                     !.branchNot = "dev"]]>>, TRUE,
               {OnDev, EditedClone})
    \cup Asked(<<[PlainTask EXCEPT !.steps = <<"apply">>, !.files = <<FileOf("overwrite", {"b"})>>],
                 [TaskKind("stage-commit", "raw") EXCEPT !.paths = {"f", "g"},
                    !.soft = [TaskNoSafeguard EXCEPT !.changes = TRUE, !.branch = "main"]],
                 TaskKind("push", "main"), TaskKind("pr-create", "dev")>>, FALSE,
               {TaskClone, [EditedClone EXCEPT !.branches["auto"] = <<Bare>>], OnDev})
    \cup Asked(<<[PlainTask EXCEPT !.steps = <<"apply">>, !.files = <<FileOf("overwrite", {"b"})>>],
                 TaskKind("stage-commit", "raw"), TaskKind("stage-commit", "raw")>>, FALSE, {TaskClone})
    \cup Asked(<<[TaskKind("stage", "raw") EXCEPT !.paths = {"g"}],
                 [TaskKind("commit", "raw") EXCEPT !.empty = TRUE],
                 [TaskKind("pr-open", "main") EXCEPT !.base = "dev"]>>, FALSE, {EditedClone})
    \cup Asked(<<TaskKind("cleanup", "dev"), [TaskKind("cleanup", "main") EXCEPT !.base = "auto"],
                 [TaskKind("cleanup", "auto") EXCEPT !.base = "main"]>>, FALSE,
               {[TaskClone EXCEPT !.branches["auto"] = <<Bare, Bare>>]})
    \cup Asked(<<[TaskKind("cleanup", "main") EXCEPT !.base = "dev"]>>, FALSE, {OnDev})

----------------------------------------
\* gix folder rename

RenameLower == [n \in RenameNames |-> IF n = Own THEN own ELSE n]
Ends == {<<sup, own>>}
At(first, second) == ("R1" :> first) @@ ("R2" :> second)
RenameBoth ==
    [where |-> At(<<home, px>>, <<home, py>>), wanted |-> At(<<py>>, <<own>>),
     directories |-> {<<home>>}, owner |-> FALSE, clean |-> TRUE, yes |-> FALSE,
     workers |-> 2, folds |-> FALSE, dirty |-> {}]
RenameNested ==
    [RenameBoth EXCEPT !.where["R2"] = <<home, px, py>>, !.wanted["R2"] = <<own>>, !.yes = TRUE]
RenameOwner ==
    [RenameBoth EXCEPT !.owner = TRUE, !.wanted = At(<<own, px>>, <<own, py>>),
        !.where["R2"] = <<home, sup, py>>, !.directories = {<<home>>, <<home, sup>>}]
RenameCase ==
    [RenameBoth EXCEPT !.where["R1"] = <<home, Own>>, !.wanted["R1"] = <<own>>,
                       !.wanted["R2"] = <<px>>, !.folds = TRUE]
\* R1's place is made anew while R1 is aside: R2 goes into it.
RenameInto ==
    [RenameBoth EXCEPT !.where["R2"] = <<home, own>>, !.wanted = At(<<sup, px>>, <<px, own>>),
                       !.owner = TRUE, !.clean = FALSE]
\* R2 lies in R1 and has its name; R3 is a clone of the same, elsewhere.
RenameThree ==
    [RenameOwner EXCEPT
        !.where = At(<<home, px>>, <<home, px, py>>) @@ ("R3" :> <<home, own>>),
        !.wanted = At(<<own, py>>, <<px, py>>) @@ ("R3" :> <<px, py>>),
        !.clean = FALSE, !.workers = 1]
\* Owner and repository have one name.
RenameSelf ==
    [RenameOwner EXCEPT !.where = "R1" :> <<home, px>>, !.wanted = "R1" :> <<px, px>>,
                        !.clean = FALSE]
RenameAsks ==
    {RenameSelf, RenameBoth, [RenameBoth EXCEPT !.wanted = At(<<own>>, <<own>>)], RenameNested,
     [RenameNested EXCEPT !.workers = 1], RenameOwner, [RenameOwner EXCEPT !.clean = FALSE],
     RenameCase, [RenameCase EXCEPT !.folds = FALSE, !.clean = FALSE],
     [RenameBoth EXCEPT !.workers = 1, !.dirty = {"R1"}],
     [RenameBoth EXCEPT !.workers = 1, !.clean = FALSE], RenameThree, RenameInto}
RenameSelfAsks == {RenameSelf}

----------------------------------------
\* gix remote update-to-canonical and update-protocol

RemoteLower == [n \in RemoteOwners \cup RemoteNames |-> IF n = "Me" THEN "me" ELSE n]
Slug(owner, name) == [owner |-> owner, name |-> name]
URL(form, owner, name) == [form |-> form, hub |-> TRUE, slug |-> Slug(owner, name)]
RemoteLeads ==
    [s \in RemoteSlug |->
        CASE s.owner \in {"me", "Me", "new"} /\ s.name = "x" -> Slug("new", "x")
          [] s.owner = "other" -> s
          [] OTHER -> none]
Canonical ==
    [origin |-> URL("https://", "Me", "x"), leads |-> RemoteLeads,
     found |-> <<Slug("other", "y"), Slug("other", "x")>>, owner |-> "me",
     operation |-> "canonical", from |-> "https", to |-> "ssh", yes |-> FALSE,
     operator |-> {none, URL("git@", "other", "y"), URL("other", "new", "x"),
                   [URL("https://", "other", "x") EXCEPT !.hub = FALSE]}]
RemoteAsks ==
    {Canonical, [Canonical EXCEPT !.origin = URL("ssh://", "new", "y"), !.owner = none, !.yes = TRUE],
     [Canonical EXCEPT !.operation = "convert"],
     [Canonical EXCEPT !.operation = "convert", !.origin = none],
     [Canonical EXCEPT !.origin = URL("other", "Me", "x")],
     [Canonical EXCEPT !.origin = URL("https://", "new", "x")],
     [Canonical EXCEPT !.origin = [URL("other", "new", "x") EXCEPT !.hub = FALSE], !.operator = {}],
     [Canonical EXCEPT !.operation = "convert", !.to = "other"]}

----------------------------------------
\* gix default

MigrateEffects0 ==
    [x \in MigrateCommits |-> CASE x \in {"b", "bs"} -> "eb" [] x = "a" -> "ea" [] x = "c" -> "ec"
                                [] OTHER -> "ew"]
Ends2(source, target) == [n \in MigrateBranches |-> IF n = "source" THEN source ELSE target]
Move ==
    [local |-> Ends2({"a"}, {"a", "b"}), remote |-> Ends2({"a"}, {"a", "b"}), available |-> TRUE,
     default |-> "source", clean |-> TRUE, requireClean |-> TRUE, token |-> TRUE, push |-> TRUE,
     delete |-> TRUE, files |-> "branches", pages |-> "source", protected |-> FALSE,
     requests |-> {"r1", "r2"}, promotion |-> {"r1"}, colleague |-> {"c"}]
Squashed == [Move EXCEPT !.local = Ends2({"a", "b"}, {"a", "bs"}),
                         !.remote = Ends2({"a", "b"}, {"a", "bs"})]
MigrateAsks ==
    {Move, [Move EXCEPT !.requests = {"r1"}],
     [Move EXCEPT !.requests = {}, !.local["source"] = {"a", "c"}, !.colleague = {}],
     [Move EXCEPT !.local = Ends2({"a", "b"}, absent), !.remote = Ends2({"a", "b"}, absent),
                  !.files = "none"],
     [Squashed EXCEPT !.files = "mentions"], [Squashed EXCEPT !.requests = {}],
     [Move EXCEPT !.clean = FALSE], [Move EXCEPT !.default = "target"],
     [Move EXCEPT !.available = FALSE, !.delete = FALSE, !.pages = "off"],
     [Move EXCEPT !.token = FALSE]}

----------------------------------------
\* gix message, gix release next semver: requests to a model

Decide == [kind |-> "semver", priority |-> (kc :> 1 @@ kr :> 2), credentials |-> {kc, kr},
           changes |-> {"committed", "worktree"}, packets |-> 2, fixedMajor |-> 0, capture |-> TRUE]
ModelAsks ==
    {Decide, [Decide EXCEPT !.fixedMajor = 1, !.priority = (kc :> 2 @@ kr :> 1), !.packets = 1],
     [Decide EXCEPT !.kind = "commit"], [Decide EXCEPT !.kind = "changelog", !.changes = {}],
     [Decide EXCEPT !.kind = "changelog", !.credentials = {kr}],
     [Decide EXCEPT !.priority = (kc :> 1 @@ kr :> 1)]}

----------------------------------------
\* gix release next, release <tag>, release retag

Ancestry == k1 :> {k1} @@ k2 :> {k1, k2} @@ k3 :> {k1, k3}
Tags == {<<1, 0, 0>>, <<1, 1, 0>>, <<1, 0, 1>>, <<2, 0, 0>>, <<1, 1, 1>>, <<1, 0, 2>>, <<5>>, <<7>>, <<>>}
Tagged == [t \in Tags |-> IF t \in {<<1, 0, 0>>, <<1, 0, 1>>, <<1, 1, 0>>, <<5>>} THEN k1 ELSE none]
NextVersion == [op |-> "next", scheme |-> "semver", fixedMajor |-> 0, exclude |-> {},
                transition |-> FALSE, time |-> 7]
Retag == [op |-> "retag",
          mappings |-> <<[tag |-> <<1, 0, 0>>, target |-> k2],
                         [tag |-> <<1, 1, 0>>, target |-> <<1, 0, 0>>],
                         [tag |-> <<2, 0, 0>>, target |-> k2]>>]
Script(commands) == [commands |-> commands, local |-> Tagged, remote |-> Tagged, head |-> k2]
ThenTag(next) == Script(<<next, [op |-> "tag", tag |-> "next"]>>)
ReleaseAsks ==
    {ThenTag(NextVersion), ThenTag([NextVersion EXCEPT !.fixedMajor = 1]),
     ThenTag([NextVersion EXCEPT !.scheme = "calver"]),
     [ThenTag([NextVersion EXCEPT !.transition = TRUE]) EXCEPT !.head = k1], Script(<<Retag>>)}

----------------------------------------
\* gix --web

Folder == [git |-> FALSE, name |-> "d", canonical |-> TRUE, protocol |-> "none", synced |-> TRUE,
           dirty |-> FALSE, tagged |-> FALSE]
Work == [git |-> TRUE, name |-> "r", canonical |-> FALSE, protocol |-> "https", synced |-> FALSE,
         dirty |-> FALSE, tagged |-> FALSE]
Launch(disk, roots, cwd, edits) ==
    [disk |-> disk, roots |-> roots, cwd |-> cwd, edits |-> edits, requests |-> 2]
Launches ==
    {Launch(<<"r">> :> [Work EXCEPT !.name = "n", !.synced = TRUE], {}, <<"r">>, 1),
     Launch((<<"r">> :> Work) @@ (<<"r", "n">> :> [Work EXCEPT !.name = "n"]), {}, <<"r">>, 0),
     Launch((<<"d">> :> Folder)
              @@ (<<"r">> :> [Work EXCEPT !.canonical = TRUE, !.protocol = "none", !.synced = TRUE]),
            {<<>>}, <<>>, 0),
     Launch(<<"n">> :> [Work EXCEPT !.name = "n", !.dirty = TRUE, !.protocol = "ssh",
                                    !.canonical = TRUE, !.synced = TRUE], {<<"n">>}, <<>>, 0)}

----------------------------------------
\* gix packages delete

RetentionAsks ==
    {[keep |-> k, override |-> o, origin |-> [r \in RetentionRepositories |-> "p"],
      owner |-> [r \in RetentionRepositories |-> IF r = "r2" THEN w ELSE "o"],
      published |-> 1 .. 4, created |-> c] :
        k \in {0, 2}, o \in {"none", "p"}, w \in {"o", "none"},
        c \in {<<1, 1, 1, 2, 3>>, <<1, 2, 3, 4, 4>>, <<0, 1, 2, 3, 4>>}}

----------------------------------------
\* gix files rm

Kept(name) == PurgeCommit(name, "none")
Mixed(name) == PurgeCommit(name, "some")
PurgeAsk ==
    [requested |-> "none", current |-> "main", push |-> TRUE, restore |-> TRUE, missing |-> FALSE,
     ignored |-> FALSE, heads |-> ("main" :> {Kept("c1")}),
     remote |-> ("main" :> {Kept("c1"), Kept("c2")}) @@ ("dev" :> {Kept("c1"), Mixed("c4")}),
     upstream |-> ("main" :> "origin"), configured |-> {"origin", "backup"}]
PurgeAsks ==
    {PurgeAsk, [PurgeAsk EXCEPT !.requested = "backup", !.missing = TRUE],
     [PurgeAsk EXCEPT !.push = FALSE, !.configured = {"origin"}],
     [PurgeAsk EXCEPT !.restore = FALSE, !.ignored = TRUE, !.upstream = ("main" :> "none"),
                      !.heads = ("main" :> {Kept("c1"), Mixed("c3")}),
                      !.remote["dev"] = {Kept("c1"), PurgeCommit("c4", "all")}],
     [PurgeAsk EXCEPT !.remote["dev"] = {Kept("c1")}]}

----------------------------------------
\* gix workflow namespace

NamespaceAsk ==
    [names |-> [f \in {"go.mod", "a.go", "b.go"} |-> {"root"}],
     parses |-> [f \in {"go.mod", "a.go", "b.go"} |-> "all"],
     place |-> [f \in {"go.mod", "a.go", "b.go"} |-> "ordinary"],
     clean |-> TRUE, git |-> TRUE, push |-> FALSE, remote |-> FALSE, identity |-> TRUE,
     assumeYes |-> TRUE, same |-> FALSE, guards |-> "pass"]
NamespaceAsks ==
    {[NamespaceAsk EXCEPT !.guards = "soft"], [NamespaceAsk EXCEPT !.assumeYes = FALSE],
     [NamespaceAsk EXCEPT !.identity = FALSE]} \cup
    {[names |-> ("go.mod" :> module) @@ ("a.go" :> names) @@ ("b.go" :> {"below"}),
      parses |-> ("go.mod" :> "all") @@ ("a.go" :> parses) @@ ("b.go" :> "all"),
      place |-> ("go.mod" :> place) @@ ("a.go" :> "ordinary") @@ ("b.go" :> other),
      clean |-> clean, git |-> TRUE, push |-> push, remote |-> push, identity |-> TRUE,
      assumeYes |-> TRUE, same |-> FALSE, guards |-> "pass"] :
        module \in {{}, {"root"}}, names \in {{"beside"}, {"root", "below"}},
        parses \in {"all", "imports", "nothing"}, place \in {"ordinary", "ignored"},
        other \in {"ordinary", "ignored", "vendored", "nested"},
        clean \in BOOLEAN, push \in BOOLEAN}
----------------------------------------
\* gix sync from one worktree, with a sibling that may hold the target and another

Tree(branch) ==
    [registered |-> TRUE, locked |-> FALSE, foreign |-> FALSE, link |-> "ours",
     branch |-> branch, marks |-> {}, odd |-> {}, unmerged |-> FALSE]
Linked(links) ==
    {[Tree("main") EXCEPT !.link = l, !.locked = locked, !.foreign = l \in {"theirs", "lost"}] :
        l \in links, locked \in BOOLEAN}
Busy ==
    UNION {{[Tree("side") EXCEPT !.marks = {m}], [Tree("side") EXCEPT !.odd = {m}]} :
             m \in ToSet(PreflightMarks)} \cup {[Tree("side") EXCEPT !.unmerged = TRUE]}

PreflightAsk(target, trees, siblings, others) ==
    {[caller |-> 1, target |-> target, trees |-> <<t, s, o>>] :
        t \in trees, s \in siblings, o \in others}

PreflightAsks ==
    PreflightAsk("main", {Tree("work")}, Linked(PreflightLinks),
                 {[t EXCEPT !.branch = "side"] : t \in Linked(PreflightLinks)}
                    \cup {[Tree("side") EXCEPT !.registered = FALSE]})
    \cup PreflightAsk("side", Busy \cup {[Tree("work") EXCEPT !.registered = FALSE]},
                      Linked({"lost"}), {Tree("side")})
    \cup PreflightAsk("main", {Tree("work")}, Linked({"lost", "gone"}),
                      UNION {{t, [t EXCEPT !.link = "missing"]} : t \in Busy})

----------------------------------------
\* gix cd to a branch that another worktree has

AdoptSiblingsHere ==
    {[kind |-> k, on |-> TRUE, work |-> w, staged |-> {}, locked |-> FALSE, prunable |-> FALSE] :
        k \in {"linked", "main"}, w \in {{}, {"edit"}}}
    \cup {[kind |-> "linked", on |-> TRUE, work |-> {}, staged |-> {}, locked |-> l,
           prunable |-> TRUE] : l \in BOOLEAN}
    \cup {[kind |-> "linked", on |-> TRUE, work |-> {"edit"}, staged |-> {}, locked |-> TRUE,
           prunable |-> FALSE]}

AdoptBranchesHere ==
    {[local |-> {"base"} \cup ahead, known |-> k, server |-> k, upstream |-> u, other |-> {}] :
        ahead \in {{}, {"mine"}}, k \in {{}, {"base"}}, u \in BOOLEAN}
    \cup {[local |-> {"base"}, known |-> {"base"}, server |-> {}, upstream |-> TRUE,
           other |-> {}]}

AdoptAsks ==
    {[sibling |-> s, branch |-> b, publish |-> p] :
        s \in AdoptSiblingsHere, p \in BOOLEAN,
        b \in {c \in AdoptBranchesHere : c.upstream => c.known # {}}}
========================================
