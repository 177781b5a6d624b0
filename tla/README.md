# A TLA+ development of codeaf: runs, and conversations that move

This directory specifies two parts of codeaf. The first decides what work exists,
who holds it and when a run is over: the plan store (`src/internal/plandb`) and the
supervisor that drives it (`src/internal/run`). The second decides which device owns
a conversation and what becomes of the work on it: the directory state machine
(`src/internal/clusterstate`), and the publishing, branching and taking over built on
it (`cellsync`, `handoff`, `syncsetup`). TLC checks the modules on small instances;
TLAPS proves most of what TLC checks of them for every value of the constants (section 4).

## 1. Inventory

The repository is a terminal program for long agent work. Its own logic falls
into these parts (everything under `third_party/` and `assets/` is left aside).

| Component | State it keeps | Operations | Talks to | Hard behaviour |
|---|---|---|---|---|
| **Plan store** `plandb` (`store.go`, `delete.go`, `persist.go`) | a SQLite file: live tasks, tombstones, archived rows | admit, link, claim, release, finish, park, wake, pause, retry, cancel, complete or end the root, archive, delete | every process of a run | one transaction per operation, any number of writers; cascades and automatic closing; every load re-validates the graph |
| **plandb CLI** (`cli.go`, `cmd/plandb`) | none | verbs over the store, some of several transactions | store | a worker dies between two transactions |
| **Supervisor** `run` (`run.go`, `worker.go`) | in-memory books of one run: cancels, wakes, reported children, check-of, limit | pass, launch, absorb a return, review round, wakes, limits, drain, endings | store, workers, caller's context | one goroutine per worker, a snapshot used while the store moves, late returns, crash and take-over |
| **Workers** (`bashworker.go`, `delegateworker.go`, `crew.go`, `land.go`) | a conversation and a working copy | add, done, wait through the CLI; return a report | store, supervisor | end in the store before they come home, or come home with an error after |
| **Stop and delete** (`session/stoprun.go`, `session/task_delete_plan.go`) | presentation rows | stop a run, stop a task, delete a part of a plan | store, caller's context | at any moment of the run |
| **Directory state machine** (`clusterstate`) | cells with leases and fences, devices, sessions, workers, assignments, members, leadership | a pure function of a command log | `directory`, raft | stale holders, late and repeated commands, revocation, a directory frozen while it is moved, workers that restart |
| **Directory service** (`directory`) | memory, SQLite or raft copy of the same rules | HTTP doors, feeds, watches | clusterstate | lost answers |
| **Cell sync** (`cellsync`, `cellstore`, `cell`, `blobstore`) | turns sealed and not yet published, the upload boundary, the branch map | note, publish, resume, beat, branch, release | directory, blob store | an answer lost after the effect, a seal beside an upload, a lease lost with turns pending |
| **Handoff** (`handoff`, `syncsetup/drive.go`, `take.go`) | a window's hold on a conversation, a staging folder | open, check the lease, close; keep, fetch, take the lease, install, give back | cell sync, directory | the head moves between fetch and lease; death half way through the swap |
| **Resident lease** (`lease`) | an OS lock per store | acquire, release, describe | processes | legacy lock beside the new one |
| **Resident, head, store, exec** | an event-sourced task graph and the talk above it | reconcile, schedule, answer | providers | replay, duplicate commands |
| **Session** (`session`) | one conversation: turns, tools, jobs, tasks | the turn loop | run, plandb, tui | compaction, interrupts, restarts |
| **Others**: `orchestrate`, `automation`, `approval`, `knowledge`, `subharness`, `pair`, `relay*`, `identity`, `keys`, `vaultsync`, `provider`, `router`, `raft*`, `tui*` | | | | see `PROJECT.json`, "components" |

What makes each of the modelled parts correct:

* **Plan store.** Whatever is committed loads again. Ready means the
  dependencies are done now. An ending stands except by the three named roads.
  A claim changes hands only through the frontier. A composite somebody works on
  is closed by that somebody. Parked work is finished only by a woken worker.
* **Supervisor.** Every run reaches an outcome word; `done` is said only of a
  plan that is whole, reviewed and integrated, but for what hangs below a failure;
  limits stop and end work; no worker outlives its run; a second worker of a task is
  started only beside one that was called off; what a dead process leaves can be taken
  up and ended.
* **Directory.** Each grant has the next fence and every accepted version was written
  by the holder of the fence then current, on top of the version before it, however late
  or often requests arrive. What a request was told stays true. A revoked device's
  lease runs out. A directory being moved stands still. Delegated work is one
  attempt at a time, and belongs to the process that claimed it.
* **Handoff.** A takeover never destroys work: every sealed turn is below a head of the
  directory or on a disk. A head moves only to a turn sealed on it, and never before its
  objects are stored. A clean quit leaves nothing behind. (One road breaks the first two,
  `v_overwritten` and `v_lost` in section 3; nothing else does.)

## 2. Modules

| Module | Lines | What it is |
|---|---|---|
| `PlanStore` | the store | `tasks`, `deleted`, `archived`; one action per exported mutating operation of the graph; `PlanNext` enumerates every caller |
| `PlanLoops` | the loops | `promote`, the cascades, the climbs and the cycle search as the loops of `store.go`, for comparison with the closed forms `PlanStore` uses |
| `PlanStoreProofs` | proofs | lemmas about the operators, `TypeCorrect`; parks, claims, conflicts |
| `PlanEndingsProofs` | proofs | EXTENDS `PlanStoreProofs`: readiness and endings |
| `PlanLoadProofs` | proofs | EXTENDS `PlanEndingsProofs`: the tree and its edges, so that a plan loads |
| `Supervisor` | the run | EXTENDS `PlanStore`; one action per store transaction of the loop, per worker write, per act of a person |
| `SupervisorProofs` | proofs | a run is a caller of the store; its books, limits and ending; no worker is let go of without being called off |
| `LeaseRules` | the lease | the pure rules of one cell row (`rules.go`), used by the three modules below |
| `FencedCell` | the promise | abstract: grants one after the other, versions one on top of the other, each under the fence then current |
| `Directory` | devices | one cell, the device registry, a move of the identity, sessions; refines `FencedCell` by device |
| `Assignments` | workers | one cell, workers with their processes, assignments, claims; refines `FencedCell` by process |
| `Handoff` | windows | conversation and branches, the disks, the processes that drive and take |
| `DirectoryProofs`, `AssignmentsProofs` | proofs | both implement `FencedCell`; answers, revocation, moves; attempts and claims |
| `HandoffProofs` | proofs | nothing lost, overwritten or forgotten, but by a late retry |
| `MCPlanStore`, `MCSupervisor`, `MCDirectory`, `MCAssignments`, `MCHandoff` | instances | conflict relations, request scripts, symmetry sets and a view for the `.cfg` files |

### PlanStore against the code

Every write in `store.go` is `transact` (2236-2262): BEGIN IMMEDIATE, load,
validate, change a clone, save, commit. So each operation is one atomic action,
and a refused operation, which commits nothing, is a guard. A task is a record of
what guards a state change: parent, the ancestors above it (a parent is fixed at
admission, so the chain the code climbs is kept with the task), hard and
suggested dependencies, status, the composite, waiting and paused flags, the
claimant, and whether there is a result. `promote`, `cancelDescendants` and
`cancelBlockedDependents` are loops over an order in the code and closed forms
here; the run `plan_loops` compares the two in every order on every plan it reaches,
with the rounds as the code has them: a row met later in a round sees what the round did.
What `DeleteSubtree` finds round by round is the least set that holds the id and every
row whose parent it holds. An agent name is any name; the run itself claims under a
task's own, and `Claim(Root, Root)` is the one such claim `PlanNext` needs beside the
agents' (`launchWaits`). A task in `Exacting` was admitted with something to prove:
evidence it requires, or a check's declared commands behind the word that the work holds.
`Done` takes whether the caller brought that proof, and is refused without it. A batch is a list and so finite, which `Admit` says.
`FreshIds` says that callers mint no id the archive holds. `NextID` asks the live plan
alone and draws among two billion ids, so it says that no draw hits an archived one;
callers of the package API name their own ids.

`loadState` validates what it reads before every write. The models do not put
that validation in the guards: `Loadable` claims it can never refuse. The one road
on which it does, an archived id used again, is in the table that ends section 3.

### Supervisor against the code

`at` is the program counter of the goroutine in `Run` and `pass`:
`start` > `pass` > `absorb` > `stale` > `launch` > `frontier` > `claim` > `waits`
(> `wake` > `seat`) > `wakes` > `select`, with `land` > `review` > `write` >
`finding` | `fail` > `complete` for one absorbed return, and `elapsed`, `wall`,
`drain`, `draining`, `end`, `over` for the ways out. The frontier a pass reads is
kept in `todo` while it is claimed, and the snapshot of a sweep in `seen`, because
the store moves under both. `out[t]` is the goroutine of task t: none, busy, or
its return lying in the channel. `cancels` is the map of the same name, `stopped` the
contexts that have ended, `wall` the caller's context. `letGo` is what the loop does to a
cancel it gives up: the context ends and the entry goes, while the goroutine may still work.
The cancel of an absorbed return goes first (`settle`), and what is asked after it,
`waitsForWake` above all, is asked of the map without it. When a task reopens under a
worker that was called off and is launched again, `out[t]`, `stopped` and the return have
one slot for both goroutines; what is claimed of such a state is only that the first was called
off before (`OneLiveWorker`). `owned` and `before` stand
for the row fields Owner and WaitedAt.

Workers are external: a busy worker may add a task, write done, park, and come home
with a kind of report. `World` switches on what may befall a run: a reached limit,
the caller's context ending either way, a stop, a crash, failing workers, parks,
findings; `Cancellable` and `Removable` name the tasks a person may cancel or delete. The
run's own `Done` for a returned worker carries no evidence, so it is refused for a task of
work in `Exacting`, which then fails; for a check it depends on the commands on record
(`proofs`).

### Directory and Assignments against the code

A committed command is evaluated in one step over the applied rows
(`evaluateCommand`), so a command is one action. What lies before it is a network:
`net` keeps every request ever signed, and any of them may be evaluated at any time and
again. A request carries the fence, the device and the head its signer saw, and its
place in a session; the request's own name stands for its digest. The
order of the checks is the code's: revocation, the worker's process, the saved
answer, the sequence, room for a session, the frozen directory, the rule itself. A
refusal of the rule is saved like any answer; what is turned away before it leaves no
trace. The old protocol has no session: only its signed time bounds how late
it may come, so a repeated old acquire raises the fence twice (the code's behaviour,
which `FencedCell` allows). The upload receipt a publish needs is a Boolean of the
request. `granted` and `chain` are history, written from what the *request* claims;
`FencedCell` judges them. `since` in the device registry is history too.

`Assignments` has no network: a command is accepted only when the reference, the
expectation and the fence it carries match the rows, so a late one is a refusal
without trace, with one exception, the saved answer of a claim, which is modelled
(`claims`, `ClaimRefused`, `ClaimAgain`). Which *process* of a worker sends is kept,
and heartbeats are kept as evidence that may come late.

### Handoff against the code

`row` is the directory (a live lease or one run out, `LeaseRules` for the rest), `disk`
what a device keeps when no process runs (local head, `published.json`, branch
map), `proc` the process: a window that drives (`Drive`, `Batcher`), one that is opening,
or a take. A window's requests are made one at a time under `flushMu`, so `pc` is one
counter; beats, lease checks, seals and news of the directory run beside it. Every
request that is carried out may lose its answer (`Unanswered`), takes may fail under
the lease (`GiveBack`), and a process may die anywhere, in the middle of `swap` too.
A turn is a number with its ancestors, a tree its tip. `overwritten` is history: the turns
a late retry (`LateRetry`: a first publish tried again through `resume` over a head it was
not sealed on) took out of a head. It guards no step.

Operators introduced by a comment `Variant:` are not part of the specifications:
each is the mutated form of the definition after it, named in `PROJECT.json`
under "mutants", and shows which property notices that slip.

## 3. Runs

Passing runs (two workers; distinct states):

| Run | Question | States |
|---|---|---|
| `plan_graph` | three tasks, every graph: loads again, readiness, nothing opens under done | 335,679 |
| `plan_agents` | two agents, batches that name each other, holds, archive and delete: claims, parks and endings belong to their worker, and what is left loads | 230,458 |
| `plan_loops` | closed forms equal the loops, every order; with `go`, a conflicting pair never runs together | 44,451 |
| `run_review` | reviews, findings, fixes, splits, parks and a stop: `done` is reviewed, the root integrates, a second worker only beside one called off; the run ends | 525,649 |
| `run_limits` | three tasks, one slot; limits, wall, stop, cancels, the plan deleted, a parent at its wake cap: the ending is written | 1,599,659 |
| `run_crash` | two slots; failures, refused proofs, parks, limits, death anywhere and take-over: limits end work, `done` is said of a finished plan, parents integrate, no worker is left, the run ends or stands where the code does | 1,129,124 |
| `dir_leases` | two devices, three processes, requests late, repeated and lost: `FencedCell` is implemented, answers stay true | 138,884 |
| `dir_govern` | revocation and a move of the identity with requests and evidence under way; an old-protocol device | 675,712 |
| `dir_work` | a worker restarts, drains, is revoked; two assignments, reassigned, cancelled, claimed again, finished; the person takes the cell back | 725,198 |
| `handoff` | two devices drive, close, reopen, take by force and branch, with a fault anywhere, retries in time or late: nothing lost, overwritten or forgotten but by a late retry | 2,649,057 |

Two more runs, `v_overwritten` and `v_lost`, check what the source says and TLC refutes
(below).

Bounds. Three tasks under the root with one dependency each are every shape on
which the laws differ: a chain, a fork, a child and its grandchild, a dependency
between cousins, an edge that would close a cycle through a parent. Two tasks
suffice where the question is about claims (two agents on one task, a parent and
its child). `MaxEdges` and `MaxBatch` bound one task's dependencies and one batch;
edges beyond one add no new reading of `depsDone`, a batch of two is the smallest
that names itself. For the run, two planned tasks give a parent with a child, two
siblings, and a task that hangs on another; the ids beyond those are for checks and
fixes the run mints itself. `MaxWakes` is 1 or 2 instead of 4: the cap is
met, which is the case that matters; a parent that is not the root meets it only with
three planned tasks (`run_limits`: a child, a wake, a second child). In `run_review` one
task is planned and six ids are the checks and fixes the run mints. `Slots` is 0 (no
bound), 1 (`run_limits`) or 2 (`run_crash`: two workers at work when a limit falls or the
process dies, and a third task that waits for a slot). The two properties of `run_crash` that
turn on a plan's shape were also checked beyond it: `TakenOverRunEnds` with three planned
tasks, one slot and each pair of crash, error and park (the pair of crash and error without
suggested edges), and `DoneMeansDone` with the three of `run_limits`.
Symmetry is used only in safety runs, over ids and agents no constant singles out: in
`plan_loops` the conflicting pair and the rest are permuted apart (`Symmetric`).
`CHECK_DEADLOCK FALSE` is said in plan runs, where a plan that has ended comes to
rest, and in the directory and handoff runs, where the clients stop when their bounds
are spent. The run has an explicit stutter `Over`, so that any other stop is an error.

For the directory, two requests per session give each a first and a retry or a second
after it, and three sessions a device with two processes beside its rival; fences to 3
let a fence be lost and won again, with the last value met. Time to 2 with a
lease of 1 has leases live, run out and evidence that is late. `dir_work` takes one
worker with two processes, because a process stands to its successor as it does to
another worker's, and the person is the rival; two assignments, two revisions and two
tries of a claim are the smallest numbers at which an attempt, its saved answer and
the slot can be of different times. In `handoff` three turns make a shared one, one on
each side of a loss; one fault is a lost answer, a failed take or a crash; two branches
are as many as three turns need. A fence is compared with zero and with the row's alone,
so `MCHandoff` views states up to that comparison, which leaves the number of grants
unbounded.

Fairness (`FairRunSpec`). The loop goroutine is scheduled, so its actions
are weakly fair together. A worker returns in the end, because the loop waits for
it on a channel and each worker is itself bounded; what it writes before is never
fair, so it may do nothing at all. `ReleaseStale` is strongly fair: `staleAfter` is
a fixed age, every pass looks, and a claim nobody touches grows old. Persons,
crashes and limits have no fairness.

### Where the code and its own words part

`v_overwritten` and `v_lost` check statements of the source and TLC finds them violated
(`PROJECT.json` quotes them). A window's first publish is carried out and its answer is
lost. The window stays at fence 0, so it neither beats (`beat` returns at fence 0) nor
follows the directory (`followOwnership` asks for a fence). Its lease lapses; another
device takes the conversation, publishes on top of the head and its lease ends. The
window tries again: the create is refused as existing, `resume` takes the free lease
and moves the head from whatever the row shows to its own turn, which was not sealed
on it. `driving` and `catchUp` ask `KnowsHead` in the same position; `resume` does not. That
is `v_overwritten` (`NothingOverwritten`).

`v_lost` (`NoWorkLost`) is one take longer. The turn taken out of the head is still in the
other device's tree, and that device had published it, so its upload boundary equals its
tip. When it takes the conversation again, `Unpublished` finds nothing to keep, no branch is
made, and the older head is installed over the tree: the turn is below no head and in no
tree.

`handoff` shows that this is the only road: with `overwritten` counted in, everything is kept
(`WorkIsKept`, `NothingForgotten`, `CleanQuit`), and no head moves back but by such a retry
(`HeadsMoveUp`).

The models show more of the kind. Each line below is a formula TLC refutes with the
constants given (all others as in the `.cfg` named), those with four planned tasks under a state
constraint that fixes who hangs below whom; they are listed here and are not runs of the
project. `OldDone` is `(at = "over" /\ outcome = "done") => Open(tasks) = {}`, and *plain* is
`RunCrash` with `Exacting = {}`, `DepKinds = {"free"}` and `World = {}`.

| Statement of the source | Formula | Constants | What happens |
|---|---|---|---|
| `model.go:145` a waiting task is off the frontier | `\A t \in DOMAIN tasks : ~(tasks[t].waiting /\ heldStatus(tasks[t].status))` | `PlanLoops` | `ClaimNext` does not look at Waiting: `go` hands out a parked leaf, which is then running and waiting at once |
| `run.go:1282` the run completes its root when every task but the root has ended | `OldDone` | `RunCrash` | a parent fails over open children and `canFinish` looks one level down: the root worker's own done ends the run over open work |
| `run.go:399` no run answers done while a finished piece of work has had no review | `ReviewedBeforeDone` | `RunReview`, `"error"` in `World` | a worker writes done and comes home with an error; `absorb` takes the failure branch, which seats no check |
| `store.go:929` a parked task is launched again, at once if what it waits on failed | a parked task leads to one that is not, or to the end of the run | plain, `World = {"error", "park"}`, `DepKinds = {"free", "suggests"}` | `Wait` accepts a dependency that failed before the park, and `waitMoved` asks what changed since |
| `drive.go:40` a window becomes a viewer when another device takes the chat over | `[][\A d \in Devices : (~proc[d].lost /\ proc'[d].lost /\ proc[d].mode = "driving") => (row[proc[d].id].device # d \/ ~Live(row[proc[d].id], 0))]_vars` | `Handoff` | `CheckLease` compares the row's fence with `batcher.Fence()`, which is 0 while the first create is done and its answer is out: a tool call in that moment makes the window a viewer of a conversation it holds. `HoldsLease` names the same race |
| `batch.go:182` a turn is durable within one upload of being sealed | a driving window with turns noted leads to one without | `Handoff`, with fairness of `Flush` and the requests | a publish whose answer is lost leaves `Driving.Head` old; every later publish is refused as head moved, until the window is reopened |
| `take.go:107` a mapping would make the chat open as the branch | a device that took `Main` opens `Main` | `Handoff` | the branch map is never cleared: after a displaced window kept its turns in a branch, taking the conversation back opens the branch |
| `store.go:1144` a cancel ends the descendants of what it ends | no open task has an ancestor the `Cancel` step turned cancelled | `PlanGraph` | `cancelBlockedDependents` cancels a dependent and leaves the open work under it |
| `delete.go:5` a tombstone keeps an id out | `deleted \cap DOMAIN tasks = {}` | `PlanAgents` | `AddReviewCheck` does not ask the tombstones |
| `persist.go:475` a plan that does not load was tampered with | `Loadable` | `PlanAgents`, `FreshIds = FALSE` | an archived id is added again; `DeleteSubtree` sees the archived row only and leaves the live child without a parent. An id drawn by `NextID` is one of two billion, so this takes a caller that names its own |
| `run.go:259` a pass starts one worker per claim | `OneWorkerPerTask` | `RunCrash` with `World = {"error"}`, `DepKinds = {"free"}`, `Slots = 0`, four planned tasks, `Cancellable = {a}` | below the root hang a, b, c in line, and d below c. The worker of b errs and b fails over the open c; a is cancelled and the cascade stops at b; `endCancelledWorkers` lets go of c, whose ancestor is cancelled; d ends, and `launchWakes`, which does not ask for cancelled ancestors, starts a second worker of c while the first is still out |
| `run.go:1282` the run completes its root when every task but the root has ended | `OldDone` | `RunReview`, `Exacting = {}`, `World = {}`, four planned tasks | u and its child v have written done, x hangs hard on u and was claimed. The return of v seats a check, which reopens u. The return of x is then refused its done (u is open), so the run fails x, whose child e comes home later and has its check seated under the failed x. The root's worker ends the root over that check |
| `run.go:399` no run answers done while a finished piece of work has had no review | `ReviewedBeforeDone` | `RunReview`, `"crash"` in `World` | the process dies after a worker wrote done and before its return is absorbed; the next one does not know that a check is owed |
| `store_test.go:1036` a serial pair cannot run together | `ConflictsKeptApart` | `RunCrash` without crashes, every pair in `Conflict` | the pass claims all of one reading of the frontier; no caller declares conflicts today |
| `run.go:1302` at most `maxWakes` wakes | `\A t \in AllIds : wakes[t] <= MaxWakes` | `RunCrash` without crashes | the wake of a parked composite is counted and not compared |
| `run.go:1918` `Summary.Limit` is empty unless a limit ended the run | `(at = "over" /\ limitHit # "") => outcome = "limit"` | `RunLimits` | the receipt that crosses the limit completes the tree |
| `store.go:1605` a stop is left as it ended | a cancelled root stays cancelled | `RunReview` | a check is seated and the root's worker parks after the stop; the loop has let go of it, wakes the root and starts a second worker (`OneWorkerPerTask`) |
| `run.go:1651` a return is a wait while a child has not landed | `[][(WriteDone /\ tasks' # tasks) => integrated(ret.task)]_runVars` | `RunReview` | a child wrote done and is not home when its parent returns; `ParentsIntegrate` allows this and nothing else |
| `run.go:1329` at the cap the root is closed by `completeTree` | `RunEnds`; `~([]<><<Restart>>_runVars) => <>(at = "over")` | plain, `Cancellable = {a}`; plain, three planned tasks, one slot, `World = {"crash", "error"}` | the last child ends by a cancel, or is closed by `ReleaseStale` after a take-over, when the root's wakes are spent, and `completeTree` is reached from `absorb` alone |
| `run.go:1329` at the cap a parent is closed with its children's endings | `RunEnds` | plain, three planned tasks, one slot, `Exacting = {a, b, c}` | `closeAtCap`'s own `Done` carries no evidence, is refused, and is tried again at every pass |
| `store.go:929` a parked task is launched again | `<>(at = "over") \/ <>[](\E t : standsAtCap(t) \/ standsParked(t))` | plain, three planned tasks, one slot, `World = {"error", "park"}`, `DepKinds = {"free", "suggests"}` | a hangs below c and suggests b, b suggests c, and all three park: only hard edges are searched for a circle (`store.go:2454`) |
| `run.go:1664` no task is held open that no wake will close | a held row with no worker leads to one that is not | plain, `Removable = {a}` | the last child of a waiting parent is deleted, and no sweep looks at a task that is no composite |
| `run.go:828` no task stays open and stalls the run | `RunEnds` | plain, `World = {"error"}`, `DepKinds = {"free", "hard"}` | a task hangs on one that failed, can never be ready, and the run stands until its wall |

`RunEnds` (of `run_review`) is checked where none of this happens: no cancel or delete of a last
child, no hard dependency on a task that may fail, no failing worker. `TakenOverRunEnds` (of
`run_crash`) names instead the places where a run may stand for good, `stands`: a parent whose
wakes are spent and whose children have all landed, a parked task all of whose waits ended
before it parked, and a circle of waits. A run that stands for any other reason is found.

## 4. Proofs

A theorem holds for every value of the constants the named assumptions of its module
allow: any set of tasks, agents, devices, workers or branches, any bound. Where a
theorem needs more, it says so with ASSUME. An inductive invariant that is not itself
a property of a run was first checked by TLC on the run of its module.

### The plan store

`TypeCorrect` (`TypeOK`) is inductive as it stands: each operation maps a well-formed
map of tasks to one. Lemmas show that `cancelRows`, `closeComposites`, `setReadiness`,
hence `promote`, `recomputeComposite` and `Keep` take a plan (`isPlan`) to a plan; then
one lemma per operation and one step per disjunct of `PlanNext`.

| Theorem | Property | Argument |
|---|---|---|
| `ParkedNeverFinished` | `ParkedNotFinished` | inductive with `TypeOK`: a step that ends a row asks `refuseParked`, is a closing that passes parked rows by, or ends the root |
| `ClaimsAreKept` | `ClaimNotStolen` | every operation but a claim is *calm* (no row runs after it that did not run before under the same claimant), and a claim changes one row nobody held |
| `ConflictsApart` | `ConflictsKeptApart` | of `GoSpec` only: `executionBlocked` is read in the transaction that claims, and `Conflict` is symmetric; `Claim` does not ask it |
| `ReadyIsNeverStale` | `ReadyMeansDepsDone` | what ends in `promote` proves it afresh; the other writes keep edges, lines and what is done (`Kept`), and a delete cancels the dependents of what it takes |
| `EndingsAreKept` | `EndingsStand` | the same relation `Kept`, which composes, operator by operator |
| `WorkersCloseTheirOwn` | `HeldClosesByItsWorker` | needs `HeldByAgents`: the claimant of a row that runs was put there by a claim |
| `PlanStaysSound` | | the inductive invariant `LoadIInv`, below |
| `StoredPlanLoads` | `Loadable` | `LoadIInv` says all that `loadState` asks |
| `FinishedStaysShut` | `NothingOpensUnderDone` | a row under a finished one has the finished one in its line, and each write asks its line |

`Loadable` is not inductive: that a new row's line is right needs to know that every line
already in the plan is. `LoadIInv` adds that the ancestors a task keeps are its parent's
with the parent, lie within the plan, never hold the task, and are *no more* than climbing
the parents meets: they are within every set that is closed under parents. The last part
stands in for an induction over the tree, which the provers cannot do; it is what shows
that the line of a row moved in with a batch is the climb through the batch and on into
the plan (`Climbs`, `InBatchLeast`), and that a subtree's `doomed` rows are exactly those
with the deleted id in their line. `LoadIInv` and the two theorems below it assume
`FreshIds`: with an archived id used again `Loadable` fails (last table of section 3).

### The run

`RunIsACaller == RunSpec => PlanSpec`: every step of the loop, of its workers, of a person
and of a process that takes over is a step of the store or leaves the plan alone, so what
is proved of the store holds in a run. It needs that the loop calls with ids and
names the store knows, and that the store's bounds admit what the loop asks
(`RunAssumption`: one row in a batch, one edge, a result).

| Theorem | Property | Argument |
|---|---|---|
| `RunTypeCorrect` | `RunTypeOK` | with `ReturnOK`: a return in hand names a task, whose phase says what it is |
| `NoWorkerLeft` | `NoWorkerOutlivesRun` | `WorkersComeHome`: nobody is out before the start, `drain` waits for what `inFlight` counts, and no road leads from it to a launch |
| `LimitsEndWork` | `LimitEndsWork` | `LimitStartsNothing`: a worker that is out is one whose cancel the run holds or whose context has ended, and after a limit nothing is left in `todo` |
| `RootIsIntegrated` | `RootIntegrates` | what `completeTree` asks, with `Shape`: the composite flag tells truly whether the root has children |
| `EndingsAreWritten` | `EndingWritten` | `DoneRootStays`, below |
| `WorkersAreCalledOff` | `OneLiveWorker` | `LimitStartsNothing` again: whoever is out is held or was called off |

`EndingWritten` could fail by a write after the ending: `Wait` asks the root's worker
nothing about the root's status, and that worker may still be out when the run reads
its root as done. `EndingIInv` (theorem `DoneRootStays`) shows that it comes to nothing:
in a run nothing is hung on the root and a done root has its children ended
(`RootWhole`), so `openWaits` is empty and `Wait` is refused; and once `done` is said
the loop seats no more reviews (`SaidDone`). The other endings are written after the
drain, when `NoWorkerLeft` has everybody home. `RootWhole` rests on the run never calling
`Retry`, which `RunStepCalls` shows: it lists what a run asks of the store. `RootIsIntegrated`,
`DoneRootStays` and `EndingsAreWritten` assume `FreshIds`, for the lines and
shape of `LoadIInv`.

*A second worker.* A launch asks only whether the run holds the task's cancel (`cancels`),
and a pass gives up the cancels of tasks that ended badly while their goroutines still
work. A task reopened under such a worker (`run.go:259` and `store.go:1605` in the last table of
section 3) gets a second one. `OneLiveWorker` is what the code does keep, in every world and for
every choice of `Cancellable` and `Removable`: no road forgets a cancel without calling it.

### Directory and assignments

| Theorem | Property | Argument |
|---|---|---|
| `ImplementsFencedCell` | `FencedCellSpec` | refinement; the row is the last grant and the last version (`RowIsLast`), so what an accepted request was signed over is the row |
| `AnswersStayTrue` | `AnswersAgree` | requests have numbers of their own (`Numbered`), and a session's saved answer is that of the request it names (`Remembered`) |
| `RevokedLeaseEnds` | `RevokedRunsOut` | no renewal of a revoked device is accepted, and a lease never reaches beyond one TTL (`TimesAgree`) |
| `RevocationIsForGood`, `MovedDirectoryStands` | `RevokedStays`, `FrozenStands` | action properties, from the invariant |
| `ProcessesAreFenced` | `FencedByProcess` | refinement by process; a worker's hold is the grant of its claim (`HoldIsGrant`) |
| `OneAttemptAtATime` | `OneOpenAttempt` | inductive with the slot |
| `SavedClaimsAreCurrent`, `ClaimsGrantOnce` | `SavedClaimIsCurrent`, `ClaimOnce` | what was granted, saved and answered of an attempt agree (`GrantsAreClaims`, `ClaimsAreGrants`) |
| `FinishedWorkIsClaimed` | `FinishedUnderItsClaim` | the fence a finish is accepted under is its claim's |

With `DirectoryTypeCorrect` and `WorkTypeCorrect` these are all the properties of the
directory's three runs. The bounds on clocks, fences and numbers are at least one where a
type asks for it, and an absent assignment is told apart from a row (`AbsentAssumption`).

### The handoff

`Base` says what any one window and any one row keep: a turn comes with the ancestors of its
ancestors; what is named was sealed; heads are in the store; what a window has noted is a line
from the head it publishes over up to its tip; a window without a fence is the origin's.
From it come `HandoffTypeCorrect` and `WhatIsNamedIsStored` (`HeadsAreStored`).

`Kept` adds what relates a window to the directory: a window with a lease sends a turn over a
head it was sealed on (`Over`); whatever is at or below an upload boundary, and a tree about to
be replaced, is in `Reached`, that is, below some head or taken out of one by a late retry
(`Boundary`). It is inductive with `Base`, and from it come `TakeoversKeepWork` (`WorkIsKept`),
`NothingIsForgotten` (`NothingForgotten`), `OnlyLateRetriesOverwrite` (`HeadsMoveUp`) and
`QuitsAreClean` (`CleanQuit`). None of them assumes anything of timing: a first publish may be
retried however late. That no branch is named twice and that the store only grows is used
throughout.

### Only model-checked

* Liveness (`RunEnds`, `TakenOverRunEnds`): fairness and ENABLED are beyond the prover.
* `ClosedFormsAreTheLoops`: `PlanLoops` is RECURSIVE, and an equality with a loop is an
  induction over the plan.
* `DoneMeansDone`, `ReviewedBeforeDone` and `ParentsIntegrate`: what hangs below what, and who
  was told of it, through every write of the store and every step of the loop.
* `ConflictsKeptApart` is checked and proved where work is taken with `go` (`GoSpec`). A run
  claims from one reading of the frontier and does not keep it (`store_test.go:1036` in the last
  table of section 3).

## 5. Not modelled, and why

* The text of tasks: titles, briefs, notes, tags, results beyond present or absent.
* `Amend`, `Revise`, `Prune` and the question records: they guard no step of the graph. What a
  row requires of a completion is fixed when the row is admitted (`Exacting`); which evidence
  meets it, and a check's trajectory, are one Boolean.
* Dollar amounts: the model has only that a receipt, or a live count, reaches the limit.
* The admission gate (`mayStart`, holds): the nil gate of the command line. A gate
  only delays a launch.
* Worker verbs beyond add, done and wait; the multi-transaction verbs of the CLI.
* In the directory: membership, leadership and the configuration of the group; joins;
  `Archive`, `SetVault`, the quiescence marker (no rule of a cell reads them); byte
  budgets; signatures and certificates, which are taken to be right; the enrolment
  of workers and the size of their registry.
* In the handoff: a take while a window of the same device is open (`retireHolder`
  and its timeout); rewinds; saves that carry no work (`LocalWork` drops them); branches
  opened or taken by other devices, and the end of a branch's lease; the vault; frames and
  held objects (a fetch asks only whether the objects are stored); removed
  devices; the send-lease file.
* Consensus itself: the library is vendored, and the repository's simulator checks the
  way it is driven.
* The session agent, the resident program, the engine host, the adaptive runner and the
  other components of `PROJECT.json` marked so: most are loops around model output or
  presentation, far larger than what is modelled, and share no state with it beyond the
  calls modelled here.

## 6. Plan

A. *Runs, done*: `PlanStore`, `PlanLoops`, `Supervisor`, and the theorems of the plan
store and of the run in section 4.

B. *Between machines, done*: `LeaseRules`, `FencedCell`, `Directory`, `Assignments`,
`Handoff`, and the theorems about the last three.

C. *Theorems, done*: each safety and action property of a run is stated by one, but for the
three of the run listed under "Only model-checked" and `ClosedFormsAreTheLoops`.

D. *Deeper.* Two processes over one plan store (touch, stale, take-over, a worker that ends a
task claimed again under the same name); the CLI's verbs of several transactions;
live, counted and settled dollars; membership and leadership of the directory; a take
beside an open window; the resident lease with its legacy lock; the frontier of `orchestrate`.
