------------------------------ MODULE PlanStore ------------------------------
(***************************************************************************)
(* The plan of one run: the task graph that internal/plandb keeps in a      *)
(* SQLite file.  Every write of the store is one BEGIN IMMEDIATE            *)
(* transaction over a fresh load (transact, changeTask), so each operation  *)
(* of store.go and delete.go is one atomic action here; processes, worker   *)
(* shells, the supervisor and a person at the screen interleave between     *)
(* actions.  A refused operation commits nothing, so a refusal is a guard.  *)
(*                                                                         *)
(* `tasks' is the map state.Tasks, `deleted' the tombstones, `archived' the *)
(* archived_tasks table with each row's parent.  Text, tags, spend, notes   *)
(* and timestamps are left out; a result is kept as present or absent.  A   *)
(* claim's Owner and SeenAt guard nothing in the store: the module          *)
(* Supervisor keeps which process holds a claim.                            *)
(***************************************************************************)
EXTENDS FiniteSets, Integers

CONSTANTS
  Ids,          \* task ids a caller may use, the root's excepted
  Root,         \* the id of the run's own task
  Agents,       \* names a claim is made under
  Conflict,     \* executionConflict: a symmetric set of pairs of ids
  None,         \* the empty string: no parent, no claimant
  Runtime,      \* "runtime", the name the root is created under
  MaxEdges,     \* bound: dependencies of one task
  MaxBatch,     \* bound: specs of one AddMany (the code admits 256)
  FreshIds,     \* callers mint no id the archive holds (NextID draws), or may
  EdgeKinds,    \* input: dependency kinds in use, of "hard" and "suggests"
  Pausable,     \* input: ids a person may pause
  Removable,    \* input: ids a person may archive or delete
  Exacting,     \* input: ids of tasks a completion must prove: the row requires
                \* evidence, or a check's `holds:' a clean run of what it declares
  Results       \* input: is a completion's result non-empty

AllIds == Ids \cup {Root}
Names  == Agents \cup {Root, Runtime, None}

ASSUME ConstantsAssumption ==
  /\ Root \notin Ids
  /\ None \notin AllIds \cup Agents
  /\ Runtime \notin AllIds \cup Agents \cup {None}
  /\ Root \notin Agents
  /\ Conflict \subseteq AllIds \X AllIds
  /\ \A p \in Conflict : <<p[2], p[1]>> \in Conflict
  /\ MaxEdges \in Nat /\ MaxBatch \in Nat /\ FreshIds \in BOOLEAN
  /\ EdgeKinds \subseteq {"hard", "suggests"} /\ Results \subseteq BOOLEAN
  /\ Pausable \subseteq Ids /\ Removable \subseteq AllIds /\ Exacting \subseteq Ids

VARIABLES tasks, deleted, archived
planVars == <<tasks, deleted, archived>>

Status == {"pending", "ready", "running", "done", "failed", "cancelled"}

Task == [parent : AllIds \cup {None}, above : SUBSET AllIds,
         hard : SUBSET AllIds, soft : SUBSET AllIds,
         status : Status, composite : BOOLEAN, waiting : BOOLEAN,
         paused : BOOLEAN, claimedBy : Names, result : BOOLEAN]

\* A map of tasks a transaction may write.
isPlan(T) == DOMAIN T \subseteq AllIds /\ T \in [DOMAIN T -> Task]

-----------------------------------------------------------------------------
(* Readings of a map of tasks, T.                                           *)

terminal(s) == s \in {"done", "failed", "cancelled"}
heldStatus(s) == s = "running"          \* no operation writes `claimed'

Open(T) == {t \in DOMAIN T : ~terminal(T[t].status)}
IsDone(T, t) == t \in DOMAIN T /\ T[t].status = "done"
Children(T, t) == {c \in DOMAIN T : T[c].parent = t}

\* The task and the chain the walks `value.Tasks[current.ParentID]' climb: a
\* parent is fixed at admission, so the chain is kept with the task.
Lineage(T, t) == {t} \cup T[t].above

pausedInLineage(T, t) == \E a \in Lineage(T, t) \cap DOMAIN T : T[a].paused

depsDone(T, t) ==
  \A a \in Lineage(T, t) \cap DOMAIN T : \A u \in T[a].hard : IsDone(T, u)
\* Variant: an ending that does not look at the children.
canFinishDepsOnly(T, t) == \A u \in T[t].hard : IsDone(T, u)

canFinish(T, t) ==
  /\ \A c \in Children(T, t) : terminal(T[c].status)
  /\ \A u \in T[t].hard : IsDone(T, u)

allChildrenTerminal(T, t) ==
  /\ Children(T, t) # {}
  /\ \A c \in Children(T, t) : terminal(T[c].status)

openWaits(T, t) ==
  {u \in T[t].hard \cup T[t].soft : ~IsDone(T, u)}
    \cup {c \in Children(T, t) : ~terminal(T[c].status)}
\* Variant: a running task with children does not count as work under way.
executionBlockedByLeaves(T, t) ==
  \E o \in DOMAIN T \ {t, Root} :
     heldStatus(T[o].status) /\ ~T[o].composite /\ <<t, o>> \in Conflict

executionBlocked(T, t) ==
  \E o \in DOMAIN T \ {t, Root} :
     heldStatus(T[o].status) /\ <<t, o>> \in Conflict
\* Variant: the cascade walks on through tasks that have ended.
OpenSubtree(T, t) == {d \in Open(T) : t \in T[d].above}

\* The open tasks under t that a walk down from t through open tasks meets.
OpenBelow(T, t) ==
  {d \in Open(T) : /\ t \in T[d].above
                   /\ \A a \in T[d].above \cap DOMAIN T :
                        t \in T[a].above => ~terminal(T[a].status)}

-----------------------------------------------------------------------------
(* The graph laws.                                                          *)

\* detectCycle over the hard edges: a finite graph has a cycle iff some
\* non-empty set of nodes gives each of its members an edge into the set.
hardCycles(T) ==
  LET hung == {t \in DOMAIN T : T[t].hard # {}}
  IN {X \in SUBSET hung : X # {} /\ \A x \in X : T[x].hard \cap X # {}}

validateGraphs(T) ==
  /\ hardCycles(T) = {}
  /\ \A t \in DOMAIN T : t \notin T[t].above
  /\ \A t \in DOMAIN T : \A u \in T[t].hard :
       u \notin T[t].above /\ (u \in DOMAIN T => t \notin T[u].above)

validateLoadedState(T, dead) ==
  \/ Root \in dead /\ DOMAIN T = {}
  \/ /\ Root \in DOMAIN T /\ T[Root].parent = None
     /\ \A t \in DOMAIN T \ {Root} : T[t].parent \in DOMAIN T
     /\ \A t \in DOMAIN T : T[t].hard \cup T[t].soft \subseteq DOMAIN T
     /\ validateGraphs(T)
     /\ \A t \in DOMAIN T : T[t].composite <=> Children(T, t) # {}

-----------------------------------------------------------------------------
(* promote: the loop of store.go brought to its fixpoint.  A composite no   *)
(* worker holds closes once its children have ended, which may let the      *)
(* composite above it close in turn; readiness is then read off the result. *)
\* Variant: a composite closes under the worker that holds it.
ClosableHeldToo(T) ==
  {c \in DOMAIN T \ {Root} :
     T[c].composite /\ ~T[c].waiting /\ ~terminal(T[c].status) /\ Children(T, c) # {}}

Closable(T) ==
  {c \in DOMAIN T \ {Root} :
     /\ T[c].composite /\ ~T[c].waiting
     /\ ~terminal(T[c].status) /\ ~heldStatus(T[c].status)
     /\ Children(T, c) # {}}
\* Variant: one pass over the composites instead of the fixpoint.
ClosingOnePass(T) == {c \in Closable(T) : allChildrenTerminal(T, c)}

Closing(T) == {c \in Closable(T) : OpenBelow(T, c) \subseteq Closable(T)}

\* Under a closing composite some child, or child of a closing child, ended
\* otherwise than done.
EndsFailed(T, c) ==
  \E d \in DOMAIN T :
     /\ c \in T[d].above
     /\ terminal(T[d].status) /\ T[d].status # "done"
     /\ \A a \in T[d].above \cap DOMAIN T :
          c \in T[a].above => ~terminal(T[a].status)

closeComposites(T) ==
  [t \in DOMAIN T |->
     IF t \in Closing(T)
     THEN [T[t] EXCEPT !.status = IF EndsFailed(T, t) THEN "failed" ELSE "done"]
     ELSE T[t]]
\* Variant: a ready task is never demoted.
setReadinessUpOnly(T) ==
  [t \in DOMAIN T |->
     IF T[t].status = "pending" /\ depsDone(T, t)
     THEN [T[t] EXCEPT !.status = "ready"] ELSE T[t]]

setReadiness(T) ==
  [t \in DOMAIN T |->
     IF T[t].status \in {"pending", "ready"}
     THEN [T[t] EXCEPT !.status = IF depsDone(T, t) THEN "ready" ELSE "pending"]
     ELSE T[t]]

promote(T) == setReadiness(closeComposites(T))

-----------------------------------------------------------------------------
(* The cascades of an ending.                                               *)

cancelRows(T, ids) ==
  [t \in DOMAIN T |->
     IF t \in ids THEN [T[t] EXCEPT !.status = "cancelled", !.claimedBy = None]
     ELSE T[t]]

cancelDescendants(T, t) == cancelRows(T, OpenBelow(T, t))
\* Variant: the blocked sweep takes tasks that have ended too.
BlockedAny(T, gone) ==
  LET doomedBy(t, X) == \E u \in T[t].hard :
        u \in gone \cup X \/ (u \in DOMAIN T /\ T[u].status = "cancelled")
      candidates == DOMAIN T \ {Root}
  IN {t \in candidates :
        \A X \in SUBSET candidates :
           (\A d \in candidates : doomedBy(d, X) => d \in X) => t \in X}

\* Least set of open tasks that hard-depend on a task in `gone', on a
\* cancelled task, or on a member of the set.
Blocked(T, gone) ==
  LET doomedBy(t, X) == \E u \in T[t].hard :
        u \in gone \cup X \/ (u \in DOMAIN T /\ T[u].status = "cancelled")
      candidates == Open(T) \ {Root}
  IN {t \in candidates :
        \A X \in SUBSET candidates :
           (\A d \in candidates : doomedBy(d, X) => d \in X) => t \in X}

cancelBlockedDependents(T, gone) == cancelRows(T, Blocked(T, gone))
\* Variant: the shape is not recomputed when rows leave.
shapeAsItWas(T) == T

recomputeComposite(T) ==
  [t \in DOMAIN T |-> [T[t] EXCEPT !.composite = Children(T, t) # {}]]

Keep(T, ids) == [t \in DOMAIN T \ ids |-> T[t]]

-----------------------------------------------------------------------------
(* One task changed and the plan written.                                   *)

changeTask(id, row) == tasks' = [tasks EXCEPT ![id] = row]
changeTaskAndPromote(id, row) == tasks' = promote([tasks EXCEPT ![id] = row])
restUnchanged == UNCHANGED <<deleted, archived>>

unclaimed(row) == [row EXCEPT !.claimedBy = None]
\* Variant: a claim writes the ladder's other held word.
claimedRowClaimed(row, agent) == [row EXCEPT !.status = "claimed", !.claimedBy = agent]

claimedRow(row, agent) == [row EXCEPT !.status = "running", !.claimedBy = agent]

\* requireOwner: the caller names the claim's own agent.
requireOwner(row, agent) == row.claimedBy # None /\ agent = row.claimedBy

rootWorker(id, agent) == id = Root /\ agent = Root

newRow(parent, above, hard, soft) ==
  [parent |-> parent, above |-> above, hard |-> hard, soft |-> soft,
   status |-> "pending", composite |-> FALSE, waiting |-> FALSE, paused |-> FALSE,
   claimedBy |-> None, result |-> FALSE]

rootRow == [newRow(None, {}, {}, {}) EXCEPT !.status = "running", !.claimedBy = Runtime]

\* loadOrCreate on a place with no store: the root alone, held by the runtime.
PlanInit ==
  /\ tasks = [t \in {Root} |-> rootRow]
  /\ deleted = {}
  /\ archived = [t \in {} |-> None]

-----------------------------------------------------------------------------
(* Admission.                                                               *)

\* What climbing the parents from a new task meets.  A batch whose parents form
\* a cycle puts a task above itself, and validateGraphs refuses it.
climb(specs, s) ==
  LET batch == DOMAIN specs
      inBatch == {x \in batch : \A X \in SUBSET batch :
        (\A y \in X \cup {s} : specs[y].parent \in batch => specs[y].parent \in X) => x \in X}
      stored == {specs[x].parent : x \in inBatch \cup {s}} \ batch
  IN inBatch \cup UNION {Lineage(tasks, p) : p \in stored}

\* A batch of specs, new id by new id: parent and dependencies.
AddMany(specs) ==
  LET batch == DOMAIN specs
      known == DOMAIN tasks \cup batch
      admitted == [t \in known |->
        LET row == IF t \in batch
                   THEN newRow(specs[t].parent, climb(specs, t), specs[t].hard, specs[t].soft)
                   ELSE tasks[t]
        IN IF \E s \in batch : specs[s].parent = t
           THEN [row EXCEPT !.composite = TRUE] ELSE row]
  IN /\ batch # {}
     /\ batch \cap (DOMAIN tasks \cup deleted) = {}
     /\ FreshIds => batch \cap DOMAIN archived = {}
     /\ \A s \in batch :
          /\ specs[s].parent \in known
          /\ specs[s].parent \in DOMAIN tasks => ~terminal(tasks[specs[s].parent].status)
          /\ specs[s].hard \cup specs[s].soft \subseteq known \ {s}
     /\ validateGraphs(admitted)
     /\ tasks' = promote(admitted)
     /\ restUnchanged

\* Variant: a review check seated without moving finished ancestors back.
AddReviewCheckUnder(id, parent) ==
  /\ id \notin DOMAIN tasks \cup DOMAIN archived /\ parent \in DOMAIN tasks
  /\ tasks' = promote([t \in DOMAIN tasks \cup {id} |->
       IF t = id THEN newRow(parent, Lineage(tasks, parent), {}, {})
       ELSE [tasks[t] EXCEPT !.composite = @ \/ t = parent]])
  /\ restUnchanged

\* A review check (it declares no dependency): every done ancestor is moved
\* back to pending and keeps its result and its claimant.  The tombstones are
\* not consulted.
AddReviewCheck(id, parent) ==
  LET above == Lineage(tasks, parent)
      seated == [t \in DOMAIN tasks \cup {id} |->
        IF t = id THEN newRow(parent, above, {}, {})
        ELSE IF t \notin above THEN tasks[t]
        ELSE [tasks[t] EXCEPT !.composite = TRUE,
                !.status = IF @ = "done" THEN "pending" ELSE @]]
  IN /\ id \notin DOMAIN tasks
     /\ parent \in DOMAIN tasks
     /\ FreshIds => id \notin DOMAIN archived
     /\ validateGraphs(seated)
     /\ tasks' = promote(seated)
     /\ restUnchanged
\* Variant: an edge added without asking the graph laws.
AddDepUnasked(id, up, isHard) ==
  /\ id \in DOMAIN tasks /\ up \in DOMAIN tasks
  /\ up \notin tasks[id].hard \cup tasks[id].soft
  /\ Cardinality(tasks[id].hard \cup tasks[id].soft) < MaxEdges
  /\ changeTaskAndPromote(id, [tasks[id] EXCEPT
        !.hard = IF isHard THEN @ \cup {up} ELSE @,
        !.soft = IF isHard THEN @ ELSE @ \cup {up}])
  /\ restUnchanged

AddDep(id, up, isHard) ==
  LET row == [tasks[id] EXCEPT
                !.hard = IF isHard THEN @ \cup {up} ELSE @,
                !.soft = IF isHard THEN @ ELSE @ \cup {up}]
  IN /\ id \in DOMAIN tasks /\ up \in DOMAIN tasks
     /\ up \notin tasks[id].hard \cup tasks[id].soft
     /\ Cardinality(tasks[id].hard \cup tasks[id].soft) < MaxEdges
     /\ validateGraphs([tasks EXCEPT ![id] = row])
     /\ changeTaskAndPromote(id, row)
     /\ restUnchanged

RemoveDep(id, up) ==
  LET row == [tasks[id] EXCEPT !.hard = @ \ {up}, !.soft = @ \ {up}]
  IN /\ id \in DOMAIN tasks
     /\ validateGraphs([tasks EXCEPT ![id] = row])
     /\ changeTaskAndPromote(id, row)
     /\ restUnchanged

-----------------------------------------------------------------------------
(* Claims.                                                                  *)

\* ReadySet().Runnable.
Runnable ==
  {t \in DOMAIN tasks :
     /\ tasks[t].status = "ready" /\ ~tasks[t].composite /\ ~tasks[t].waiting
     /\ ~pausedInLineage(tasks, t) /\ ~executionBlocked(tasks, t)}
\* Variant: a claim that asks only whether the task has ended.
ClaimOpen(id, agent) ==
  /\ id \in DOMAIN tasks
  /\ ~terminal(tasks[id].status) /\ ~tasks[id].composite
  /\ changeTask(id, claimedRow(tasks[id], agent))
  /\ restUnchanged

Claim(id, agent) ==
  /\ id \in DOMAIN tasks
  /\ tasks[id].status = "ready" /\ ~tasks[id].composite
  /\ changeTask(id, claimedRow(tasks[id], agent))
  /\ restUnchanged

ClaimWake(id, agent) ==
  /\ id \in DOMAIN tasks
  /\ tasks[id].status = "ready" /\ tasks[id].composite
  /\ changeTask(id, claimedRow(tasks[id], agent))
  /\ restUnchanged

\* The `go' verb: any eligible leaf stands for the one of highest priority.
ClaimNext(agent) ==
  \E id \in DOMAIN tasks :
    /\ tasks[id].status = "ready" /\ ~tasks[id].composite
    /\ ~pausedInLineage(tasks, id) /\ ~executionBlocked(tasks, id)
    /\ changeTask(id, claimedRow(tasks[id], agent))
    /\ restUnchanged

Release(id, agent) ==
  /\ id \in DOMAIN tasks \ {Root}
  /\ heldStatus(tasks[id].status)
  /\ requireOwner(tasks[id], agent)
  /\ changeTaskAndPromote(id, [unclaimed(tasks[id]) EXCEPT !.status = "pending"])
  /\ restUnchanged

-----------------------------------------------------------------------------
(* Endings, parking and holds.                                              *)
\* Variant: no refusal.
anyRow(row) == TRUE

\* refuseParked: a parked task is finished only by a worker woken for it.
refuseParked(row) == ~row.waiting

placeholder(row) == row.status = "done" /\ ~row.result /\ row.claimedBy = None

\* What Done and Fail ask before they write.  `proven': the completion carries
\* evidence, or the runs on record bear the verdict out.
mayFinish(id, agent, proven) ==
  /\ id \in DOMAIN tasks
  /\ refuseParked(tasks[id])
  /\ id = Root => rootWorker(id, agent)
  /\ \/ placeholder(tasks[id])
     \/ /\ ~terminal(tasks[id].status)
        /\ canFinish(tasks, id)
        /\ ~rootWorker(id, agent) =>
             requireOwner(tasks[id], agent) /\ heldStatus(tasks[id].status)
  /\ id \in Exacting => proven

mayFail(id, agent) ==
  /\ id \in DOMAIN tasks \ {Root}
  /\ refuseParked(tasks[id])
  /\ ~terminal(tasks[id].status)
  /\ requireOwner(tasks[id], agent)

\* A completion that is written proves what it must; one that does not changes
\* nothing.
Done(id, agent, withResult) ==
  /\ mayFinish(id, agent, TRUE)
  /\ changeTaskAndPromote(id, [tasks[id] EXCEPT
        !.status = "done", !.result = withResult, !.claimedBy = agent])
  /\ restUnchanged

Fail(id, agent) ==
  /\ mayFail(id, agent)
  /\ changeTaskAndPromote(id, [tasks[id] EXCEPT !.status = "failed"])
  /\ restUnchanged

Wait(id, agent) ==
  /\ id \in DOMAIN tasks
  /\ ~rootWorker(id, agent) =>
       requireOwner(tasks[id], agent) /\ heldStatus(tasks[id].status)
  /\ openWaits(tasks, id) # {}
  /\ changeTaskAndPromote(id, [unclaimed(tasks[id]) EXCEPT
        !.waiting = TRUE, !.status = "pending"])
  /\ restUnchanged

Wake(id) ==
  /\ id \in DOMAIN tasks /\ tasks[id].waiting
  /\ changeTask(id, [tasks[id] EXCEPT !.waiting = FALSE])
  /\ restUnchanged

\* Pause and Resume.
hold(id, on) ==
  /\ id \in DOMAIN tasks \ {Root}
  /\ tasks[id].paused # on
  /\ changeTask(id, [tasks[id] EXCEPT !.paused = on])
  /\ restUnchanged

Retry(id) ==
  /\ id \in DOMAIN tasks \ {Root}
  /\ tasks[id].status = "failed"
  /\ changeTaskAndPromote(id, [unclaimed(tasks[id]) EXCEPT !.status = "pending"])
  /\ restUnchanged

Cancel(id) ==
  LET cut == [tasks EXCEPT ![id] = [unclaimed(@) EXCEPT !.status = "cancelled"]]
      swept == cancelBlockedDependents(cancelDescendants(cut, id), {id})
  IN /\ id \in DOMAIN tasks \ {Root}
     /\ ~terminal(tasks[id].status)
     /\ tasks' = promote(swept)
     /\ restUnchanged

-----------------------------------------------------------------------------
(* Endings of the run's own task.                                           *)

hasOpenDescendants(T) == Open(T) \ {Root} # {}

CompleteRoot(withResult) ==
  LET allDone == \A t \in DOMAIN tasks \ {Root} : tasks[t].status = "done"
  IN /\ Root \in Open(tasks)
     /\ refuseParked(tasks[Root])
     /\ ~hasOpenDescendants(tasks)
     /\ changeTask(Root, [tasks[Root] EXCEPT !.result = withResult,
                            !.status = IF allDone THEN "done" ELSE "failed"])
     /\ restUnchanged

\* StopRoot (cancelled) and EndRoot (failed) write closeRoot; FailRootAt is
\* the same write as EndRoot but for the times.
closeRoot(rootStatus) ==
  /\ Root \in Open(tasks)
  /\ tasks' = promote([t \in DOMAIN tasks |->
       IF terminal(tasks[t].status) THEN tasks[t]
       ELSE [unclaimed(tasks[t]) EXCEPT !.status = IF t = Root THEN rootStatus ELSE "cancelled"]])
  /\ restUnchanged

StopRoot == closeRoot("cancelled")
EndRoot  == closeRoot("failed")
FailRoot == closeRoot("failed")

-----------------------------------------------------------------------------
(* Rows leave the plan.                                                     *)

\* archiveSelection.  `old': the tasks terminal since before the cutoff.
archiveSelection(old) ==
  LET eligible == {t \in DOMAIN tasks \ {Root} :
         \A d \in DOMAIN tasks : t \in Lineage(tasks, d) => d \in old}
      subtree(t) == {d \in DOMAIN tasks : t \in Lineage(tasks, d)}
      referenced(S) == \E d \in DOMAIN tasks \ S : (tasks[d].hard \cup tasks[d].soft) \cap S # {}
      tops == {t \in eligible : tasks[t].parent \notin eligible /\ ~referenced(subtree(t))}
  IN UNION {subtree(t) : t \in tops}

\* An id the archive already holds fails the insert and the transaction.
Archive(old) ==
  LET moved == archiveSelection(old)
  IN /\ moved # {}
     /\ moved \cap DOMAIN archived = {}
     /\ tasks' = recomputeComposite(Keep(tasks, moved))
     /\ archived' = [t \in DOMAIN archived \cup moved |->
                       IF t \in moved THEN tasks[t].parent ELSE archived[t]]
     /\ UNCHANGED deleted

\* Parent of every row, live or archived; an archived row hides a live one.
parentOf == [t \in DOMAIN tasks \cup DOMAIN archived |->
               IF t \in DOMAIN archived THEN archived[t] ELSE tasks[t].parent]

\* The rows under id: the least set with id in it and every row whose parent is
\* in it, which the rounds of the loop close.
doomed(id) ==
  LET up == parentOf
  IN {t \in DOMAIN up : \A X \in SUBSET DOMAIN up :
        (id \in X /\ \A r \in DOMAIN up : up[r] \in X => r \in X) => t \in X}

DeleteSubtree(id) ==
  LET gone == doomed(id)
      cut == cancelBlockedDependents(Keep(tasks, gone), gone)
      forget == [t \in DOMAIN cut |->
        LET dropped == [cut[t] EXCEPT !.hard = @ \ gone, !.soft = @ \ gone]
        IN IF cut[t].hard \cap gone # {} /\ ~terminal(cut[t].status)
           THEN [dropped EXCEPT !.status = "cancelled", !.claimedBy = None]
           ELSE dropped]
  IN /\ id \in DOMAIN parentOf
     /\ tasks' = recomputeComposite(forget)
     /\ deleted' = deleted \cup gone
     /\ archived' = Keep(archived, gone)
-----------------------------------------------------------------------------
(* The store under every caller.                                            *)

Callers == Agents \cup {Root}

\* A caller's specs over the ids D: a parent, hard and suggested dependencies.
Specs(D) ==
  {s \in [parent : D, hard : SUBSET D, soft : SUBSET D] :
     /\ s.hard \cap s.soft = {} /\ Cardinality(s.hard \cup s.soft) <= MaxEdges
     /\ s.hard # {} => "hard" \in EdgeKinds
     /\ s.soft # {} => "suggests" \in EdgeKinds}

Batches(B) == [B -> Specs(DOMAIN tasks \cup B)]

Admit ==
  \/ \E B \in SUBSET (Ids \ DOMAIN tasks) :
       IsFiniteSet(B) /\ Cardinality(B) <= MaxBatch /\ \E specs \in Batches(B) : AddMany(specs)
  \/ \E id \in Ids, parent \in DOMAIN tasks : AddReviewCheck(id, parent)
  \/ \E id, up \in DOMAIN tasks, kind \in EdgeKinds : AddDep(id, up, kind = "hard")
  \/ \E id \in DOMAIN tasks :
       \* an edge there is, and one there is not (a task has none to itself)
       \E up \in tasks[id].hard \cup tasks[id].soft \cup {id} : RemoveDep(id, up)

Take ==
  \/ \E id \in DOMAIN tasks, a \in Agents : Claim(id, a) \/ ClaimWake(id, a)
  \/ Claim(Root, Root)    \* launchWaits names every claim after its task
  \/ \E a \in Agents : ClaimNext(a)
  \/ \E id \in DOMAIN tasks, a \in Agents : Release(id, a)

Finish ==
  \/ \E id \in DOMAIN tasks, a \in Callers, res \in Results : Done(id, a, res)
  \/ \E id \in DOMAIN tasks, a \in Callers : Fail(id, a) \/ Wait(id, a)
  \/ \E id \in DOMAIN tasks : Wake(id) \/ Retry(id) \/ Cancel(id)
  \/ \E id \in Pausable, on \in BOOLEAN : hold(id, on)

EndRun ==
  \/ \E res \in Results : CompleteRoot(res)
  \/ StopRoot \/ EndRoot

TakeOut ==
  \/ \E old \in SUBSET (Removable \ Open(tasks)) : Archive(old)
  \/ \E id \in Removable : DeleteSubtree(id)

PlanNext == Admit \/ Take \/ Finish \/ EndRun \/ TakeOut
PlanSpec == PlanInit /\ [][PlanNext]_planVars

\* The same store when work is only ever taken with the `go' verb.
GoNext == \/ Admit \/ Finish \/ EndRun \/ TakeOut
          \/ \E a \in Agents : ClaimNext(a) \/ \E id \in DOMAIN tasks : Release(id, a)
GoSpec == PlanInit /\ [][GoNext]_planVars

-----------------------------------------------------------------------------
(* Properties.                                                              *)

\* Every committed plan is a map of tasks over the ids in use.
TypeOK ==
  /\ isPlan(tasks)
  /\ deleted \subseteq AllIds
  /\ DOMAIN archived \subseteq AllIds
  /\ archived \in [DOMAIN archived -> AllIds \cup {None}]

\* A plan once committed loads again: validateLoadedState, which loadState asks
\* before every later read and write, accepts it.
Loadable == validateLoadedState(tasks, deleted)

\* promote's law (store.go 2527): `ready' means the task's own hard
\* dependencies and every ancestor's are done, never that they once were.
ReadyMeansDepsDone ==
  \A t \in DOMAIN tasks : tasks[t].status = "ready" => depsDone(tasks, t)

\* refuseParked's law: no task is done and still waiting, and only the run's own
\* task is ever failed while parked.
ParkedNotFinished ==
  \A t \in DOMAIN tasks : tasks[t].waiting =>
     tasks[t].status # "done" /\ (t # Root => tasks[t].status # "failed")

\* An ending stands.  A task that ended keeps its ending unless it failed and is
\* retried, or it was done and a review check is seated under it
\* (AddReviewCheck), or it is the run's own task and its worker parks it: Wait
\* asks the root's worker nothing about the root's status.
EndingsStand ==
  [][\A t \in DOMAIN tasks \cap DOMAIN tasks' :
       terminal(tasks[t].status) =>
         \/ tasks'[t].status = tasks[t].status
         \/ tasks[t].status = "failed" /\ Retry(t)
         \/ /\ tasks[t].status = "done"
            /\ \E c \in DOMAIN tasks' \ DOMAIN tasks : t \in tasks'[c].above
         \/ t = Root /\ Wait(Root, Root)]_planVars

\* Nothing opens beneath a finished task: an open child of a done parent was
\* open there already, or is a failed child that Retry reopened.
NothingOpensUnderDone ==
  [][\A t \in DOMAIN tasks' \ {Root} :
       (~terminal(tasks'[t].status) /\ IsDone(tasks', tasks'[t].parent)) =>
          /\ t \in DOMAIN tasks
          /\ terminal(tasks[t].status) => Retry(t)]_planVars

\* A claim changes hands only through the frontier: a running task keeps its
\* claimant until it stops running.
ClaimNotStolen ==
  [][\A t \in DOMAIN tasks \cap DOMAIN tasks' :
       heldStatus(tasks[t].status) /\ heldStatus(tasks'[t].status)
          => tasks'[t].claimedBy = tasks[t].claimedBy]_planVars

\* A composite some worker holds is not the store's to close (promote, store.go
\* 2557): a held task turns done in the step its own claimant ends it or
\* gives it up, the run's own task in its worker's or the run's.
HeldClosesByItsWorker ==
  [][\A t \in DOMAIN tasks \cap DOMAIN tasks' :
       (heldStatus(tasks[t].status) /\ tasks'[t].status = "done") =>
          IF t = Root
          THEN \E res \in Results : Done(Root, Root, res) \/ CompleteRoot(res)
          ELSE \E a \in Agents : tasks[t].claimedBy = a /\
                 (Release(t, a) \/ \E res \in Results : Done(t, a, res))]_planVars

\* ClaimNext reads the running tasks and claims in one transaction: when `go' is
\* the only road to work, no two tasks that may not share the machine ever
\* run together, whatever else is written in between.
ConflictsKeptApart ==
  \A t, o \in DOMAIN tasks \ {Root} :
     (t # o /\ heldStatus(tasks[t].status) /\ heldStatus(tasks[o].status))
        => <<t, o>> \notin Conflict
=============================================================================
