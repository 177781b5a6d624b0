------------------------------ MODULE PlanLoops ------------------------------
(***************************************************************************)
(* The loops of store.go as the code runs them: task by task in the plan's  *)
(* order, climbing parents one at a time, until a pass changes nothing.     *)
(* They are the reference the closed forms of PlanStore are checked         *)
(* against; only TLC uses this module.                                      *)
(***************************************************************************)
EXTENDS MCPlanStore, SequencesExt

RECURSIVE climbDeps(_, _), climbPaused(_, _), promoteLoop(_, _), cancelUp(_, _, _),
          cancelDown(_, _, _), visit(_, _, _)

\* depsDone and pausedInLineage, one ancestor at a time.
climbDeps(T, t) ==
  t \notin DOMAIN T \/ /\ \A u \in T[t].hard : IsDone(T, u)
                       /\ climbDeps(T, T[t].parent)

climbPaused(T, t) == t \in DOMAIN T /\ (T[t].paused \/ climbPaused(T, T[t].parent))

withStatus(T, t, s) == [T EXCEPT ![t].status = s]

demoteOne(T, t) ==
  IF T[t].status = "ready" /\ ~climbDeps(T, t) THEN withStatus(T, t, "pending") ELSE T

readyOne(T, t) ==
  IF T[t].status = "pending" /\ climbDeps(T, t) THEN withStatus(T, t, "ready") ELSE T

closeOne(T, t) ==
  IF \/ t = Root \/ ~T[t].composite \/ T[t].waiting \/ terminal(T[t].status)
     \/ heldStatus(T[t].status) \/ ~allChildrenTerminal(T, t)
  THEN T
  ELSE withStatus(T, t, IF \E c \in Children(T, t) : T[c].status # "done" THEN "failed" ELSE "done")

promoteLoop(T, order) ==
  LET next == FoldLeft(closeOne, FoldLeft(readyOne, FoldLeft(demoteOne, T, order), order), order)
  IN IF next = T THEN T ELSE promoteLoop(next, order)

cancelOne(T, t) == cancelRows(T, {t})

\* cancelBlockedDependents: sweeps until nothing changes.
cancelUp(T, gone, order) ==
  LET sweep(S, t) ==
        IF /\ ~terminal(S[t].status) /\ t # Root
           /\ \E u \in S[t].hard : u = gone \/ (u \in DOMAIN S /\ S[u].status = "cancelled")
        THEN cancelOne(S, t) ELSE S
      next == FoldLeft(sweep, T, order)
  IN IF next = T THEN T ELSE cancelUp(next, gone, order)

\* cancelDescendants: `parents' are the tasks this cascade has reached so far, in
\* this round too.
cancelDown(T, parents, order) ==
  LET meet(acc, t) ==
        IF acc.plan[t].parent \in acc.parents /\ ~terminal(acc.plan[t].status)
        THEN [plan |-> cancelOne(acc.plan, t), parents |-> acc.parents \cup {t}] ELSE acc
      next == FoldLeft(meet, [plan |-> T, parents |-> parents], order)
  IN IF next.plan = T THEN T ELSE cancelDown(next.plan, next.parents, order)

\* detectCycle: depth-first from id with the path walked so far.
visit(T, id, visiting) ==
  id \in visiting \/ (id \in DOMAIN T /\ \E u \in T[id].hard : visit(T, u, visiting \cup {id}))

detectCycle(T) == \E id \in DOMAIN T : visit(T, id, {})

-----------------------------------------------------------------------------
\* The orders a plan may carry: the root first, then any order of admission.
Orders == {<<Root>> \o q : q \in SetToSeqs(DOMAIN tasks \ {Root})}

\* The plans an operation may hand to promote or to a cascade: the plan as it
\* stands with the status of one task rewritten.
Rewritten == {withStatus(tasks, t, s) : t \in DOMAIN tasks, s \in Status}

\* The closed forms of PlanStore are what the loops of store.go compute, in every
\* order a plan may carry: promote, the two cascades, and pausedInLineage; and
\* the graph law is what the depth-first search answers for every edge that
\* might be added.
ClosedFormsAreTheLoops ==
  Root \in DOMAIN tasks =>
    /\ \A T \in Rewritten :
         LET promoted == promote(T)
         IN \A order \in Orders : promoted = promoteLoop(T, order)
    /\ \A t \in DOMAIN tasks :
         LET down == cancelDescendants(tasks, t)
             up == cancelBlockedDependents(tasks, {t})
         IN \A order \in Orders :
              down = cancelDown(tasks, {t}, order) /\ up = cancelUp(tasks, t, order)
    /\ \A t, u \in DOMAIN tasks :
         LET T == [tasks EXCEPT ![t].hard = @ \cup {u}]
         IN hardCycles(T) # {} <=> detectCycle(T)
    /\ \A t \in DOMAIN tasks : pausedInLineage(tasks, t) <=> climbPaused(tasks, t)

\* Plans grow, work is taken with the go verb, finished, reviewed, parked, held and
\* cancelled: the callers of GoSpec but for rewiring and removal.
LoopNext ==
  \/ \E id \in Ids \ DOMAIN tasks : \E specs \in Batches({id}) : AddMany(specs)
  \/ \E a \in Agents : ClaimNext(a)
  \/ \E id \in DOMAIN tasks, a \in Agents : Done(id, a, TRUE) \/ Fail(id, a) \/ Wait(id, a)
  \/ \E id \in DOMAIN tasks : Cancel(id) \/ Wake(id) \/ Retry(id)
  \/ \E id \in Pausable : hold(id, TRUE)
  \/ \E id \in Ids, parent \in DOMAIN tasks : AddReviewCheck(id, parent)
LoopSpec == PlanInit /\ [][LoopNext]_planVars
=============================================================================
