--------------------------- MODULE PlanEndingsProofs ---------------------------
(* Theorems about endings: which steps end a task, which take an ending back, *)
(* and what a ready task may count on.                                        *)
EXTENDS PlanStoreProofs

\* From T to U no row changes its place in the tree, and no row but those of S
\* loses an ending, or is ended well while somebody works on it.
sameTree(row, new) == new.parent = row.parent /\ new.above = row.above
settledRow(row, new) ==
  /\ terminal(row.status) => new.status = row.status
  /\ heldStatus(row.status) => new.status \in {"running", "failed", "cancelled"}
Kept(T, U, S) ==
  \A t \in DOMAIN T \cap DOMAIN U :
     sameTree(T[t], U[t]) /\ (t \notin S => settledRow(T[t], U[t]))

Ready(T) == \A t \in DOMAIN T : T[t].status = "ready" => depsDone(T, t)

-----------------------------------------------------------------------------
(* The pieces operations are made of.                                       *)

\* Two steps that keep endings, one after the other, keep them.
LEMMA KeptThenKept ==
  ASSUME NEW T, NEW U, NEW V, NEW S, Kept(T, U, S), Kept(U, V, {}), DOMAIN V \subseteq DOMAIN U
  PROVE  Kept(T, V, S)
BY DEF Kept, sameTree, settledRow, terminal, heldStatus

\* What promote does to one row: it leaves the tree, the edges and the flags as
\* they are, closes what closes, and moves the rest between pending and ready.
LEMMA PromoteRow ==
  ASSUME NEW T, isPlan(T), NEW t \in DOMAIN T
  PROVE  /\ DOMAIN promote(T) = DOMAIN T
         /\ promote(T)[t].parent = T[t].parent /\ promote(T)[t].above = T[t].above
         /\ promote(T)[t].hard = T[t].hard /\ promote(T)[t].soft = T[t].soft
         /\ promote(T)[t].composite = T[t].composite /\ promote(T)[t].waiting = T[t].waiting
         /\ IF t \in Closing(T) THEN promote(T)[t].status \in {"done", "failed"}
            ELSE IF T[t].status \in {"pending", "ready"}
                 THEN promote(T)[t].status \in {"pending", "ready"}
                 ELSE promote(T)[t].status = T[t].status
<1> DEFINE C == closeComposites(T)
<1>1. /\ isPlan(C) /\ DOMAIN C = DOMAIN T
      /\ C[t].parent = T[t].parent /\ C[t].above = T[t].above
      /\ C[t].hard = T[t].hard /\ C[t].soft = T[t].soft
      /\ C[t].composite = T[t].composite /\ C[t].waiting = T[t].waiting
      /\ IF t \in Closing(T) THEN C[t].status \in {"done", "failed"} ELSE C[t].status = T[t].status
  <2>1. T[t] \in Task
    BY DEF isPlan
  <2>2. isPlan(C) /\ DOMAIN C = DOMAIN T
    BY DEF isPlan, closeComposites, Task, Status
  <2>3. C[t] = IF t \in Closing(T)
               THEN [T[t] EXCEPT !.status = IF EndsFailed(T, t) THEN "failed" ELSE "done"]
               ELSE T[t]
    BY DEF closeComposites
  <2> HIDE DEF C
  <2> QED BY <2>1, <2>2, <2>3 DEF Task
<1> HIDE DEF C
<1> DEFINE P == setReadiness(C)
<1>2. /\ DOMAIN P = DOMAIN C
      /\ P[t] = IF C[t].status \in {"pending", "ready"}
                THEN [C[t] EXCEPT !.status = IF depsDone(C, t) THEN "ready" ELSE "pending"]
                ELSE C[t]
  BY <1>1 DEF setReadiness
<1>3. C[t] \in Task
  BY <1>1 DEF isPlan
<1>4. promote(T) = P
  BY DEF promote, C
<1> HIDE DEF P
<1> QED BY <1>1, <1>2, <1>3, <1>4 DEF Task

\* promote closes and readies; it takes no ending back.
LEMMA PromoteKept ==
  ASSUME NEW T, isPlan(T) PROVE Kept(T, promote(T), {})
<1>1. ASSUME NEW t \in DOMAIN T PROVE sameTree(T[t], promote(T)[t]) /\ settledRow(T[t], promote(T)[t])
  <2>1. t \in Closing(T) => ~terminal(T[t].status) /\ ~heldStatus(T[t].status)
    BY DEF Closing, Closable
  <2> QED BY <2>1, PromoteRow DEF sameTree, settledRow, terminal, heldStatus
<1> QED BY <1>1 DEF Kept

\* cancelRows ends open rows and leaves the rest as it is.
LEMMA CancelRowsKept ==
  ASSUME NEW T, isPlan(T), NEW ids \in SUBSET Open(T)
  PROVE  Kept(T, cancelRows(T, ids), {})
<1>1. ASSUME NEW t \in DOMAIN T PROVE sameTree(T[t], cancelRows(T, ids)[t]) /\ settledRow(T[t], cancelRows(T, ids)[t])
  <2>1. T[t] \in Task
    BY DEF isPlan
  <2>2. cancelRows(T, ids)[t] = IF t \in ids
          THEN [T[t] EXCEPT !.status = "cancelled", !.claimedBy = None] ELSE T[t]
    BY DEF cancelRows
  <2>3. t \in ids => ~terminal(T[t].status)
    BY DEF Open
  <2> QED BY <2>1, <2>2, <2>3 DEF sameTree, settledRow, heldStatus, Task
<1> QED BY <1>1 DEF Kept

\* recomputeComposite leaves places and endings alone.
LEMMA RecomputeKept ==
  ASSUME NEW T, isPlan(T) PROVE Kept(T, recomputeComposite(T), {})
<1>1. ASSUME NEW t \in DOMAIN T 
      PROVE  sameTree(T[t], recomputeComposite(T)[t]) /\ settledRow(T[t], recomputeComposite(T)[t])
  BY <1>1 DEF isPlan, recomputeComposite, Task, sameTree, settledRow, heldStatus
<1> QED BY <1>1 DEF Kept

\* A delete leaves the rows it keeps as they are.
LEMMA KeepKept == ASSUME NEW T, NEW ids PROVE Kept(T, Keep(T, ids), {})
BY DEF Keep, Kept, sameTree, settledRow, heldStatus

\* One row changed, with or without promotion.
LEMMA ChangeKept ==
  ASSUME TypeOK, NEW id \in DOMAIN tasks, NEW row \in Task,
         changeTask(id, row) \/ changeTaskAndPromote(id, row), sameTree(tasks[id], row)
  PROVE  Kept(tasks, tasks', {id}) /\ (settledRow(tasks[id], row) => Kept(tasks, tasks', {}))
<1> DEFINE T == [tasks EXCEPT ![id] = row]
<1>1. isPlan(T) /\ DOMAIN T = DOMAIN tasks
  BY ExceptType DEF TypeOK
<1>2. \A t \in DOMAIN T : T[t] = IF t = id THEN row ELSE tasks[t]
  BY DEF TypeOK, isPlan
<1>3. tasks' = T \/ tasks' = promote(T)
  BY DEF changeTask, changeTaskAndPromote
<1> HIDE DEF T
<1>4. Kept(tasks, T, {id}) /\ (settledRow(tasks[id], row) => Kept(tasks, T, {}))
  BY <1>1, <1>2 DEF Kept, sameTree, settledRow, heldStatus
<1>5. Kept(T, promote(T), {}) /\ DOMAIN promote(T) = DOMAIN T
  BY <1>1, PromoteKept, PromoteType
<1> QED BY <1>3, <1>4, <1>5, KeptThenKept

\* Promotion leaves `ready' only what has its dependencies done.
LEMMA PromoteReady ==
  ASSUME NEW T, isPlan(T) PROVE Ready(promote(T))
<1> DEFINE C == closeComposites(T)
<1>1. isPlan(C)
  BY DEF isPlan, closeComposites, Task, Status
<1>2. promote(T) = setReadiness(C)
  BY DEF promote
<1> HIDE DEF C
<1> DEFINE P == setReadiness(C)
<1>3. /\ DOMAIN P = DOMAIN C
      /\ \A t \in DOMAIN C : P[t] = IF C[t].status \in {"pending", "ready"}
                THEN [C[t] EXCEPT !.status = IF depsDone(C, t) THEN "ready" ELSE "pending"]
                ELSE C[t]
  BY DEF setReadiness
<1>4. \A t \in DOMAIN C : C[t] \in Task
  BY <1>1 DEF isPlan
<1> HIDE DEF P
<1>5. ASSUME NEW t \in DOMAIN C
      PROVE  /\ P[t].above = C[t].above /\ P[t].hard = C[t].hard
             /\ P[t].status = "done" <=> C[t].status = "done"
             /\ P[t].status = "ready" => depsDone(C, t)
  BY <1>3, <1>4 DEF Task
<1>6. \A t \in DOMAIN C : depsDone(C, t) => depsDone(P, t)
  BY <1>3, <1>5 DEF depsDone, Lineage, IsDone
<1> QED BY <1>2, <1>3, <1>5, <1>6 DEF Ready, P

-----------------------------------------------------------------------------
(* What each operation keeps.                                               *)

\* A review check takes back the done endings above it, and no other.
seats(id, parent) ==
  /\ id \notin DOMAIN tasks /\ id \in DOMAIN tasks'
  /\ tasks'[id].above = Lineage(tasks, parent)
  /\ Kept(tasks, tasks', {t \in Lineage(tasks, parent) : IsDone(tasks, t)})

\* A batch admitted only marks rows composite, before promotion.
LEMMA AddManyKept ==
  ASSUME TypeOK, NEW B \in SUBSET (Ids \ DOMAIN tasks), NEW specs \in Batches(B), AddMany(specs)
  PROVE  /\ Ready(tasks') /\ Kept(tasks, tasks', {})
         /\ DOMAIN tasks' = DOMAIN tasks \cup B
         /\ \A b \in B : tasks'[b].parent = specs[b].parent
         /\ Root \in DOMAIN tasks =>
              /\ tasks'[Root].hard = tasks[Root].hard /\ tasks'[Root].soft = tasks[Root].soft
              /\ IsDone(tasks', Root) => IsDone(tasks, Root)
<1> USE ConstantsAssumption
<1>1. /\ DOMAIN specs = B
      /\ \A b \in B : specs[b].parent \in DOMAIN tasks \cup B
      /\ \A b \in B : specs[b].hard \in SUBSET AllIds /\ specs[b].soft \in SUBSET AllIds
  <2>1. DOMAIN tasks \cup B \subseteq AllIds
    BY DEF TypeOK, isPlan, AllIds
  <2> QED BY <2>1 DEF Batches, Specs
<1> DEFINE known == DOMAIN tasks \cup B
           base(t) == IF t \in B
                      THEN newRow(specs[t].parent, climb(specs, t), specs[t].hard, specs[t].soft)
                      ELSE tasks[t]
           row(t) == IF \E x \in B : specs[x].parent = t
                     THEN [base(t) EXCEPT !.composite = TRUE] ELSE base(t)
           admitted == [t \in known |-> row(t)]
<1>2. known \subseteq AllIds
  BY DEF TypeOK, isPlan, AllIds
<1>3. ASSUME NEW t \in known PROVE base(t) \in Task
  <2>1. CASE t \in B
    <3>1. climb(specs, t) \in SUBSET AllIds
      BY <1>1, <1>2, <2>1, ClimbType
    <3> QED BY <1>1, <1>2, <2>1, <3>1, NewRowType
  <2>2. CASE t \notin B
    BY <2>2 DEF TypeOK, isPlan
  <2> QED BY <2>1, <2>2
<1>4. \A t \in DOMAIN tasks : base(t) = tasks[t]
  OBVIOUS
<1> HIDE DEF base
<1>5. ASSUME NEW t \in known
      PROVE  row(t) \in Task /\ sameTree(base(t), row(t)) /\ row(t).status = base(t).status
  <2>1. base(t) \in Task
    BY <1>3
  <2> QED BY <2>1 DEF Task, sameTree
<1>6. tasks' = promote(admitted)
  BY <1>1 DEF AddMany, base
<1> HIDE DEF row
<1>7. isPlan(admitted)
  BY <1>2, <1>5 DEF isPlan
<1>8. Kept(tasks, admitted, {}) /\ DOMAIN admitted = known
  BY <1>4, <1>5 DEF Kept, sameTree, settledRow, heldStatus
<1>9. \A b \in B : admitted[b].parent = specs[b].parent
  BY <1>5 DEF sameTree, base, newRow
<1>10. Root \in DOMAIN tasks =>
        /\ admitted[Root].hard = tasks[Root].hard /\ admitted[Root].soft = tasks[Root].soft
        /\ admitted[Root].status = tasks[Root].status
  <2>1. ASSUME NEW t \in DOMAIN tasks
        PROVE  row(t).hard = tasks[t].hard /\ row(t).soft = tasks[t].soft
    BY <1>4 DEF row, TypeOK, isPlan, Task
  <2> QED BY <1>4, <1>5, <2>1
<1> HIDE DEF admitted
<1>11. Kept(tasks, tasks', {}) /\ Ready(tasks') /\ DOMAIN tasks' = known
  BY <1>6, <1>7, <1>8, PromoteReady, PromoteKept, PromoteType, KeptThenKept
<1>12. \A b \in B : tasks'[b].parent = specs[b].parent
  BY <1>6, <1>7, <1>8, <1>9, PromoteRow
<1>13. Root \in DOMAIN tasks =>
        /\ tasks'[Root].hard = tasks[Root].hard /\ tasks'[Root].soft = tasks[Root].soft
        /\ IsDone(tasks', Root) => IsDone(tasks, Root)
  <2>1. Root \notin Closing(admitted)
    BY DEF Closing, Closable
  <2> QED BY <1>6, <1>7, <1>8, <1>10, <2>1, PromoteRow DEF IsDone
<1> QED BY <1>11, <1>12, <1>13

\* AddMany, AddReviewCheck, AddDep and RemoveDep ready no task before its time,
\* and take an ending back only from the line a new task is seated under.
LEMMA AdmitKept ==
  ASSUME TypeOK, Admit
  PROVE  /\ Ready(tasks')
         /\ Kept(tasks, tasks', {}) \/ \E id, parent : seats(id, parent)
<1> USE ConstantsAssumption
<1>1. ASSUME NEW B \in SUBSET (Ids \ DOMAIN tasks), NEW specs \in Batches(B), AddMany(specs)
      PROVE  Ready(tasks') /\ Kept(tasks, tasks', {})
  BY <1>1, AddManyKept
<1>2. ASSUME NEW id \in Ids, NEW parent \in DOMAIN tasks, AddReviewCheck(id, parent)
      PROVE  Ready(tasks') /\ seats(id, parent)
  <2> DEFINE above == Lineage(tasks, parent)
             st(t) == IF tasks[t].status = "done" THEN "pending" ELSE tasks[t].status
             row(t) == IF t = id THEN newRow(parent, above, {}, {})
                       ELSE IF t \notin above THEN tasks[t]
                       ELSE [tasks[t] EXCEPT !.composite = TRUE,
                               !.status = IF @ = "done" THEN "pending" ELSE @]
             seated == [t \in DOMAIN tasks \cup {id} |-> row(t)]
             S == {t \in above : IsDone(tasks, t)}
  <2>1. above \in SUBSET AllIds
    BY DEF Lineage, TypeOK, isPlan, Task
  <2>2. row(id) \in Task /\ row(id).above = above
    <3>1. newRow(parent, above, {}, {}) \in Task
      BY <2>1, NewRowType DEF TypeOK, isPlan
    <3> QED BY <3>1 DEF newRow
  <2>3. ASSUME NEW t \in DOMAIN tasks, t # id
        PROVE  /\ row(t) \in Task /\ sameTree(tasks[t], row(t))
               /\ t \notin S => row(t).status = tasks[t].status
    <3>1. tasks[t] \in Task /\ st(t) \in Status
      BY DEF TypeOK, isPlan, Task, Status
    <3>2. \/ row(t) = tasks[t]
          \/ t \in above /\ row(t) = [[tasks[t] EXCEPT !.composite = TRUE] EXCEPT !.status = st(t)]
      BY <2>3, <3>1 DEF Task
    <3>3. [[tasks[t] EXCEPT !.composite = TRUE] EXCEPT !.status = st(t)] \in Task
      BY <3>1, RowFlags, RowStatus
    <3> HIDE DEF row
    <3> QED BY <3>1, <3>2, <3>3 DEF Task, sameTree, IsDone
  <2>4. tasks' = promote(seated) /\ id \notin DOMAIN tasks
    BY <1>2 DEF AddReviewCheck
  <2> HIDE DEF row
  <2>5. isPlan(seated)
    BY <2>2, <2>3 DEF isPlan, TypeOK, AllIds
  <2>6. Kept(tasks, seated, S)
    BY <2>3, <2>4 DEF Kept, settledRow, heldStatus
  <2>7. id \in DOMAIN seated /\ seated[id].above = above
    BY <2>2
  <2> HIDE DEF seated
  <2>8. Kept(tasks, tasks', S) /\ DOMAIN tasks' = DOMAIN seated
    BY <2>4, <2>5, <2>6, PromoteKept, PromoteType, KeptThenKept
  <2>9. tasks'[id].above = above
    BY <2>4, <2>5, <2>7, PromoteRow
  <2> QED BY <2>4, <2>5, <2>7, <2>8, <2>9, PromoteReady DEF seats
<1>3. ASSUME NEW id \in DOMAIN tasks, NEW h \in SUBSET AllIds, NEW f \in SUBSET AllIds,
             changeTaskAndPromote(id, [tasks[id] EXCEPT !.hard = h, !.soft = f])
      PROVE  Ready(tasks') /\ Kept(tasks, tasks', {})
  <2> DEFINE row == [tasks[id] EXCEPT !.hard = h, !.soft = f]
  <2>1. tasks[id] \in Task
    BY DEF TypeOK, isPlan
  <2>2. row \in Task /\ sameTree(tasks[id], row) /\ row.status = tasks[id].status
    BY <2>1 DEF Task, sameTree
  <2>3. settledRow(tasks[id], row)
    BY <2>2 DEF settledRow, heldStatus
  <2> HIDE DEF row
  <2>4. isPlan([tasks EXCEPT ![id] = row])
    BY <2>2, ExceptType DEF TypeOK
  <2>5. Ready(tasks')
    BY <1>3, <2>4, PromoteReady DEF changeTaskAndPromote, row
  <2> QED BY <1>3, <2>2, <2>3, <2>5, ChangeKept DEF row
<1>4. ASSUME NEW id \in DOMAIN tasks, NEW up \in DOMAIN tasks, NEW hd \in BOOLEAN,
             AddDep(id, up, hd)
      PROVE  Ready(tasks') /\ Kept(tasks, tasks', {})
  <2> DEFINE h == IF hd THEN tasks[id].hard \cup {up} ELSE tasks[id].hard
             f == IF hd THEN tasks[id].soft ELSE tasks[id].soft \cup {up}
  <2>1. tasks[id] \in Task /\ up \in AllIds
    BY DEF TypeOK, isPlan
  <2>2. h \in SUBSET AllIds /\ f \in SUBSET AllIds
    BY <2>1 DEF Task
  <2>3. [tasks[id] EXCEPT !.hard = IF hd THEN @ \cup {up} ELSE @,
                          !.soft = IF hd THEN @ ELSE @ \cup {up}]
          = [tasks[id] EXCEPT !.hard = h, !.soft = f]
    BY <2>1 DEF Task
  <2>4. changeTaskAndPromote(id, [tasks[id] EXCEPT !.hard = h, !.soft = f])
    BY <1>4, <2>3 DEF AddDep
  <2> HIDE DEF h, f
  <2> QED BY <1>3, <2>2, <2>4
<1>5. ASSUME NEW id \in DOMAIN tasks, NEW up, RemoveDep(id, up)
      PROVE  Ready(tasks') /\ Kept(tasks, tasks', {})
  <2> DEFINE h == tasks[id].hard \ {up}
             f == tasks[id].soft \ {up}
  <2>1. tasks[id] \in Task
    BY DEF TypeOK, isPlan
  <2>2. h \in SUBSET AllIds /\ f \in SUBSET AllIds
    BY <2>1 DEF Task
  <2>3. [tasks[id] EXCEPT !.hard = @ \ {up}, !.soft = @ \ {up}]
          = [tasks[id] EXCEPT !.hard = h, !.soft = f]
    BY <2>1 DEF Task
  <2>4. changeTaskAndPromote(id, [tasks[id] EXCEPT !.hard = h, !.soft = f])
    BY <1>5, <2>3 DEF RemoveDep
  <2> HIDE DEF h, f
  <2> QED BY <1>3, <2>2, <2>4
<1> QED BY <1>1, <1>2, <1>4, <1>5 DEF Admit

\* The one-task writes, and whose ending each of them may touch.
touches(id) ==
  \/ \E a \in Callers, res \in Results :
        /\ Done(id, a, res)
        /\ terminal(tasks[id].status) => tasks'[id].status = tasks[id].status
  \/ \E a \in Agents : Release(id, a)
  \/ \E a \in Callers : Wait(id, a) /\ tasks'[id].status # "done"
  \/ Retry(id)
  \/ id = Root /\ \E res \in Results : CompleteRoot(res)

\* A step takes no ending back and closes no task under its worker, but those
\* of a seated check's line or of the one task it writes.
endingsKept ==
  \/ Kept(tasks, tasks', {})
  \/ \E id, parent : seats(id, parent)
  \/ \E id \in DOMAIN tasks : Kept(tasks, tasks', {id}) /\ touches(id)

keepStep == endingsKept /\ (Ready(tasks) => Ready(tasks'))

\* A row changed and not promoted keeps readiness true when it turns neither
\* ready nor from done, and keeps its edges and its line.
LEMMA ChangeReady ==
  ASSUME TypeOK, NEW id \in DOMAIN tasks, NEW row \in Task,
         \/ changeTaskAndPromote(id, row)
         \/ /\ changeTask(id, row) /\ sameTree(tasks[id], row)
            /\ row.hard = tasks[id].hard
            /\ row.status = "ready" => tasks[id].status = "ready"
            /\ tasks[id].status = "done" => row.status = "done"
  PROVE  Ready(tasks) => Ready(tasks')
<1>1. CASE changeTaskAndPromote(id, row)
  BY <1>1, ExceptType, PromoteReady DEF changeTaskAndPromote, TypeOK
<1>2. CASE changeTask(id, row) /\ ~changeTaskAndPromote(id, row)
  <2>1. /\ DOMAIN tasks' = DOMAIN tasks
        /\ \A t \in DOMAIN tasks : tasks'[t] = IF t = id THEN row ELSE tasks[t]
    BY <1>2 DEF changeTask, TypeOK, isPlan
  <2>2. \A t \in DOMAIN tasks : Lineage(tasks', t) = Lineage(tasks, t)
    BY <1>2, <2>1 DEF Lineage, sameTree
  <2>3. \A t : IsDone(tasks, t) => IsDone(tasks', t)
    BY <1>2, <2>1 DEF IsDone
  <2>4. \A t \in DOMAIN tasks : depsDone(tasks, t) => depsDone(tasks', t)
    BY <1>2, <2>1, <2>2, <2>3 DEF depsDone
  <2> QED BY <1>2, <2>1, <2>4 DEF Ready
<1> QED BY <1>1, <1>2

\* A claim touches its own row.
LEMMA TakeKept ==
  ASSUME TypeOK, NEW id \in DOMAIN tasks, NEW n \in Names, claims(id, n)
  PROVE  keepStep
<1>1. tasks[id] \in Task
  BY DEF TypeOK, isPlan
<1> DEFINE row == claimedRow(tasks[id], n)
<1>2. /\ row \in Task /\ sameTree(tasks[id], row) /\ row.hard = tasks[id].hard
      /\ row.status = "running"
  BY <1>1, ClaimedRow DEF sameTree
<1>3. changeTask(id, row) /\ tasks[id].status = "ready"
  BY DEF claims
<1> HIDE DEF row
<1>4. settledRow(tasks[id], row)
  BY <1>3 DEF settledRow, terminal, heldStatus
<1> QED BY <1>2, <1>3, <1>4, ChangeKept, ChangeReady DEF keepStep, endingsKept

\* What a worker or the run writes of one task: release, retry, done, fail,
\* wait, wake.
LEMMA FinishKept ==
  ASSUME TypeOK, NEW id \in DOMAIN tasks
  PROVE  /\ \A n \in Agents : Release(id, n) => keepStep
         /\ Retry(id) => keepStep
         /\ \A n \in Callers, b \in Results : Done(id, n, b) => keepStep
         /\ \A n \in Callers : Fail(id, n) => keepStep
         /\ \A n \in Callers : Wait(id, n) => keepStep
         /\ Wake(id) => keepStep
         /\ \A b \in BOOLEAN : hold(id, b) => keepStep
<1> USE ConstantsAssumption
<1> DEFINE old == tasks[id]
<1>1. /\ old \in Task /\ {"pending", "done", "failed"} \subseteq Status
      /\ \A n \in Callers : n \in Names
  BY DEF TypeOK, isPlan, Status, Callers, Names
<1>2. ASSUME NEW row \in Task, changeTaskAndPromote(id, row), sameTree(old, row)
      PROVE  /\ Kept(tasks, tasks', {id}) /\ (Ready(tasks) => Ready(tasks'))
             /\ settledRow(old, row) => keepStep
             /\ row.status = "done" => tasks'[id].status = "done"
             /\ row.waiting /\ row.status = "pending" => tasks'[id].status # "done"
  <2> DEFINE T == [tasks EXCEPT ![id] = row]
  <2>1. isPlan(T) /\ id \in DOMAIN T /\ T[id] = row
    BY ExceptType DEF TypeOK, isPlan
  <2>2. tasks' = promote(T)
    BY <1>2 DEF changeTaskAndPromote
  <2> HIDE DEF T
  <2>3. row.status = "done" \/ row.waiting => id \notin Closing(T)
    BY <2>1 DEF Closing, Closable, terminal
  <2>4. /\ row.status = "done" => tasks'[id].status = "done"
        /\ row.waiting /\ row.status = "pending" => tasks'[id].status # "done"
    BY <2>1, <2>2, <2>3, PromoteRow
  <2>5. /\ Kept(tasks, tasks', {id})
        /\ settledRow(old, row) => Kept(tasks, tasks', {})
    BY <1>2, ChangeKept
  <2>6. Ready(tasks) => Ready(tasks')
    BY <1>2, ChangeReady
  <2> QED BY <2>4, <2>5, <2>6 DEF keepStep, endingsKept
<1>3. ASSUME NEW row \in Task, changeTask(id, row), sameTree(old, row),
             row.hard = old.hard, row.status = old.status
      PROVE  keepStep
  <2>1. settledRow(old, row)
    BY <1>3 DEF settledRow, heldStatus
  <2> QED BY <1>3, <2>1, ChangeKept, ChangeReady DEF keepStep, endingsKept
<1>4. ASSUME Retry(id) \/ \E n \in Agents : Release(id, n) PROVE keepStep
  <2> DEFINE row == [unclaimed(old) EXCEPT !.status = "pending"]
  <2>1. row \in Task /\ sameTree(old, row)
    BY <1>1, UnclaimedType DEF unclaimed, Task, sameTree
  <2>2. changeTaskAndPromote(id, row)
    BY <1>4 DEF Release, Retry
  <2> HIDE DEF row
  <2> QED BY <1>2, <1>4, <2>1, <2>2 DEF keepStep, endingsKept, touches
<1>5. ASSUME NEW n \in Callers, NEW b \in Results, Done(id, n, b) PROVE keepStep
  <2> DEFINE row == [old EXCEPT !.status = "done", !.result = b, !.claimedBy = n]
  <2>1. row \in Task
    BY <1>1, RowsOfOperations
  <2>2. row.status = "done" /\ sameTree(old, row)
    BY <1>1 DEF Task, sameTree
  <2>3. changeTaskAndPromote(id, row) /\ (terminal(old.status) => old.status = "done")
    BY <1>5 DEF Done, mayFinish, placeholder
  <2> HIDE DEF row
  <2> QED BY <1>2, <1>5, <2>1, <2>2, <2>3 DEF keepStep, endingsKept, touches
<1>6. ASSUME NEW n \in Callers, Fail(id, n) PROVE keepStep
  <2> DEFINE row == [old EXCEPT !.status = "failed"]
  <2>1. row \in Task
    BY <1>1, RowStatus
  <2>2. row.status = "failed" /\ sameTree(old, row)
    BY <1>1 DEF Task, sameTree
  <2>3. changeTaskAndPromote(id, row) /\ ~terminal(old.status)
    BY <1>6 DEF Fail, mayFail
  <2> HIDE DEF row
  <2>4. settledRow(old, row)
    BY <2>2, <2>3 DEF settledRow
  <2> QED BY <1>2, <2>1, <2>2, <2>3, <2>4
<1>7. ASSUME NEW n \in Callers, Wait(id, n) PROVE keepStep
  <2> DEFINE row == [unclaimed(old) EXCEPT !.waiting = TRUE, !.status = "pending"]
  <2>1. row \in Task
    BY <1>1, UnclaimedType
  <2>2. row.status = "pending" /\ row.waiting /\ sameTree(old, row)
    BY <1>1 DEF unclaimed, Task, sameTree
  <2>3. changeTaskAndPromote(id, row)
    BY <1>7 DEF Wait
  <2> HIDE DEF row
  <2> QED BY <1>2, <1>7, <2>1, <2>2, <2>3 DEF keepStep, endingsKept, touches
<1>8. ASSUME Wake(id) PROVE keepStep
  <2> DEFINE row == [old EXCEPT !.waiting = FALSE]
  <2>1. row \in Task
    BY <1>1, RowFlags
  <2>2. row.status = old.status /\ sameTree(old, row) /\ row.hard = old.hard
    BY <1>1 DEF Task, sameTree
  <2>3. changeTask(id, row)
    BY <1>8 DEF Wake
  <2> HIDE DEF row
  <2> QED BY <1>3, <2>1, <2>2, <2>3
<1>9. ASSUME NEW b \in BOOLEAN, hold(id, b) PROVE keepStep
  <2> DEFINE row == [old EXCEPT !.paused = b]
  <2>1. row \in Task
    BY <1>1, RowFlags
  <2>2. row.status = old.status /\ sameTree(old, row) /\ row.hard = old.hard
    BY <1>1 DEF Task, sameTree
  <2>3. changeTask(id, row)
    BY <1>9 DEF hold
  <2> HIDE DEF row
  <2> QED BY <1>3, <2>1, <2>2, <2>3
<1> QED BY <1>4, <1>5, <1>6, <1>7, <1>8, <1>9

\* A cancel ends what is open below a task and what waits for it, and no more.
LEMMA CancelKept ==
  ASSUME TypeOK, NEW id \in DOMAIN tasks, Cancel(id) PROVE keepStep
<1> DEFINE row == [unclaimed(tasks[id]) EXCEPT !.status = "cancelled"]
           cut == [tasks EXCEPT ![id] = row]
           below == cancelDescendants(cut, id)
           swept == cancelBlockedDependents(below, {id})
<1>1. row \in Task /\ row.status = "cancelled" /\ sameTree(tasks[id], row)
  <2>1. tasks[id] \in Task /\ "cancelled" \in Status
    BY DEF TypeOK, isPlan, Status
  <2> QED BY <2>1, UnclaimedType DEF unclaimed, Task, sameTree
<1>2. tasks' = promote(swept) /\ ~terminal(tasks[id].status)
  BY DEF Cancel
<1> HIDE DEF row
<1>3. isPlan(cut) /\ DOMAIN cut = DOMAIN tasks
  BY <1>1, ExceptType DEF TypeOK
<1>4. \A t \in DOMAIN cut : cut[t] = IF t = id THEN row ELSE tasks[t]
  BY DEF TypeOK, isPlan
<1> HIDE DEF cut
<1>5. Kept(tasks, cut, {})
  BY <1>1, <1>2, <1>3, <1>4 DEF Kept, sameTree, settledRow, heldStatus
<1>6. isPlan(below) /\ Kept(cut, below, {}) /\ DOMAIN below = DOMAIN cut
  BY <1>3, CancelRowsType, CancelRowsKept DEF cancelDescendants, OpenBelow
<1> HIDE DEF below
<1>7. isPlan(swept) /\ Kept(below, swept, {}) /\ DOMAIN swept = DOMAIN below
  BY <1>6, CancelRowsType, CancelRowsKept DEF cancelBlockedDependents, Blocked
<1> HIDE DEF swept
<1>8. Kept(tasks, below, {})
  BY <1>5, <1>6, KeptThenKept
<1>9. Kept(tasks, swept, {})
  BY <1>7, <1>8, KeptThenKept
<1>10. Kept(tasks, promote(swept), {}) /\ Ready(promote(swept))
  BY <1>7, <1>9, PromoteKept, PromoteType, PromoteReady, KeptThenKept
<1> QED BY <1>2, <1>10 DEF keepStep, endingsKept

\* The end of a run cancels what is open and settles the root.
LEMMA EndRunKept == ASSUME TypeOK, EndRun PROVE keepStep
<1> USE ConstantsAssumption
<1>1. ASSUME NEW res \in Results, CompleteRoot(res) PROVE keepStep
  <2> DEFINE s == IF \A t \in DOMAIN tasks \ {Root} : tasks[t].status = "done"
                  THEN "done" ELSE "failed"
             row == [tasks[Root] EXCEPT !.result = res, !.status = s]
  <2>1. /\ Root \in DOMAIN tasks /\ tasks[Root] \in Task /\ s \in {"done", "failed"}
        /\ ~terminal(tasks[Root].status)
    BY <1>1 DEF CompleteRoot, Open, TypeOK, isPlan
  <2>2. changeTask(Root, row)
    BY <1>1 DEF CompleteRoot
  <2> HIDE DEF s
  <2>3. row \in Task
    BY <2>1, RowFlags, RowStatus DEF Status
  <2>4. row.status = s /\ sameTree(tasks[Root], row) /\ row.hard = tasks[Root].hard
    BY <2>1 DEF Task, sameTree
  <2> HIDE DEF row
  <2>5. Kept(tasks, tasks', {Root})
    BY <2>1, <2>2, <2>3, <2>4, ChangeKept
  <2>6. Ready(tasks) => Ready(tasks')
    BY <2>1, <2>2, <2>3, <2>4, ChangeReady DEF terminal
  <2> QED BY <1>1, <2>1, <2>5, <2>6 DEF keepStep, endingsKept, touches
<1>2. ASSUME NEW rs \in {"failed", "cancelled"}, closeRoot(rs) PROVE keepStep
  <2> DEFINE st(t) == IF t = Root THEN rs ELSE "cancelled"
             row(t) == IF terminal(tasks[t].status) THEN tasks[t]
                       ELSE [unclaimed(tasks[t]) EXCEPT !.status = st(t)]
             cut == [t \in DOMAIN tasks |-> row(t)]
  <2>1. ASSUME NEW t \in DOMAIN tasks
        PROVE  /\ row(t) \in Task /\ sameTree(tasks[t], row(t))
               /\ settledRow(tasks[t], row(t))
    <3>1. tasks[t] \in Task
      BY DEF TypeOK, isPlan
    <3>2. st(t) \in {"failed", "cancelled"} /\ st(t) \in Status
      BY DEF Status
    <3> HIDE DEF st
    <3>3. CASE terminal(tasks[t].status)
      BY <3>1, <3>3 DEF sameTree, settledRow, terminal, heldStatus
    <3>4. CASE ~terminal(tasks[t].status)
      BY <3>1, <3>2, <3>4, UnclaimedType DEF unclaimed, Task, sameTree, settledRow
    <3> QED BY <3>3, <3>4
  <2>2. tasks' = promote(cut)
    BY <1>2 DEF closeRoot
  <2> HIDE DEF row
  <2>3. isPlan(cut)
    BY <2>1 DEF isPlan, TypeOK
  <2>4. Kept(tasks, cut, {}) /\ DOMAIN cut = DOMAIN tasks
    BY <2>1 DEF Kept
  <2> HIDE DEF cut
  <2>5. Kept(tasks, promote(cut), {}) /\ Ready(promote(cut))
    BY <2>3, <2>4, PromoteKept, PromoteType, PromoteReady, KeptThenKept
  <2> QED BY <2>2, <2>5 DEF keepStep, endingsKept
<1> QED BY <1>1, <1>2 DEF EndRun, StopRoot, EndRoot

\* Readiness survives a change of map in which no row turns ready or gains an
\* edge, and what a row still depends on stays done.
LEMMA StillReady ==
  ASSUME NEW T, NEW U, DOMAIN U \subseteq DOMAIN T, Ready(T),
         \A t \in DOMAIN U :
            /\ U[t].above = T[t].above
            /\ U[t].status = "ready" => T[t].status = "ready"
            /\ \A u \in U[t].hard : u \in T[t].hard /\ (IsDone(T, u) => IsDone(U, u))
  PROVE  Ready(U)
BY DEF Ready, depsDone, Lineage

\* Archive and DeleteSubtree change no place and no ending of what they keep.
LEMMA TakeOutKept == ASSUME TypeOK, TakeOut PROVE keepStep
<1> USE ConstantsAssumption
<1>1. ASSUME NEW T, isPlan(T), Kept(tasks, T, {}), DOMAIN T \subseteq DOMAIN tasks,
             Ready(tasks) => Ready(T), tasks' = recomputeComposite(T)
      PROVE  keepStep
  <2> DEFINE U == recomputeComposite(T)
  <2>1. DOMAIN U = DOMAIN T /\ Kept(tasks, U, {})
    BY <1>1, RecomputeType, RecomputeKept, KeptThenKept
  <2>2. \A t \in DOMAIN T : /\ U[t].above = T[t].above /\ U[t].hard = T[t].hard
                            /\ U[t].status = T[t].status
    BY <1>1 DEF isPlan, Task, recomputeComposite
  <2>3. tasks' = U
    BY <1>1
  <2> HIDE DEF U
  <2>4. Ready(T) => Ready(U)
    BY <2>1, <2>2, StillReady DEF IsDone
  <2> QED BY <1>1, <2>1, <2>3, <2>4 DEF keepStep, endingsKept
<1>2. ASSUME NEW old, Archive(old) PROVE keepStep
  <2> DEFINE moved == archiveSelection(old)
             T == Keep(tasks, moved)
  <2>1. tasks' = recomputeComposite(T)
    BY <1>2 DEF Archive
  <2>2. \A d \in DOMAIN tasks \ moved : tasks[d].hard \cap moved = {}
    BY DEF archiveSelection
  <2> HIDE DEF moved
  <2>3. /\ isPlan(T) /\ DOMAIN T = DOMAIN tasks \ moved /\ Kept(tasks, T, {})
        /\ \A t \in DOMAIN T : T[t] = tasks[t]
    BY KeepType, KeepKept DEF TypeOK, Keep
  <2> HIDE DEF T
  <2>4. Ready(tasks) => Ready(T)
    BY <2>2, <2>3, StillReady DEF IsDone
  <2> QED BY <1>1, <2>1, <2>3, <2>4
<1>3. ASSUME NEW id, DeleteSubtree(id) PROVE keepStep
  <2> DEFINE gone == doomed(id)
             kept == Keep(tasks, gone)
             cut == cancelBlockedDependents(kept, gone)
             dropped(t) == [cut[t] EXCEPT !.hard = @ \ gone, !.soft = @ \ gone]
             row(t) == IF cut[t].hard \cap gone # {} /\ ~terminal(cut[t].status)
                       THEN [dropped(t) EXCEPT !.status = "cancelled", !.claimedBy = None]
                       ELSE dropped(t)
             forget == [t \in DOMAIN cut |-> row(t)]
  <2>1. tasks' = recomputeComposite(forget)
    BY <1>3 DEF DeleteSubtree
  <2> HIDE DEF gone
  <2>2. /\ isPlan(kept) /\ DOMAIN kept = DOMAIN tasks \ gone /\ Kept(tasks, kept, {})
        /\ \A t \in DOMAIN kept : kept[t] = tasks[t]
    BY KeepType, KeepKept DEF TypeOK, Keep
  <2> HIDE DEF kept
  <2>3. isPlan(cut) /\ DOMAIN cut = DOMAIN kept /\ Kept(kept, cut, {})
    BY <2>2, CancelRowsType, CancelRowsKept DEF cancelBlockedDependents, Blocked
  <2>4. \A t \in DOMAIN kept :
          /\ cut[t].hard = kept[t].hard
          /\ cut[t].status = "ready" => kept[t].status = "ready"
    BY <2>2 DEF cancelBlockedDependents, cancelRows, isPlan, Task
  <2> HIDE DEF cut
  <2>5. ASSUME NEW t \in DOMAIN cut
        PROVE  /\ row(t) \in Task /\ sameTree(cut[t], row(t)) /\ row(t).hard = cut[t].hard \ gone
               /\ row(t).status = cut[t].status
                    \/ (row(t).status = "cancelled" /\ ~terminal(cut[t].status))
    <3>1. cut[t] \in Task
      BY <2>3 DEF isPlan
    <3>2. /\ dropped(t) \in Task /\ sameTree(cut[t], dropped(t))
          /\ dropped(t).hard = cut[t].hard \ gone /\ dropped(t).status = cut[t].status
      <4>1. cut[t].hard \ gone \in SUBSET AllIds /\ cut[t].soft \ gone \in SUBSET AllIds
        BY <3>1 DEF Task
      <4>2. dropped(t) = [cut[t] EXCEPT !.hard = cut[t].hard \ gone, !.soft = cut[t].soft \ gone]
        BY <3>1 DEF Task
      <4> QED BY <3>1, <4>1, <4>2 DEF Task, sameTree
    <3> HIDE DEF dropped
    <3> QED BY <3>2 DEF Task, Status, Names, sameTree
  <2> HIDE DEF row
  <2>6. isPlan(forget)
    BY <2>3, <2>5 DEF isPlan
  <2>7. Kept(cut, forget, {}) /\ DOMAIN forget = DOMAIN cut
    BY <2>5 DEF Kept, settledRow, heldStatus
  <2>8. Kept(tasks, cut, {})
    BY <2>2, <2>3, KeptThenKept
  <2>9. Kept(tasks, forget, {})
    BY <2>7, <2>8, KeptThenKept
  <2>10. ASSUME Ready(tasks) PROVE Ready(forget)
    <3>1. ASSUME NEW t \in DOMAIN forget
          PROVE  /\ forget[t].above = tasks[t].above
                 /\ forget[t].status = "ready" => tasks[t].status = "ready"
                 /\ forget[t].hard = tasks[t].hard \ gone
                 /\ tasks[t].status = "done" => forget[t].status = "done"
      <4>1. t \in DOMAIN tasks \ gone /\ t \in DOMAIN cut
        BY <2>2, <2>3
      <4> QED BY <2>2, <2>3, <2>4, <2>5, <4>1 DEF Kept, sameTree, settledRow, terminal
    <3> QED BY <2>2, <2>3, <2>10, <3>1, StillReady DEF IsDone
  <2> HIDE DEF forget
  <2> QED BY <1>1, <2>1, <2>2, <2>3, <2>6, <2>7, <2>9, <2>10
<1> QED BY <1>2, <1>3 DEF TakeOut

\* Every step of the plan.
LEMMA StepKept == ASSUME TypeOK, [PlanNext]_planVars PROVE keepStep
<1> USE ConstantsAssumption
<1>1. CASE UNCHANGED planVars
  BY <1>1 DEF planVars, keepStep, endingsKept, Kept, sameTree, settledRow, heldStatus
<1>2. CASE Admit
  BY <1>2, AdmitKept DEF keepStep, endingsKept
<1>3. CASE Take
  <2>1. ASSUME NEW id \in DOMAIN tasks, NEW a \in Names, Claim(id, a) \/ ClaimWake(id, a)
        PROVE  keepStep
    BY <2>1, TakeKept DEF Claim, ClaimWake, claims
  <2>2. ASSUME NEW a \in Names, ClaimNext(a) PROVE keepStep
    BY <2>1, <2>2, ClaimNextIsClaim
  <2>3. CASE Claim(Root, Root)
    BY <2>1, <2>3 DEF Claim, Names
  <2>4. Agents \subseteq Names
    BY DEF Names
  <2> QED BY <1>3, <2>1, <2>2, <2>3, <2>4, FinishKept DEF Take
<1>4. CASE Finish
  <2>1. ASSUME NEW id \in Pausable, NEW on \in BOOLEAN, hold(id, on) PROVE keepStep
    <3>1. id \in DOMAIN tasks
      BY <2>1 DEF hold
    <3> QED BY <2>1, <3>1, FinishKept
  <2> QED BY <1>4, <2>1, FinishKept, CancelKept DEF Finish
<1> QED BY <1>1, <1>2, <1>3, <1>4, EndRunKept, TakeOutKept DEF PlanNext

-----------------------------------------------------------------------------
(* The theorems.                                                            *)

\* promote's law, for every plan: whatever is written, a row is `ready' only
\* while its own hard dependencies and its ancestors' are all done.  The writes
\* that end in promote prove it afresh; a claim, a wake and a hold change nothing
\* it reads; archiving leaves what somebody depends on, and deleting cancels the
\* dependents of what it takes.
THEOREM ReadyIsNeverStale == PlanSpec => []ReadyMeansDepsDone
<1>1. PlanInit => ReadyMeansDepsDone
  <2>1. rootRow.status = "running"
    BY DEF rootRow, newRow
  <2> QED BY <2>1 DEF PlanInit, ReadyMeansDepsDone
<1>2. TypeOK /\ ReadyMeansDepsDone /\ [PlanNext]_planVars => ReadyMeansDepsDone'
  BY StepKept DEF keepStep, Ready, ReadyMeansDepsDone
<1> QED BY <1>1, <1>2, TypeCorrect, PTL DEF PlanSpec

\* What EndingsStand lets a step do to t.
mayReopen(t) ==
  \/ tasks'[t].status = tasks[t].status
  \/ tasks[t].status = "failed" /\ Retry(t)
  \/ /\ tasks[t].status = "done"
     /\ \E c \in DOMAIN tasks' \ DOMAIN tasks : t \in tasks'[c].above
  \/ t = Root /\ Wait(Root, Root)

\* A step of the store does no more than that.
LEMMA EndingsStep ==
  ASSUME TypeOK, [PlanNext]_planVars,
         NEW t \in DOMAIN tasks \cap DOMAIN tasks', terminal(tasks[t].status)
  PROVE  mayReopen(t)
<1>1. CASE Kept(tasks, tasks', {})
  BY <1>1 DEF Kept, settledRow, mayReopen
<1>2. ASSUME NEW id, NEW parent, seats(id, parent) PROVE mayReopen(t)
  BY <1>2 DEF seats, Kept, settledRow, IsDone, mayReopen
<1>3. ASSUME NEW id \in DOMAIN tasks, Kept(tasks, tasks', {id}), touches(id) PROVE mayReopen(t)
  <2>1. CASE t # id
    BY <1>3, <2>1 DEF Kept, settledRow, mayReopen
  <2>2. CASE t = id
    <3>1. ASSUME NEW a, Wait(id, a) PROVE mayReopen(t)
      BY <2>2, <3>1 DEF Wait, rootWorker, terminal, heldStatus, mayReopen
    <3>2. ASSUME NEW a, Release(id, a) PROVE FALSE
      BY <2>2, <3>2 DEF Release, terminal, heldStatus
    <3>3. ASSUME NEW res, id = Root, CompleteRoot(res) PROVE FALSE
      BY <2>2, <3>3 DEF CompleteRoot, Open
    <3>4. ASSUME Retry(id) PROVE mayReopen(t)
      BY <2>2, <3>4 DEF Retry, mayReopen
    <3> QED BY <1>3, <2>2, <3>1, <3>2, <3>3, <3>4 DEF touches, mayReopen
  <2> QED BY <2>1, <2>2
<1> QED BY <1>1, <1>2, <1>3, StepKept DEF keepStep, endingsKept

\* A task that ended keeps its ending but for a retry, a review check seated
\* beneath it and the root's worker parking it, whoever writes and in whatever
\* order: no cascade, promotion, completion, stop or removal takes one back.
THEOREM EndingsAreKept == PlanSpec => EndingsStand
<1> DEFINE stand == \A t \in DOMAIN tasks \cap DOMAIN tasks' :
                      terminal(tasks[t].status) =>
                        \/ tasks'[t].status = tasks[t].status
                        \/ tasks[t].status = "failed" /\ Retry(t)
                        \/ /\ tasks[t].status = "done"
                           /\ \E c \in DOMAIN tasks' \ DOMAIN tasks : t \in tasks'[c].above
                        \/ t = Root /\ Wait(Root, Root)
<1>1. TypeOK /\ [PlanNext]_planVars => [stand]_planVars
  BY EndingsStep DEF mayReopen
<1> HIDE DEF stand
<1>2. PlanSpec => [][stand]_planVars
  BY <1>1, TypeCorrect, PTL DEF PlanSpec
<1> QED BY <1>2 DEF EndingsStand, stand

\* What HeldClosesByItsWorker asks of the step that ends t well.
itsWorkers(t) ==
  IF t = Root
  THEN \E res \in Results : Done(Root, Root, res) \/ CompleteRoot(res)
  ELSE \E a \in Agents : tasks[t].claimedBy = a /\
         (Release(t, a) \/ \E res \in Results : Done(t, a, res))

\* A task somebody works on turns done in a step of that worker's, and the run's
\* own in its worker's or the run's.  It rests on HeldByAgents: the name a Done
\* or a Release must give is an agent's, which only a claim has put there.
THEOREM WorkersCloseTheirOwn == PlanSpec => HeldClosesByItsWorker
<1> USE ConstantsAssumption
<1>1. ASSUME TypeOK, HeldByAgents, [PlanNext]_planVars,
             NEW t \in DOMAIN tasks \cap DOMAIN tasks',
             heldStatus(tasks[t].status), tasks'[t].status = "done"
      PROVE  itsWorkers(t)
  <2>1. ~settledRow(tasks[t], tasks'[t])
    BY <1>1 DEF settledRow
  <2>2. PICK id \in DOMAIN tasks : Kept(tasks, tasks', {id}) /\ touches(id)
    <3>1. ASSUME NEW id, NEW parent, seats(id, parent) PROVE FALSE
      BY <1>1, <2>1, <3>1 DEF seats, Kept, IsDone, heldStatus
    <3> QED BY <1>1, <2>1, <3>1, StepKept DEF keepStep, endingsKept, Kept
  <2>3. t = id
    BY <2>1, <2>2 DEF Kept
  <2>4. t # Root => tasks[t].claimedBy \in Agents
    BY <1>1 DEF HeldByAgents
  <2>5. ASSUME NEW a \in Callers, NEW res \in Results, Done(t, a, res) PROVE itsWorkers(t)
    <3>1. tasks[t].status = "running"
      BY <1>1 DEF heldStatus
    <3>2. t = Root => a = Root
      BY <2>5 DEF Done, mayFinish, rootWorker
    <3>3. t # Root => a = tasks[t].claimedBy
      BY <2>5, <3>1 DEF Done, mayFinish, rootWorker, requireOwner, placeholder
    <3> QED BY <2>4, <2>5, <3>2, <3>3 DEF itsWorkers
  <2>6. ASSUME NEW a \in Agents, Release(t, a) PROVE itsWorkers(t)
    BY <2>6 DEF Release, requireOwner, itsWorkers
  <2>7. ~Retry(t)
    BY <1>1 DEF Retry, heldStatus
  <2> QED BY <1>1, <2>2, <2>3, <2>5, <2>6, <2>7 DEF touches, itsWorkers
<1> DEFINE closes == \A t \in DOMAIN tasks \cap DOMAIN tasks' :
       (heldStatus(tasks[t].status) /\ tasks'[t].status = "done") =>
          IF t = Root
          THEN \E res \in Results : Done(Root, Root, res) \/ CompleteRoot(res)
          ELSE \E a \in Agents : tasks[t].claimedBy = a /\
                 (Release(t, a) \/ \E res \in Results : Done(t, a, res))
<1>2. TypeOK /\ HeldByAgents /\ [PlanNext]_planVars => [closes]_planVars
  BY <1>1 DEF itsWorkers
<1> HIDE DEF closes
<1>3. PlanSpec => [][closes]_planVars
  BY <1>2, AgentsHold, TypeCorrect, PTL DEF PlanSpec
<1> QED BY <1>3 DEF HeldClosesByItsWorker, closes
=============================================================================
