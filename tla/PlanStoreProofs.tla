--------------------------- MODULE PlanStoreProofs ---------------------------
(* Theorems about the plan store, for every set of ids, agents and bounds.  *)
EXTENDS PlanStore, TLAPS

\* Rows stay rows when one field is given a value of its type.
LEMMA RowStatus ==
  ASSUME NEW row \in Task, NEW s \in Status PROVE [row EXCEPT !.status = s] \in Task
BY DEF Task

\* A claimed row is a row.
LEMMA RowClaim ==
  ASSUME NEW row \in Task, NEW n \in Names PROVE [row EXCEPT !.claimedBy = n] \in Task
BY DEF Task

\* promote writes a plan over the same ids.
LEMMA PromoteType ==
  ASSUME NEW T, isPlan(T)
  PROVE  isPlan(promote(T)) /\ DOMAIN promote(T) = DOMAIN T
<1> DEFINE C == closeComposites(T)
<1>1. isPlan(C) /\ DOMAIN C = DOMAIN T
  BY DEF isPlan, closeComposites, Task, Status
<1> HIDE DEF C
<1>2. isPlan(setReadiness(C)) /\ DOMAIN setReadiness(C) = DOMAIN C
  BY <1>1 DEF isPlan, setReadiness, Task, Status
<1> QED BY <1>1, <1>2 DEF promote, C

\* A cascade writes a plan over the same ids.
LEMMA CancelRowsType ==
  ASSUME NEW T, isPlan(T), NEW ids
  PROVE  isPlan(cancelRows(T, ids)) /\ DOMAIN cancelRows(T, ids) = DOMAIN T
<1>1. ASSUME NEW t \in DOMAIN T
      PROVE  [T[t] EXCEPT !.status = "cancelled", !.claimedBy = None] \in Task
  BY <1>1, RowStatus, RowClaim DEF isPlan, Status, Names
<1> QED BY <1>1 DEF isPlan, cancelRows

\* Changing one row to a row.
LEMMA ExceptType ==
  ASSUME NEW T, isPlan(T), NEW id \in DOMAIN T, NEW row \in Task
  PROVE  isPlan([T EXCEPT ![id] = row]) /\ DOMAIN [T EXCEPT ![id] = row] = DOMAIN T
BY DEF isPlan

\* Rows an operation builds from a row are rows.
LEMMA RowFlags ==
  ASSUME NEW row \in Task, NEW b \in BOOLEAN
  PROVE  /\ [row EXCEPT !.composite = b] \in Task
         /\ [row EXCEPT !.waiting = b] \in Task
         /\ [row EXCEPT !.paused = b] \in Task
         /\ [row EXCEPT !.result = b] \in Task
BY DEF Task

\* A row with other edges is a row.
LEMMA RowEdges ==
  ASSUME NEW row \in Task, NEW h \in SUBSET AllIds, NEW f \in SUBSET AllIds
  PROVE  /\ [row EXCEPT !.hard = h] \in Task
         /\ [row EXCEPT !.hard = h, !.soft = f] \in Task
BY DEF Task

\* A new row is a row.
LEMMA NewRowType ==
  ASSUME NEW p \in AllIds \cup {None}, NEW above \in SUBSET AllIds,
         NEW h \in SUBSET AllIds, NEW f \in SUBSET AllIds
  PROVE  newRow(p, above, h, f) \in Task
BY DEF newRow, Task, Status, Names

\* A row without its claim is a row.
LEMMA UnclaimedType ==
  ASSUME NEW row \in Task, NEW s \in Status
  PROVE  /\ unclaimed(row) \in Task
         /\ [unclaimed(row) EXCEPT !.status = s] \in Task
         /\ [unclaimed(row) EXCEPT !.waiting = TRUE, !.status = s] \in Task
BY DEF unclaimed, Task, Names

\* recomputeComposite and Keep write plans.
LEMMA RecomputeType ==
  ASSUME NEW T, isPlan(T)
  PROVE  isPlan(recomputeComposite(T)) /\ DOMAIN recomputeComposite(T) = DOMAIN T
BY RowFlags DEF isPlan, recomputeComposite

\* What is left of a plan is a plan.
LEMMA KeepType ==
  ASSUME NEW T, isPlan(T), NEW ids
  PROVE  isPlan(Keep(T, ids)) /\ DOMAIN Keep(T, ids) = DOMAIN T \ ids
BY DEF isPlan, Keep

-----------------------------------------------------------------------------
(* Type correctness, one lemma per group of operations.                     *)

\* A row written over one task, with or without promotion, leaves a plan.
LEMMA ChangeType ==
  ASSUME TypeOK, NEW id \in DOMAIN tasks, NEW row \in Task, restUnchanged,
         changeTask(id, row) \/ changeTaskAndPromote(id, row)
  PROVE  TypeOK'
<1> DEFINE T == [tasks EXCEPT ![id] = row]
<1>1. isPlan(T)
  BY ExceptType DEF TypeOK
<1>2. isPlan(promote(T))
  BY <1>1, PromoteType
<1>3. tasks' = T \/ tasks' = promote(T)
  BY DEF changeTask, changeTaskAndPromote
<1>4. isPlan(tasks)'
  BY <1>1, <1>2, <1>3 DEF isPlan
<1> QED BY <1>4 DEF TypeOK, restUnchanged

\* What climbing the parents of a new task meets are ids.
LEMMA ClimbType ==
  ASSUME TypeOK, NEW specs, NEW s \in DOMAIN specs,
         DOMAIN specs \subseteq AllIds,
         \A x \in DOMAIN specs : specs[x].parent \in DOMAIN tasks \cup DOMAIN specs
  PROVE  climb(specs, s) \in SUBSET AllIds
BY DEF climb, Lineage, TypeOK, isPlan, Task

\* Admission writes a plan.
LEMMA AdmitType == ASSUME TypeOK, Admit PROVE TypeOK'
<1> USE ConstantsAssumption
<1>1. ASSUME NEW B \in SUBSET (Ids \ DOMAIN tasks), NEW specs \in Batches(B), AddMany(specs)
      PROVE  TypeOK'
  <2>1. /\ DOMAIN specs = B
        /\ \A b \in B : specs[b].parent \in DOMAIN tasks \cup B
        /\ \A b \in B : specs[b].hard \in SUBSET AllIds /\ specs[b].soft \in SUBSET AllIds
    <3>1. DOMAIN tasks \cup B \subseteq AllIds
      BY <1>1 DEF TypeOK, isPlan, AllIds
    <3> QED BY <1>1, <3>1 DEF Batches, Specs
  <2> DEFINE known == DOMAIN tasks \cup B
             base(t) == IF t \in B
                        THEN newRow(specs[t].parent, climb(specs, t), specs[t].hard, specs[t].soft)
                        ELSE tasks[t]
             admitted == [t \in known |->
                IF \E x \in B : specs[x].parent = t
                THEN [base(t) EXCEPT !.composite = TRUE] ELSE base(t)]
  <2>2. known \subseteq AllIds
    BY <1>1 DEF TypeOK, isPlan, AllIds
  <2>3. ASSUME NEW t \in known PROVE base(t) \in Task
    <3>1. CASE t \in B
      <4>1. climb(specs, t) \in SUBSET AllIds
        BY <2>1, <2>2, <3>1, ClimbType
      <4> QED BY <2>1, <2>2, <3>1, <4>1, NewRowType
    <3>2. CASE t \notin B
      BY <3>2 DEF TypeOK, isPlan
    <3> QED BY <3>1, <3>2
  <2>4. isPlan(admitted)
    <3> HIDE DEF base
    <3> QED BY <2>2, <2>3, RowFlags DEF isPlan
  <2>5. tasks' = promote(admitted) /\ restUnchanged
    BY <1>1, <2>1 DEF AddMany
  <2> QED BY <2>4, <2>5, PromoteType DEF TypeOK, restUnchanged
<1>2. ASSUME NEW id \in Ids, NEW parent \in DOMAIN tasks, AddReviewCheck(id, parent)
      PROVE  TypeOK'
  <2> DEFINE above == Lineage(tasks, parent)
             row(t) == IF t = id THEN newRow(parent, above, {}, {})
                       ELSE IF t \notin above THEN tasks[t]
                       ELSE [tasks[t] EXCEPT !.composite = TRUE,
                               !.status = IF @ = "done" THEN "pending" ELSE @]
             seated == [t \in DOMAIN tasks \cup {id} |-> row(t)]
  <2>1. above \in SUBSET AllIds
    BY DEF Lineage, TypeOK, isPlan, Task
  <2>2. ASSUME NEW t \in DOMAIN tasks \cup {id} PROVE row(t) \in Task
    <3>1. CASE t = id
      BY <3>1, <2>1, NewRowType DEF TypeOK, isPlan
    <3>2. CASE t # id
      <4> DEFINE st == IF tasks[t].status = "done" THEN "pending" ELSE tasks[t].status
      <4>1. tasks[t] \in Task
        BY <3>2 DEF TypeOK, isPlan
      <4>2. st \in Status
        BY <4>1 DEF Task, Status
      <4>3. [[tasks[t] EXCEPT !.composite = TRUE] EXCEPT !.status = st] \in Task
        BY <4>1, <4>2, RowFlags, RowStatus
      <4>4. [tasks[t] EXCEPT !.composite = TRUE, !.status = IF @ = "done" THEN "pending" ELSE @]
              = [[tasks[t] EXCEPT !.composite = TRUE] EXCEPT !.status = st]
        BY <4>1 DEF Task
      <4> QED BY <3>2, <4>1, <4>3, <4>4
    <3> QED BY <3>1, <3>2
  <2>3. isPlan(seated)
    <3> HIDE DEF row
    <3> QED BY <2>2 DEF isPlan, TypeOK, AllIds
  <2>4. tasks' = promote(seated) /\ restUnchanged
    BY <1>2 DEF AddReviewCheck
  <2> QED BY <2>3, <2>4, PromoteType DEF TypeOK, restUnchanged
<1>3. ASSUME NEW id \in DOMAIN tasks, NEW up \in DOMAIN tasks, NEW hd \in BOOLEAN,
             AddDep(id, up, hd)
      PROVE  TypeOK'
  <2> DEFINE row == [tasks[id] EXCEPT !.hard = IF hd THEN @ \cup {up} ELSE @,
                                      !.soft = IF hd THEN @ ELSE @ \cup {up}]
             h == IF hd THEN tasks[id].hard \cup {up} ELSE tasks[id].hard
             f == IF hd THEN tasks[id].soft ELSE tasks[id].soft \cup {up}
  <2>1. row \in Task
    <3>1. tasks[id] \in Task /\ up \in AllIds
      BY DEF TypeOK, isPlan
    <3>2. h \in SUBSET AllIds /\ f \in SUBSET AllIds
      BY <3>1 DEF Task
    <3>3. row = [tasks[id] EXCEPT !.hard = h, !.soft = f]
      BY <3>1 DEF Task
    <3> QED BY <3>1, <3>2, <3>3, RowEdges
  <2>2. changeTaskAndPromote(id, row) /\ restUnchanged
    BY <1>3 DEF AddDep
  <2> HIDE DEF row
  <2> QED BY <2>1, <2>2, ChangeType
<1>4. ASSUME NEW id \in DOMAIN tasks, NEW up, RemoveDep(id, up)
      PROVE  TypeOK'
  <2> DEFINE row == [tasks[id] EXCEPT !.hard = @ \ {up}, !.soft = @ \ {up}]
             h == tasks[id].hard \ {up}
             f == tasks[id].soft \ {up}
  <2>1. row \in Task
    <3>1. tasks[id] \in Task
      BY DEF TypeOK, isPlan
    <3>2. h \in SUBSET AllIds /\ f \in SUBSET AllIds
      BY <3>1 DEF Task
    <3>3. row = [tasks[id] EXCEPT !.hard = h, !.soft = f]
      BY <3>1 DEF Task
    <3> QED BY <3>1, <3>2, <3>3, RowEdges
  <2>2. changeTaskAndPromote(id, row) /\ restUnchanged
    BY <1>4 DEF RemoveDep
  <2> HIDE DEF row
  <2> QED BY <2>1, <2>2, ChangeType
<1> QED BY <1>1, <1>2, <1>3, <1>4 DEF Admit

\* A claim writes who works on a task and that it is worked on, nothing else.
LEMMA ClaimedRow ==
  ASSUME NEW row \in Task, NEW n \in Names
  PROVE  LET new == claimedRow(row, n)
         IN /\ new \in Task /\ new.status = "running" /\ new.claimedBy = n
            /\ new.parent = row.parent /\ new.above = row.above /\ new.composite = row.composite
            /\ new.hard = row.hard /\ new.soft = row.soft /\ new.waiting = row.waiting
<1> "running" \in Status
  BY DEF Status
<1> QED BY DEF claimedRow, Task

\* The rows endings and the other one-task writes put in the plan.
LEMMA RowsOfOperations ==
  ASSUME NEW row \in Task, NEW n \in Names, NEW s \in Status, NEW b \in BOOLEAN
  PROVE  /\ [row EXCEPT !.status = s, !.result = b, !.claimedBy = n] \in Task
         /\ [row EXCEPT !.result = b, !.status = s] \in Task
BY DEF Task, Status

\* A claim, a claim on a wake and a release write a plan.
LEMMA TakeType ==
  ASSUME TypeOK, NEW id \in DOMAIN tasks, NEW n \in Names,
         Claim(id, n) \/ ClaimWake(id, n) \/ Release(id, n)
  PROVE  TypeOK'
<1>1. tasks[id] \in Task /\ "pending" \in Status
  BY DEF TypeOK, isPlan, Status
<1>2. claimedRow(tasks[id], n) \in Task
  BY <1>1, ClaimedRow
<1>3. [unclaimed(tasks[id]) EXCEPT !.status = "pending"] \in Task
  BY <1>1, UnclaimedType
<1>4. CASE Claim(id, n) \/ ClaimWake(id, n)
  BY <1>2, <1>4, ChangeType DEF Claim, ClaimWake
<1>5. CASE Release(id, n)
  BY <1>3, <1>5, ChangeType DEF Release
<1> QED BY <1>4, <1>5

\* The `go' verb makes the same write as Claim.
LEMMA ClaimNextIsClaim ==
  ASSUME NEW n, ClaimNext(n) PROVE \E id \in DOMAIN tasks : Claim(id, n)
BY DEF ClaimNext, Claim

\* The endings of a task, and a hold, write a plan.
LEMMA FinishType ==
  ASSUME TypeOK, NEW id \in DOMAIN tasks, NEW n \in Names, NEW b \in BOOLEAN,
         \/ Done(id, n, b) \/ Fail(id, n) \/ Wait(id, n) \/ Wake(id)
         \/ Retry(id) \/ hold(id, b)
  PROVE  TypeOK'
<1>1. tasks[id] \in Task /\ {"pending", "done", "failed"} \subseteq Status
  BY DEF TypeOK, isPlan, Status
<1>2. CASE Done(id, n, b)
  <2>1. [tasks[id] EXCEPT !.status = "done", !.result = b, !.claimedBy = n] \in Task
    BY <1>1, RowsOfOperations
  <2> QED BY <1>2, <2>1, ChangeType DEF Done
<1>3. CASE Fail(id, n)
  <2>1. [tasks[id] EXCEPT !.status = "failed"] \in Task
    BY <1>1, RowStatus
  <2> QED BY <1>3, <2>1, ChangeType DEF Fail
<1>4. CASE Wait(id, n)
  <2>1. [unclaimed(tasks[id]) EXCEPT !.waiting = TRUE, !.status = "pending"] \in Task
    BY <1>1, UnclaimedType
  <2> QED BY <1>4, <2>1, ChangeType DEF Wait
<1>5. CASE Wake(id)
  <2>1. [tasks[id] EXCEPT !.waiting = FALSE] \in Task
    BY <1>1, RowFlags
  <2> QED BY <1>5, <2>1, ChangeType DEF Wake
<1>6. CASE Retry(id)
  <2>1. [unclaimed(tasks[id]) EXCEPT !.status = "pending"] \in Task
    BY <1>1, UnclaimedType
  <2> QED BY <1>6, <2>1, ChangeType DEF Retry
<1>7. CASE hold(id, b)
  <2>1. [tasks[id] EXCEPT !.paused = b] \in Task
    BY <1>1, RowFlags
  <2> QED BY <1>7, <2>1, ChangeType DEF hold
<1> QED BY <1>2, <1>3, <1>4, <1>5, <1>6, <1>7

\* A cancel writes a plan.
LEMMA CancelType ==
  ASSUME TypeOK, NEW id \in DOMAIN tasks, Cancel(id) PROVE TypeOK'
<1> DEFINE cut == [tasks EXCEPT ![id] = [unclaimed(@) EXCEPT !.status = "cancelled"]]
           row == [unclaimed(tasks[id]) EXCEPT !.status = "cancelled"]
           below == cancelDescendants(cut, id)
           swept == cancelBlockedDependents(below, {id})
<1>1. isPlan(cut)
  <2>1. row \in Task
    BY UnclaimedType DEF TypeOK, isPlan, Status
  <2> HIDE DEF row
  <2>2. isPlan([tasks EXCEPT ![id] = row])
    BY <2>1, ExceptType DEF TypeOK
  <2> QED BY <2>2 DEF row
<1>2. tasks' = promote(swept) /\ restUnchanged
  BY DEF Cancel
<1> HIDE DEF cut
<1>3. isPlan(below)
  BY <1>1, CancelRowsType DEF cancelDescendants
<1> HIDE DEF below
<1>4. isPlan(swept)
  BY <1>3, CancelRowsType DEF cancelBlockedDependents
<1> HIDE DEF swept
<1>5. isPlan(promote(swept))
  BY <1>4, PromoteType
<1> QED BY <1>2, <1>5 DEF TypeOK, restUnchanged

\* The end of a run writes a plan.
LEMMA EndRunType == ASSUME TypeOK, EndRun PROVE TypeOK'
<1> USE ConstantsAssumption
<1>1. ASSUME NEW res \in BOOLEAN, CompleteRoot(res) PROVE TypeOK'
  <2> DEFINE s == IF \A t \in DOMAIN tasks \ {Root} : tasks[t].status = "done"
                  THEN "done" ELSE "failed"
  <2>1. Root \in DOMAIN tasks /\ tasks[Root] \in Task /\ s \in Status
    BY <1>1 DEF CompleteRoot, Open, TypeOK, isPlan, Status
  <2>2. [tasks[Root] EXCEPT !.result = res, !.status = s] \in Task
    BY <2>1, RowFlags, RowStatus
  <2>3. changeTask(Root, [tasks[Root] EXCEPT !.result = res, !.status = s]) /\ restUnchanged
    BY <1>1 DEF CompleteRoot
  <2> HIDE DEF s
  <2> QED BY <2>1, <2>2, <2>3, ChangeType
<1>2. ASSUME NEW rs \in Status, closeRoot(rs) PROVE TypeOK'
  <2> DEFINE row(t) == IF terminal(tasks[t].status) THEN tasks[t]
                ELSE [unclaimed(tasks[t]) EXCEPT !.status = IF t = Root THEN rs ELSE "cancelled"]
             cut == [t \in DOMAIN tasks |-> row(t)]
  <2>1. ASSUME NEW t \in DOMAIN tasks PROVE row(t) \in Task
    <3>1. tasks[t] \in Task
      BY DEF TypeOK, isPlan
    <3>2. (IF t = Root THEN rs ELSE "cancelled") \in Status
      BY DEF Status
    <3> QED BY <3>1, <3>2, UnclaimedType
  <2>2. tasks' = promote(cut) /\ restUnchanged
    BY <1>2 DEF closeRoot
  <2>3. isPlan(cut)
    <3> HIDE DEF row
    <3> QED BY <2>1 DEF isPlan, TypeOK
  <2> HIDE DEF cut
  <2> QED BY <2>2, <2>3, PromoteType DEF TypeOK, restUnchanged
<1> QED BY <1>1, <1>2 DEF EndRun, StopRoot, EndRoot, Status

\* Archive and DeleteSubtree write a plan.
LEMMA TakeOutType == ASSUME TypeOK, TakeOut PROVE TypeOK'
<1>1. ASSUME NEW old, Archive(old) PROVE TypeOK'
  <2> DEFINE moved == archiveSelection(old)
  <2>1. moved \subseteq DOMAIN tasks
    BY DEF archiveSelection
  <2>2. isPlan(Keep(tasks, moved))
    BY KeepType DEF TypeOK
  <2>3. isPlan(tasks')
    BY <1>1, <2>2, RecomputeType DEF Archive
  <2> HIDE DEF moved
  <2>4. \A t \in moved : tasks[t].parent \in AllIds \cup {None}
    BY <2>1 DEF TypeOK, isPlan, Task
  <2>5. archived' = [t \in DOMAIN archived \cup moved |->
                       IF t \in moved THEN tasks[t].parent ELSE archived[t]]
        /\ deleted' = deleted
    BY <1>1 DEF Archive, moved
  <2>6. DOMAIN archived' \subseteq AllIds
    BY <2>1, <2>5 DEF TypeOK, isPlan
  <2>7. archived' \in [DOMAIN archived' -> AllIds \cup {None}]
    BY <2>4, <2>5 DEF TypeOK
  <2> QED BY <2>3, <2>5, <2>6, <2>7 DEF TypeOK
<1>2. ASSUME NEW id, DeleteSubtree(id) PROVE TypeOK'
  <2> DEFINE gone == doomed(id)
             cut == cancelBlockedDependents(Keep(tasks, gone), gone)
             dropped(t) == [cut[t] EXCEPT !.hard = @ \ gone, !.soft = @ \ gone]
             row(t) == IF cut[t].hard \cap gone # {} /\ ~terminal(cut[t].status)
                       THEN [dropped(t) EXCEPT !.status = "cancelled", !.claimedBy = None]
                       ELSE dropped(t)
             forget == [t \in DOMAIN cut |-> row(t)]
  <2>1. isPlan(cut)
    <3>1. isPlan(Keep(tasks, gone))
      BY KeepType DEF TypeOK
    <3> QED BY <3>1, CancelRowsType DEF cancelBlockedDependents
  <2>2. gone \subseteq AllIds
    BY DEF doomed, parentOf, TypeOK, isPlan
  <2>3. /\ tasks' = recomputeComposite(forget)
        /\ deleted' = deleted \cup gone /\ archived' = Keep(archived, gone)
    BY <1>2 DEF DeleteSubtree
  <2> HIDE DEF gone, cut
  <2>4. ASSUME NEW t \in DOMAIN cut PROVE row(t) \in Task
    <3>1. cut[t] \in Task
      BY <2>1 DEF isPlan
    <3>2. dropped(t) \in Task
      <4>1. cut[t].hard \ gone \in SUBSET AllIds /\ cut[t].soft \ gone \in SUBSET AllIds
        BY <3>1 DEF Task
      <4>2. dropped(t) = [cut[t] EXCEPT !.hard = cut[t].hard \ gone, !.soft = cut[t].soft \ gone]
        BY <3>1 DEF Task
      <4> QED BY <3>1, <4>1, <4>2, RowEdges
    <3> HIDE DEF dropped
    <3> QED BY <3>2, RowStatus, RowClaim DEF Status, Names
  <2>5. isPlan(forget)
    <3> HIDE DEF row
    <3> QED BY <2>1, <2>4 DEF isPlan
  <2> HIDE DEF forget
  <2>6. isPlan(tasks')
    BY <2>3, <2>5, RecomputeType
  <2> QED BY <2>2, <2>3, <2>6 DEF TypeOK, Keep
<1> QED BY <1>1, <1>2 DEF TakeOut

\* The plan a run starts from is well formed.
LEMMA TypeStart == PlanInit => TypeOK
<1> USE ConstantsAssumption
<1>1. newRow(None, {}, {}, {}) \in Task
  BY NewRowType
<1>2. rootRow \in Task
  BY <1>1, RowStatus, RowClaim DEF rootRow, Status, Names
<1> QED BY <1>2 DEF PlanInit, TypeOK, isPlan, AllIds

\* Every operation keeps it so.
LEMMA TypeStep == ASSUME TypeOK, [PlanNext]_planVars PROVE TypeOK'
<1> USE ConstantsAssumption
<1>1. \A n \in Callers : n \in Names
  BY DEF Callers, Names
<1>2. CASE Admit
  BY <1>2, AdmitType
<1>3. CASE Take
  <2>1. CASE Claim(Root, Root)
    <3>1. Root \in DOMAIN tasks /\ Root \in Names
      BY <2>1 DEF Claim, Names
    <3> QED BY <2>1, <3>1, TakeType
  <2> QED BY <1>1, <1>3, <2>1, TakeType, ClaimNextIsClaim DEF Take, Callers
<1>4. CASE Finish
  <2>1. ASSUME NEW id \in Pausable, NEW on \in BOOLEAN, hold(id, on) PROVE TypeOK'
    <3>1. id \in DOMAIN tasks /\ None \in Names
      BY <2>1 DEF hold, Names
    <3> QED BY <2>1, <3>1, FinishType
  <2>2. Results \subseteq BOOLEAN /\ None \in Names
    BY DEF Names
  <2> QED BY <1>1, <1>4, <2>1, <2>2, FinishType, CancelType DEF Finish
<1>5. CASE EndRun
  BY <1>5, EndRunType
<1>6. CASE TakeOut
  BY <1>6, TakeOutType
<1>7. CASE UNCHANGED planVars
  BY <1>7 DEF planVars, TypeOK, isPlan
<1> QED BY <1>2, <1>3, <1>4, <1>5, <1>6, <1>7 DEF PlanNext

\* Every plan the store commits is well formed, whoever calls it and in
\* whatever order: no operation writes a row or an id outside the store's types.
THEOREM TypeCorrect == PlanSpec => []TypeOK
<1>1. TypeOK /\ [PlanNext]_planVars => TypeOK'
  BY TypeStep
<1> QED BY <1>1, TypeStart, PTL DEF PlanSpec

-----------------------------------------------------------------------------
(* Safety.  Two relations carry the proofs: a write is Calm when no row      *)
(* starts running in it and no running row changes hands, and Parked is the  *)
(* law of parked rows over any map of tasks.  Every write but a claim is     *)
(* calm.                                                                     *)

parkedRow(t, row) ==
  row.waiting => row.status # "done" /\ (t # Root => row.status # "failed")
Parked(T) == \A t \in DOMAIN T : parkedRow(t, T[t])

calmRow(row, new) ==
  heldStatus(new.status) => heldStatus(row.status) /\ new.claimedBy = row.claimedBy
Calm(T, U) ==
  \A t \in DOMAIN U : heldStatus(U[t].status) => t \in DOMAIN T /\ calmRow(T[t], U[t])

-----------------------------------------------------------------------------
(* The pieces operations are made of.                                       *)

\* Two calm changes, one after the other, are calm.
LEMMA CalmThenCalm ==
  ASSUME NEW T, NEW U, NEW V, Calm(T, U), Calm(U, V) PROVE Calm(T, V)
BY DEF Calm, calmRow

\* Closing composites is calm and finishes no parked task.
LEMMA CloseCalm ==
  ASSUME NEW T, isPlan(T)
  PROVE  Calm(T, closeComposites(T)) /\ (Parked(T) => Parked(closeComposites(T)))
<1> DEFINE C == closeComposites(T)
<1>1. ASSUME NEW t \in DOMAIN T
      PROVE  calmRow(T[t], C[t]) /\ (parkedRow(t, T[t]) => parkedRow(t, C[t]))
  <2>1. T[t] \in Task
    BY DEF isPlan
  <2>2. CASE t \in Closing(T)
    <3>1. ~T[t].waiting
      BY <2>2 DEF Closing, Closable
    <3>2. C[t].waiting = T[t].waiting /\ C[t].status \in {"failed", "done"}
      BY <2>1, <2>2 DEF closeComposites, Task
    <3> QED BY <3>1, <3>2 DEF calmRow, parkedRow, heldStatus
  <2>3. CASE t \notin Closing(T)
    <3>1. C[t] = T[t]
      BY <2>3 DEF closeComposites
    <3> QED BY <3>1 DEF calmRow
  <2> QED BY <2>2, <2>3
<1>2. DOMAIN C = DOMAIN T
  BY DEF closeComposites
<1> QED BY <1>1, <1>2 DEF Calm, Parked

\* Setting readiness is calm and finishes no parked task.
LEMMA ReadinessCalm ==
  ASSUME NEW T, isPlan(T)
  PROVE  Calm(T, setReadiness(T)) /\ (Parked(T) => Parked(setReadiness(T)))
<1> DEFINE C == setReadiness(T)
<1>1. ASSUME NEW t \in DOMAIN T
      PROVE  calmRow(T[t], C[t]) /\ (parkedRow(t, T[t]) => parkedRow(t, C[t]))
  <2>1. T[t] \in Task
    BY DEF isPlan
  <2>2. CASE T[t].status \in {"pending", "ready"}
    <3>1. C[t].status \in {"pending", "ready"}
      BY <2>1, <2>2 DEF setReadiness, Task
    <3> QED BY <3>1 DEF calmRow, parkedRow, heldStatus
  <2>3. CASE T[t].status \notin {"pending", "ready"}
    <3>1. C[t] = T[t]
      BY <2>3 DEF setReadiness
    <3> QED BY <3>1 DEF calmRow
  <2> QED BY <2>2, <2>3
<1>2. DOMAIN C = DOMAIN T
  BY DEF setReadiness
<1> QED BY <1>1, <1>2 DEF Calm, Parked

\* promote starts nothing, hands nothing over and finishes nothing parked.
LEMMA PromoteCalm ==
  ASSUME NEW T, isPlan(T)
  PROVE  Calm(T, promote(T)) /\ (Parked(T) => Parked(promote(T)))
<1> DEFINE C == closeComposites(T)
<1>1. isPlan(C)
  BY DEF isPlan, closeComposites, Task, Status
<1>2. Calm(T, C) /\ (Parked(T) => Parked(C))
  BY CloseCalm
<1> HIDE DEF C
<1>3. Calm(C, setReadiness(C)) /\ (Parked(C) => Parked(setReadiness(C)))
  BY <1>1, ReadinessCalm
<1> QED BY <1>2, <1>3, CalmThenCalm DEF promote, C

\* Neither does a cascade.
LEMMA CancelRowsCalm ==
  ASSUME NEW T, isPlan(T), NEW ids
  PROVE  Calm(T, cancelRows(T, ids)) /\ (Parked(T) => Parked(cancelRows(T, ids)))
<1> DEFINE C == cancelRows(T, ids)
<1>1. ASSUME NEW t \in DOMAIN T
      PROVE  calmRow(T[t], C[t]) /\ (parkedRow(t, T[t]) => parkedRow(t, C[t]))
  <2>1. T[t] \in Task
    BY DEF isPlan
  <2>2. CASE t \in ids
    <3>1. C[t].status = "cancelled"
      BY <2>1, <2>2 DEF cancelRows, Task
    <3> QED BY <3>1 DEF calmRow, parkedRow, heldStatus
  <2>3. CASE t \notin ids
    <3>1. C[t] = T[t]
      BY <2>3 DEF cancelRows
    <3> QED BY <3>1 DEF calmRow
  <2> QED BY <2>2, <2>3
<1>2. DOMAIN C = DOMAIN T
  BY DEF cancelRows
<1> QED BY <1>1, <1>2 DEF Calm, Parked

\* Recomputing composites is calm and finishes no parked task.
LEMMA RecomputeCalm ==
  ASSUME NEW T, isPlan(T)
  PROVE  Calm(T, recomputeComposite(T)) /\ (Parked(T) => Parked(recomputeComposite(T)))
<1> DEFINE C == recomputeComposite(T)
<1>1. ASSUME NEW t \in DOMAIN T
      PROVE  /\ C[t].status = T[t].status /\ C[t].claimedBy = T[t].claimedBy
             /\ C[t].waiting = T[t].waiting
  BY DEF isPlan, recomputeComposite, Task
<1>2. DOMAIN C = DOMAIN T
  BY DEF recomputeComposite
<1> HIDE DEF C
<1> QED BY <1>1, <1>2 DEF Calm, Parked, calmRow, parkedRow, C

\* A delete is calm for the rows it keeps.
LEMMA KeepCalm ==
  ASSUME NEW T, NEW ids
  PROVE  Calm(T, Keep(T, ids)) /\ (Parked(T) => Parked(Keep(T, ids)))
BY DEF Keep, Calm, calmRow, Parked

\* One row changed calmly, with or without promotion.
LEMMA ChangeCalm ==
  ASSUME TypeOK, NEW id \in DOMAIN tasks, NEW row \in Task,
         changeTask(id, row) \/ changeTaskAndPromote(id, row),
         calmRow(tasks[id], row), ParkedNotFinished => parkedRow(id, row)
  PROVE  Calm(tasks, tasks') /\ (ParkedNotFinished => Parked(tasks'))
<1> DEFINE T == [tasks EXCEPT ![id] = row]
<1>1. isPlan(T) /\ DOMAIN T = DOMAIN tasks
  BY ExceptType DEF TypeOK
<1>2. \A t \in DOMAIN T : T[t] = IF t = id THEN row ELSE tasks[t]
  BY DEF TypeOK, isPlan
<1>3. tasks' = T \/ tasks' = promote(T)
  BY DEF changeTask, changeTaskAndPromote
<1> HIDE DEF T
<1>4. Calm(tasks, T)
  BY <1>1, <1>2 DEF Calm, calmRow
<1>5. ParkedNotFinished => Parked(T)
  BY <1>1, <1>2 DEF ParkedNotFinished, Parked, parkedRow
<1> QED BY <1>1, <1>3, <1>4, <1>5, PromoteCalm, CalmThenCalm

\* A map promoted and written.
LEMMA WriteCalm ==
  ASSUME NEW T, isPlan(T), tasks' = promote(T), Calm(tasks, T),
         ParkedNotFinished => Parked(T)
  PROVE  Calm(tasks, tasks') /\ (ParkedNotFinished => Parked(tasks'))
BY PromoteCalm, CalmThenCalm

-----------------------------------------------------------------------------
(* Every operation but a claim is calm.                                     *)

calmStep == Calm(tasks, tasks') /\ (ParkedNotFinished => Parked(tasks'))

\* Admission is calm: a new row is held by nobody.
LEMMA AdmitCalm == ASSUME TypeOK, Admit PROVE calmStep
<1> USE ConstantsAssumption
<1>1. ASSUME NEW B \in SUBSET (Ids \ DOMAIN tasks), NEW specs \in Batches(B), AddMany(specs)
      PROVE  calmStep
  <2>1. /\ DOMAIN specs = B
        /\ \A b \in B : specs[b].parent \in DOMAIN tasks \cup B
        /\ \A b \in B : specs[b].hard \in SUBSET AllIds /\ specs[b].soft \in SUBSET AllIds
    <3>1. DOMAIN tasks \cup B \subseteq AllIds
      BY <1>1 DEF TypeOK, isPlan, AllIds
    <3> QED BY <1>1, <3>1 DEF Batches, Specs
  <2> DEFINE known == DOMAIN tasks \cup B
             fresh(t) == newRow(specs[t].parent, climb(specs, t), specs[t].hard, specs[t].soft)
             base(t) == IF t \in B THEN fresh(t) ELSE tasks[t]
             row(t) == IF \E x \in B : specs[x].parent = t
                       THEN [base(t) EXCEPT !.composite = TRUE] ELSE base(t)
             admitted == [t \in known |-> row(t)]
  <2>2. known \subseteq AllIds
    BY <1>1 DEF TypeOK, isPlan, AllIds
  <2>3. ASSUME NEW t \in known
        PROVE  base(t) \in Task /\ (t \in B => base(t).status = "pending")
    <3>1. CASE t \in B
      <4>1. climb(specs, t) \in SUBSET AllIds
        BY <2>1, <2>2, <3>1, ClimbType
      <4>2. fresh(t) \in Task
        BY <2>1, <2>2, <3>1, <4>1, NewRowType
      <4>3. fresh(t).status = "pending"
        BY DEF newRow
      <4> QED BY <3>1, <4>2, <4>3
    <3>2. CASE t \notin B
      BY <3>2 DEF TypeOK, isPlan
    <3> QED BY <3>1, <3>2
  <2>4. \A t \in known \ B : base(t) = tasks[t] /\ t \in DOMAIN tasks
    OBVIOUS
  <2> HIDE DEF base
  <2>5. ASSUME NEW t \in known
        PROVE  /\ row(t) \in Task /\ row(t).status = base(t).status
               /\ row(t).claimedBy = base(t).claimedBy /\ row(t).waiting = base(t).waiting
    <3>1. base(t) \in Task
      BY <2>3
    <3> QED BY <3>1 DEF Task
  <2>6. tasks' = promote(admitted)
    BY <1>1, <2>1 DEF AddMany, base
  <2> HIDE DEF row, known
  <2>7. isPlan(admitted)
    BY <2>2, <2>5 DEF isPlan
  <2>8. Calm(tasks, admitted)
    BY <2>3, <2>4, <2>5 DEF Calm, calmRow, heldStatus
  <2>9. ParkedNotFinished => Parked(admitted)
    BY <2>3, <2>4, <2>5 DEF ParkedNotFinished, Parked, parkedRow
  <2> HIDE DEF admitted
  <2> QED BY <2>6, <2>7, <2>8, <2>9, WriteCalm DEF calmStep
<1>2. ASSUME NEW id \in Ids, NEW parent \in DOMAIN tasks, AddReviewCheck(id, parent)
      PROVE  calmStep
  <2> DEFINE above == Lineage(tasks, parent)
             st(t) == IF tasks[t].status = "done" THEN "pending" ELSE tasks[t].status
             row(t) == IF t = id THEN newRow(parent, above, {}, {})
                       ELSE IF t \notin above THEN tasks[t]
                       ELSE [tasks[t] EXCEPT !.composite = TRUE,
                               !.status = IF @ = "done" THEN "pending" ELSE @]
             seated == [t \in DOMAIN tasks \cup {id} |-> row(t)]
  <2>1. above \in SUBSET AllIds
    BY DEF Lineage, TypeOK, isPlan, Task
  <2>2. row(id) \in Task /\ row(id).status = "pending"
    <3>1. newRow(parent, above, {}, {}) \in Task
      BY <2>1, NewRowType DEF TypeOK, isPlan
    <3> QED BY <3>1 DEF newRow
  <2>3. ASSUME NEW t \in DOMAIN tasks, t # id
        PROVE  /\ row(t) \in Task
               /\ row(t).status = tasks[t].status \/ row(t).status = "pending"
               /\ row(t).claimedBy = tasks[t].claimedBy /\ row(t).waiting = tasks[t].waiting
    <3>1. tasks[t] \in Task /\ st(t) \in Status
      BY DEF TypeOK, isPlan, Task, Status
    <3>2. row(t) = tasks[t] \/ row(t) = [[tasks[t] EXCEPT !.composite = TRUE] EXCEPT !.status = st(t)]
      BY <2>3, <3>1 DEF Task
    <3>3. [[tasks[t] EXCEPT !.composite = TRUE] EXCEPT !.status = st(t)] \in Task
      BY <3>1, RowFlags, RowStatus
    <3> HIDE DEF row
    <3> QED BY <3>1, <3>2, <3>3 DEF Task
  <2>4. tasks' = promote(seated)
    BY <1>2 DEF AddReviewCheck
  <2> HIDE DEF row
  <2>5. isPlan(seated)
    BY <2>2, <2>3 DEF isPlan, TypeOK, AllIds
  <2>6. Calm(tasks, seated)
    BY <2>2, <2>3 DEF Calm, calmRow, heldStatus
  <2>7. ParkedNotFinished => Parked(seated)
    BY <2>2, <2>3 DEF ParkedNotFinished, Parked, parkedRow
  <2> HIDE DEF seated
  <2> QED BY <2>4, <2>5, <2>6, <2>7, WriteCalm DEF calmStep
<1>3. ASSUME NEW id \in DOMAIN tasks, NEW h \in SUBSET AllIds, NEW f \in SUBSET AllIds,
             changeTaskAndPromote(id, [tasks[id] EXCEPT !.hard = h, !.soft = f])
      PROVE  calmStep
  <2> DEFINE row == [tasks[id] EXCEPT !.hard = h, !.soft = f]
  <2>1. tasks[id] \in Task
    BY DEF TypeOK, isPlan
  <2>2. /\ row \in Task /\ row.status = tasks[id].status
        /\ row.claimedBy = tasks[id].claimedBy /\ row.waiting = tasks[id].waiting
    BY <2>1 DEF Task
  <2>3. calmRow(tasks[id], row) /\ (ParkedNotFinished => parkedRow(id, row))
    BY <2>2 DEF calmRow, ParkedNotFinished, parkedRow
  <2> HIDE DEF row
  <2> QED BY <1>3, <2>2, <2>3, ChangeCalm DEF calmStep, row
<1>4. ASSUME NEW id \in DOMAIN tasks, NEW up \in DOMAIN tasks, NEW hd \in BOOLEAN,
             AddDep(id, up, hd)
      PROVE  calmStep
  <2> DEFINE h == IF hd THEN tasks[id].hard \cup {up} ELSE tasks[id].hard
             f == IF hd THEN tasks[id].soft ELSE tasks[id].soft \cup {up}
  <2>1. tasks[id] \in Task /\ up \in AllIds
    BY DEF TypeOK, isPlan
  <2>2. h \in SUBSET AllIds /\ f \in SUBSET AllIds
    BY <2>1 DEF Task
  <2>3. [tasks[id] EXCEPT !.hard = IF hd THEN @ \cup {up} ELSE @,
                          !.soft = IF hd THEN @ ELSE @ \cup {up}]
          = [tasks[id] EXCEPT !.hard = h, !.soft = f]
    BY <2>1 DEF Task
  <2>4. changeTaskAndPromote(id, [tasks[id] EXCEPT !.hard = h, !.soft = f])
    BY <1>4, <2>3 DEF AddDep
  <2> HIDE DEF h, f
  <2> QED BY <1>3, <2>2, <2>4
<1>5. ASSUME NEW id \in DOMAIN tasks, NEW up, RemoveDep(id, up)
      PROVE  calmStep
  <2> DEFINE h == tasks[id].hard \ {up}
             f == tasks[id].soft \ {up}
  <2>1. tasks[id] \in Task
    BY DEF TypeOK, isPlan
  <2>2. h \in SUBSET AllIds /\ f \in SUBSET AllIds
    BY <2>1 DEF Task
  <2>3. [tasks[id] EXCEPT !.hard = @ \ {up}, !.soft = @ \ {up}]
          = [tasks[id] EXCEPT !.hard = h, !.soft = f]
    BY <2>1 DEF Task
  <2>4. changeTaskAndPromote(id, [tasks[id] EXCEPT !.hard = h, !.soft = f])
    BY <1>5, <2>3 DEF RemoveDep
  <2> HIDE DEF h, f
  <2> QED BY <1>3, <2>2, <2>4
<1> QED BY <1>1, <1>2, <1>4, <1>5 DEF Admit

\* Release, the endings of one task, parking, waking, retries and holds.
LEMMA FinishCalm ==
  ASSUME TypeOK, NEW id \in DOMAIN tasks, NEW n \in Names, NEW b \in BOOLEAN,
         \/ Release(id, n) \/ Done(id, n, b) \/ Fail(id, n) \/ Wait(id, n)
         \/ Wake(id) \/ Retry(id) \/ hold(id, b)
  PROVE  calmStep
<1> DEFINE old == tasks[id]
<1>1. old \in Task /\ {"pending", "done", "failed"} \subseteq Status
  BY DEF TypeOK, isPlan, Status
<1>2. ParkedNotFinished => parkedRow(id, old)
  BY DEF ParkedNotFinished, parkedRow
<1>3. CASE Release(id, n) \/ Retry(id)
  <2> DEFINE row == [unclaimed(old) EXCEPT !.status = "pending"]
  <2>1. row \in Task /\ row.status = "pending"
    BY <1>1, UnclaimedType DEF unclaimed, Task
  <2>2. changeTaskAndPromote(id, row)
    BY <1>3 DEF Release, Retry
  <2> HIDE DEF row
  <2> QED BY <2>1, <2>2, ChangeCalm DEF calmStep, calmRow, parkedRow, heldStatus
<1>4. CASE Done(id, n, b)
  <2> DEFINE row == [old EXCEPT !.status = "done", !.result = b, !.claimedBy = n]
  <2>1. row \in Task
    BY <1>1, RowsOfOperations
  <2>2. row.status = "done" /\ row.waiting = old.waiting
    BY <1>1 DEF Task
  <2>3. changeTaskAndPromote(id, row) /\ ~old.waiting
    BY <1>4 DEF Done, mayFinish, refuseParked
  <2> HIDE DEF row
  <2> QED BY <2>1, <2>2, <2>3, ChangeCalm DEF calmStep, calmRow, parkedRow, heldStatus
<1>5. CASE Fail(id, n)
  <2> DEFINE row == [old EXCEPT !.status = "failed"]
  <2>1. row \in Task
    BY <1>1, RowStatus
  <2>2. row.status = "failed" /\ row.waiting = old.waiting
    BY <1>1 DEF Task
  <2>3. changeTaskAndPromote(id, row) /\ ~old.waiting
    BY <1>5 DEF Fail, mayFail, refuseParked
  <2> HIDE DEF row
  <2> QED BY <2>1, <2>2, <2>3, ChangeCalm DEF calmStep, calmRow, parkedRow, heldStatus
<1>6. CASE Wait(id, n)
  <2> DEFINE row == [unclaimed(old) EXCEPT !.waiting = TRUE, !.status = "pending"]
  <2>1. row \in Task /\ row.status = "pending"
    BY <1>1, UnclaimedType DEF unclaimed, Task
  <2>2. changeTaskAndPromote(id, row)
    BY <1>6 DEF Wait
  <2> HIDE DEF row
  <2> QED BY <2>1, <2>2, ChangeCalm DEF calmStep, calmRow, parkedRow, heldStatus
<1>7. CASE Wake(id)
  <2> DEFINE row == [old EXCEPT !.waiting = FALSE]
  <2>1. row \in Task
    BY <1>1, RowFlags
  <2>2. row.status = old.status /\ row.claimedBy = old.claimedBy /\ ~row.waiting
    BY <1>1 DEF Task
  <2>3. changeTask(id, row)
    BY <1>7 DEF Wake
  <2> HIDE DEF row
  <2> QED BY <2>1, <2>2, <2>3, ChangeCalm DEF calmStep, calmRow, parkedRow
<1>8. CASE hold(id, b)
  <2> DEFINE row == [old EXCEPT !.paused = b]
  <2>1. row \in Task
    BY <1>1, RowFlags
  <2>2. /\ row.status = old.status /\ row.claimedBy = old.claimedBy
        /\ row.waiting = old.waiting
    BY <1>1 DEF Task
  <2>3. changeTask(id, row)
    BY <1>8 DEF hold
  <2>4. calmRow(old, row) /\ (ParkedNotFinished => parkedRow(id, row))
    BY <1>2, <2>2 DEF calmRow, parkedRow
  <2> HIDE DEF row
  <2> QED BY <2>1, <2>3, <2>4, ChangeCalm DEF calmStep
<1> QED BY <1>3, <1>4, <1>5, <1>6, <1>7, <1>8

\* A cancel is calm.
LEMMA CancelCalm ==
  ASSUME TypeOK, NEW id \in DOMAIN tasks, Cancel(id) PROVE calmStep
<1> DEFINE row == [unclaimed(tasks[id]) EXCEPT !.status = "cancelled"]
           cut == [tasks EXCEPT ![id] = row]
           below == cancelDescendants(cut, id)
           swept == cancelBlockedDependents(below, {id})
<1>1. row \in Task /\ row.status = "cancelled"
  <2>1. tasks[id] \in Task /\ "cancelled" \in Status
    BY DEF TypeOK, isPlan, Status
  <2> QED BY <2>1, UnclaimedType DEF unclaimed, Task
<1>2. tasks' = promote(swept)
  BY DEF Cancel
<1> HIDE DEF row
<1>3. isPlan(cut) /\ DOMAIN cut = DOMAIN tasks
  BY <1>1, ExceptType DEF TypeOK
<1>4. \A t \in DOMAIN cut : cut[t] = IF t = id THEN row ELSE tasks[t]
  BY DEF TypeOK, isPlan
<1> HIDE DEF cut
<1>5. Calm(tasks, cut) /\ (ParkedNotFinished => Parked(cut))
  BY <1>1, <1>3, <1>4 DEF Calm, calmRow, heldStatus, ParkedNotFinished, Parked, parkedRow
<1>6. isPlan(below) /\ Calm(cut, below) /\ (Parked(cut) => Parked(below))
  BY <1>3, CancelRowsType, CancelRowsCalm DEF cancelDescendants
<1> HIDE DEF below
<1>7. isPlan(swept) /\ Calm(below, swept) /\ (Parked(below) => Parked(swept))
  BY <1>6, CancelRowsType, CancelRowsCalm DEF cancelBlockedDependents
<1> HIDE DEF swept
<1>8. Calm(tasks, swept)
  BY <1>5, <1>6, <1>7, CalmThenCalm
<1> QED BY <1>2, <1>5, <1>6, <1>7, <1>8, WriteCalm DEF calmStep

\* The end of a run is calm.
LEMMA EndRunCalm == ASSUME TypeOK, EndRun PROVE calmStep
<1> USE ConstantsAssumption
<1>1. ASSUME NEW res \in BOOLEAN, CompleteRoot(res) PROVE calmStep
  <2> DEFINE s == IF \A t \in DOMAIN tasks \ {Root} : tasks[t].status = "done"
                  THEN "done" ELSE "failed"
             row == [tasks[Root] EXCEPT !.result = res, !.status = s]
  <2>1. Root \in DOMAIN tasks /\ tasks[Root] \in Task /\ s \in {"done", "failed"}
    BY <1>1 DEF CompleteRoot, Open, TypeOK, isPlan
  <2>2. s \in Status /\ ~heldStatus(s)
    BY <2>1 DEF Status, heldStatus
  <2>3. changeTask(Root, row) /\ ~tasks[Root].waiting
    BY <1>1 DEF CompleteRoot, refuseParked
  <2> HIDE DEF s
  <2>4. row \in Task
    BY <2>1, <2>2, RowFlags, RowStatus
  <2>5. row.status = s /\ row.waiting = tasks[Root].waiting
    BY <2>1 DEF Task
  <2> HIDE DEF row
  <2> QED BY <2>1, <2>2, <2>3, <2>4, <2>5, ChangeCalm DEF calmStep, calmRow, parkedRow
<1>2. ASSUME NEW rs \in {"failed", "cancelled"}, closeRoot(rs) PROVE calmStep
  <2> DEFINE st(t) == IF t = Root THEN rs ELSE "cancelled"
             row(t) == IF terminal(tasks[t].status) THEN tasks[t]
                       ELSE [unclaimed(tasks[t]) EXCEPT !.status = st(t)]
             cut == [t \in DOMAIN tasks |-> row(t)]
  <2>1. ASSUME NEW t \in DOMAIN tasks
        PROVE  /\ row(t) \in Task
               /\ row(t) = tasks[t] \/ row(t).status = st(t)
    <3>1. tasks[t] \in Task
      BY DEF TypeOK, isPlan
    <3>2. st(t) \in Status
      BY DEF Status
    <3> HIDE DEF st
    <3> QED BY <3>1, <3>2, UnclaimedType DEF unclaimed, Task
  <2>2. tasks' = promote(cut)
    BY <1>2 DEF closeRoot
  <2> HIDE DEF row
  <2>3. isPlan(cut)
    BY <2>1 DEF isPlan, TypeOK
  <2>4. Calm(tasks, cut)
    BY <2>1 DEF Calm, calmRow, heldStatus
  <2>5. ParkedNotFinished => Parked(cut)
    BY <2>1 DEF ParkedNotFinished, Parked, parkedRow
  <2> HIDE DEF cut
  <2> QED BY <2>2, <2>3, <2>4, <2>5, WriteCalm DEF calmStep
<1> QED BY <1>1, <1>2 DEF EndRun, StopRoot, EndRoot

\* Archive and DeleteSubtree are calm.
LEMMA TakeOutCalm == ASSUME TypeOK, TakeOut PROVE calmStep
<1>0. ParkedNotFinished <=> Parked(tasks)
  BY DEF ParkedNotFinished, Parked, parkedRow
<1>1. ASSUME NEW ids
      PROVE  /\ isPlan(Keep(tasks, ids)) /\ Calm(tasks, Keep(tasks, ids))
             /\ ParkedNotFinished => Parked(Keep(tasks, ids))
  BY <1>0, KeepType, KeepCalm DEF TypeOK
<1>2. ASSUME NEW T, isPlan(T), Calm(tasks, T), ParkedNotFinished => Parked(T),
             tasks' = recomputeComposite(T)
      PROVE  calmStep
  BY <1>2, RecomputeCalm, CalmThenCalm DEF calmStep
<1>3. ASSUME NEW old, Archive(old) PROVE calmStep
  BY <1>1, <1>2, <1>3 DEF Archive
<1>4. ASSUME NEW id, DeleteSubtree(id) PROVE calmStep
  <2> DEFINE gone == doomed(id)
             kept == Keep(tasks, gone)
             cut == cancelBlockedDependents(kept, gone)
             dropped(t) == [cut[t] EXCEPT !.hard = @ \ gone, !.soft = @ \ gone]
             row(t) == IF cut[t].hard \cap gone # {} /\ ~terminal(cut[t].status)
                       THEN [dropped(t) EXCEPT !.status = "cancelled", !.claimedBy = None]
                       ELSE dropped(t)
             forget == [t \in DOMAIN cut |-> row(t)]
  <2>1. tasks' = recomputeComposite(forget)
    BY <1>4 DEF DeleteSubtree
  <2> HIDE DEF gone
  <2>2. isPlan(kept) /\ Calm(tasks, kept) /\ (ParkedNotFinished => Parked(kept))
    BY <1>1
  <2> HIDE DEF kept
  <2>3. isPlan(cut) /\ Calm(kept, cut) /\ (Parked(kept) => Parked(cut))
    BY <2>2, CancelRowsType, CancelRowsCalm DEF cancelBlockedDependents
  <2> HIDE DEF cut
  <2>4. ASSUME NEW t \in DOMAIN cut
        PROVE  /\ row(t) \in Task
               /\ row(t).waiting = cut[t].waiting
               /\ \/ row(t).status = "cancelled"
                  \/ row(t).status = cut[t].status /\ row(t).claimedBy = cut[t].claimedBy
    <3>1. cut[t] \in Task
      BY <2>3 DEF isPlan
    <3>2. /\ dropped(t) \in Task /\ dropped(t).waiting = cut[t].waiting
          /\ dropped(t).status = cut[t].status /\ dropped(t).claimedBy = cut[t].claimedBy
      <4>1. cut[t].hard \ gone \in SUBSET AllIds /\ cut[t].soft \ gone \in SUBSET AllIds
        BY <3>1 DEF Task
      <4>2. dropped(t) = [cut[t] EXCEPT !.hard = cut[t].hard \ gone, !.soft = cut[t].soft \ gone]
        BY <3>1 DEF Task
      <4> QED BY <3>1, <4>1, <4>2 DEF Task
    <3> HIDE DEF dropped
    <3> QED BY <3>2 DEF Task, Status, Names
  <2> HIDE DEF row
  <2>5. isPlan(forget)
    BY <2>3, <2>4 DEF isPlan
  <2>6. Calm(cut, forget) /\ (Parked(cut) => Parked(forget))
    BY <2>4 DEF Calm, calmRow, heldStatus, Parked, parkedRow
  <2> HIDE DEF forget
  <2>7. Calm(tasks, forget)
    BY <2>2, <2>3, <2>6, CalmThenCalm
  <2> QED BY <1>2, <2>1, <2>2, <2>3, <2>5, <2>6, <2>7
<1> QED BY <1>3, <1>4 DEF TakeOut

\* The endings of a task and its holds are calm.
LEMMA FinishAllCalm == ASSUME TypeOK, Finish PROVE calmStep
<1> USE ConstantsAssumption
<1>1. /\ \A n \in Callers : n \in Names
      /\ Results \subseteq BOOLEAN /\ None \in Names /\ TRUE \in BOOLEAN
  BY DEF Callers, Names
<1>2. ASSUME NEW id \in Pausable, NEW on \in BOOLEAN, hold(id, on) PROVE calmStep
  <2>1. id \in DOMAIN tasks
    BY <1>2 DEF hold
  <2> QED BY <1>1, <1>2, <2>1, FinishCalm
<1>3. ASSUME NEW id \in DOMAIN tasks, NEW n \in Names, Fail(id, n) \/ Wait(id, n)
      PROVE  calmStep
  BY <1>1, <1>3, FinishCalm
<1>4. ASSUME NEW id \in DOMAIN tasks, Wake(id) \/ Retry(id) PROVE calmStep
  BY <1>1, <1>4, FinishCalm
<1>5. ASSUME NEW id \in DOMAIN tasks, NEW n \in Names, NEW b \in BOOLEAN, Done(id, n, b)
      PROVE  calmStep
  BY <1>5, FinishCalm
<1> QED BY <1>1, <1>2, <1>3, <1>4, <1>5, CancelCalm DEF Finish

\* Every step but a claim.
LEMMA OtherStepsCalm ==
  ASSUME TypeOK,
         \/ Admit \/ Finish \/ EndRun \/ TakeOut \/ UNCHANGED planVars
         \/ \E id \in DOMAIN tasks, a \in Agents : Release(id, a)
  PROVE  calmStep
<1>1. CASE UNCHANGED planVars
  BY <1>1 DEF planVars, calmStep, Calm, calmRow, ParkedNotFinished, Parked, parkedRow
<1>2. CASE \E id \in DOMAIN tasks, a \in Agents : Release(id, a)
  <2>1. PICK id \in DOMAIN tasks, a \in Agents : Release(id, a)
    BY <1>2
  <2>2. a \in Names /\ TRUE \in BOOLEAN
    BY DEF Names
  <2> QED BY <2>1, <2>2, FinishCalm
<1> QED BY <1>1, <1>2, AdmitCalm, FinishAllCalm, EndRunCalm, TakeOutCalm

-----------------------------------------------------------------------------
(* A claim starts one row, which no one held.                               *)

claims(id, a) ==
  tasks[id].status = "ready" /\ changeTask(id, claimedRow(tasks[id], a))

\* Only the run's own task is claimed under the root's name.
namedClaim(id, a) == claims(id, a) /\ (a \in Agents \/ id = Root)

\* A claim finds the row ready and leaves it running, and every other row as
\* it was.
LEMMA ClaimStarts ==
  ASSUME TypeOK, NEW id \in DOMAIN tasks, NEW a, claims(id, a)
  PROVE  /\ DOMAIN tasks' = DOMAIN tasks /\ ~heldStatus(tasks[id].status)
         /\ \A t \in DOMAIN tasks \ {id} : tasks'[t] = tasks[t]
         /\ tasks'[id].status = "running"
<1>1. tasks[id] \in Task /\ isPlan(tasks)
  BY DEF TypeOK, isPlan
<1>2. claimedRow(tasks[id], a).status = "running"
  BY <1>1 DEF claimedRow, Task
<1>3. /\ DOMAIN tasks' = DOMAIN tasks /\ tasks'[id] = claimedRow(tasks[id], a)
      /\ \A t \in DOMAIN tasks \ {id} : tasks'[t] = tasks[t]
  BY DEF claims, changeTask, isPlan, TypeOK
<1> QED BY <1>2, <1>3 DEF claims, heldStatus

\* A step of the store is a claim of some row, or calm.
LEMMA StepIsClaimOrCalm ==
  ASSUME TypeOK, [PlanNext]_planVars
  PROVE  calmStep \/ \E id \in DOMAIN tasks, a \in Callers : namedClaim(id, a)
<1>1. CASE Take
  <2>1. ASSUME NEW id \in DOMAIN tasks, NEW a \in Agents, Claim(id, a) \/ ClaimWake(id, a)
        PROVE  namedClaim(id, a)
    BY <2>1 DEF Claim, ClaimWake, claims, namedClaim
  <2>2. ASSUME NEW a \in Agents, ClaimNext(a) PROVE \E id \in DOMAIN tasks : namedClaim(id, a)
    BY <2>2 DEF ClaimNext, claims, namedClaim
  <2>3. CASE Claim(Root, Root)
    BY <2>3 DEF Claim, claims, namedClaim, Callers
  <2> QED BY <1>1, <2>1, <2>2, <2>3, OtherStepsCalm DEF Take, Callers
<1> QED BY <1>1, OtherStepsCalm DEF PlanNext

-----------------------------------------------------------------------------
(* The theorems.                                                            *)

\* refuseParked's law, for every plan and every order of calls: no operation
\* leaves a task done and still parked, and none fails a parked task but the
\* run's own.  Done, Fail and CompleteRoot ask refuseParked themselves; promote
\* passes a parked composite by (Closable), and Wait and Retry leave `pending'.
THEOREM ParkedNeverFinished == PlanSpec => []ParkedNotFinished
<1>1. PlanInit => ParkedNotFinished
  <2>1. rootRow.status = "running"
    BY DEF rootRow, newRow
  <2> QED BY <2>1 DEF PlanInit, ParkedNotFinished
<1>2. TypeOK /\ ParkedNotFinished /\ [PlanNext]_planVars => ParkedNotFinished'
  <2> SUFFICES ASSUME TypeOK, ParkedNotFinished, [PlanNext]_planVars
               PROVE  ParkedNotFinished'
    OBVIOUS
  <2>1. CASE calmStep
    BY <2>1 DEF calmStep, Parked, parkedRow, ParkedNotFinished
  <2>2. ASSUME NEW id \in DOMAIN tasks, NEW a, claims(id, a)
        PROVE  ParkedNotFinished'
    BY <2>2, ClaimStarts DEF ParkedNotFinished
  <2> QED BY <2>1, <2>2, StepIsClaimOrCalm DEF namedClaim
<1> QED BY <1>1, <1>2, TypeCorrect, PTL DEF PlanSpec

\* A running task keeps its claimant: Claim, ClaimWake and ClaimNext take `ready'
\* rows only, and no other operation leaves a running row with a new name.
THEOREM ClaimsAreKept == PlanSpec => ClaimNotStolen
<1> DEFINE kept == \A t \in DOMAIN tasks \cap DOMAIN tasks' :
                     heldStatus(tasks[t].status) /\ heldStatus(tasks'[t].status)
                        => tasks'[t].claimedBy = tasks[t].claimedBy
<1>1. TypeOK /\ [PlanNext]_planVars => kept
  <2> SUFFICES ASSUME TypeOK, [PlanNext]_planVars PROVE kept
    OBVIOUS
  <2>1. CASE calmStep
    BY <2>1 DEF calmStep, Calm, calmRow
  <2>2. ASSUME NEW id \in DOMAIN tasks, NEW a, claims(id, a) PROVE kept
    BY <2>2, ClaimStarts
  <2> QED BY <2>1, <2>2, StepIsClaimOrCalm DEF namedClaim
<1>2. TypeOK /\ [PlanNext]_planVars => [kept]_planVars
  BY <1>1
<1> HIDE DEF kept
<1>3. PlanSpec => [][kept]_planVars
  BY <1>2, TypeCorrect, PTL DEF PlanSpec
<1> QED BY <1>3 DEF ClaimNotStolen, kept

\* A step of the `go' store is a step of the store.
LEMMA GoIsPlan == GoNext => PlanNext
BY DEF GoNext, PlanNext, Take

\* ClaimNext asks executionBlocked of the tasks that run in the transaction that
\* claims, so where `go' is the only road to work two conflicting tasks never
\* run together: not through a release, a retry, an admission or a removal that
\* falls between two claims.
THEOREM ConflictsApart == GoSpec => []ConflictsKeptApart
<1> USE ConstantsAssumption
<1>1. PlanInit => ConflictsKeptApart
  BY DEF PlanInit, ConflictsKeptApart
<1>2. TypeOK /\ ConflictsKeptApart /\ [GoNext]_planVars => ConflictsKeptApart'
  <2> SUFFICES ASSUME TypeOK, ConflictsKeptApart, [GoNext]_planVars
               PROVE  ConflictsKeptApart'
    OBVIOUS
  <2>1. CASE calmStep
    BY <2>1 DEF calmStep, Calm, calmRow, ConflictsKeptApart
  <2>2. ASSUME NEW a \in Agents, ClaimNext(a) PROVE ConflictsKeptApart'
    <3>1. PICK id \in DOMAIN tasks : claims(id, a) /\ ~executionBlocked(tasks, id)
      BY <2>2 DEF ClaimNext, claims
    <3>2. \A o \in DOMAIN tasks \ {id, Root} :
            heldStatus(tasks[o].status) => <<id, o>> \notin Conflict /\ <<o, id>> \notin Conflict
      BY <3>1 DEF executionBlocked
    <3> QED BY <3>1, <3>2, ClaimStarts, ZenonT(40) DEF ConflictsKeptApart
  <2> QED BY <2>1, <2>2, OtherStepsCalm DEF GoNext
<1>3. GoSpec => PlanSpec
  BY GoIsPlan, PTL DEF GoSpec, PlanSpec
<1> QED BY <1>1, <1>2, <1>3, TypeCorrect, PTL DEF GoSpec

\* Whoever works on a task other than the run's own is an agent.
HeldByAgents ==
  \A t \in DOMAIN tasks \ {Root} : heldStatus(tasks[t].status) => tasks[t].claimedBy \in Agents

\* A step of the store keeps it: only a claim starts work, under a name.
LEMMA HeldByAgentsKept ==
  ASSUME TypeOK, HeldByAgents, [PlanNext]_planVars PROVE HeldByAgents'
<1>1. CASE calmStep
  BY <1>1 DEF calmStep, Calm, calmRow, HeldByAgents
<1>2. ASSUME NEW id \in DOMAIN tasks, NEW a, namedClaim(id, a) PROVE HeldByAgents'
  <2>1. /\ DOMAIN tasks' = DOMAIN tasks /\ \A t \in DOMAIN tasks \ {id} : tasks'[t] = tasks[t]
    BY <1>2, ClaimStarts DEF namedClaim
  <2>2. tasks'[id].claimedBy = a
    <3>1. tasks[id] \in Task
      BY DEF TypeOK, isPlan
    <3>2. tasks'[id] = claimedRow(tasks[id], a)
      BY <1>2 DEF namedClaim, claims, changeTask, TypeOK, isPlan
    <3> QED BY <3>1, <3>2 DEF claimedRow, Task
  <2> QED BY <1>2, <2>1, <2>2 DEF HeldByAgents, namedClaim
<1> QED BY <1>1, <1>2, StepIsClaimOrCalm

\* A claim is always in the name of an agent.
THEOREM AgentsHold == PlanSpec => []HeldByAgents
<1>1. PlanInit => HeldByAgents
  BY DEF PlanInit, HeldByAgents
<1>2. TypeOK /\ HeldByAgents /\ [PlanNext]_planVars => HeldByAgents'
  BY HeldByAgentsKept
<1> QED BY <1>1, <1>2, TypeCorrect, PTL DEF PlanSpec
=============================================================================
