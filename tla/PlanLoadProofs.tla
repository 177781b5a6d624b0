---------------------------- MODULE PlanLoadProofs -----------------------------
(* A plan once committed loads again.  The proof is about the tree: the line  *)
(* of a task is the least set its parents close, and it reaches the root.     *)
EXTENDS PlanEndingsProofs, FiniteSetTheorems, WellFoundedInduction

\* The line of every task: its parent and the parent's line, within the plan, up
\* to the root, and never through the task itself; and no more than climbing
\* the parents meets.
line(T, t) ==
  /\ t = Root => T[t].parent = None /\ T[t].above = {}
  /\ t # Root => /\ T[t].parent \in DOMAIN T /\ Root \in T[t].above
                 /\ T[t].above = Lineage(T, T[t].parent)
  /\ t \notin T[t].above /\ T[t].above \subseteq DOMAIN T
  /\ \A a \in T[t].above : T[a].above \subseteq T[t].above
  /\ \A Y \in SUBSET AllIds :
       (t \in Y /\ \A c \in (Y \cap DOMAIN T) \ {Root} : T[c].parent \in Y)
          => T[t].above \subseteq Y
Lines(T) == \A t \in DOMAIN T : line(T, t)

Edges(T) == \A t \in DOMAIN T : T[t].hard \cup T[t].soft \subseteq DOMAIN T
Shape(T) == \A t \in DOMAIN T : T[t].composite <=> Children(T, t) # {}
Sound(T) == Lines(T) /\ Edges(T) /\ validateGraphs(T) /\ Shape(T)

\* The archive holds no live task; without its root a plan is deleted.
LoadIInv ==
  /\ Sound(tasks)
  /\ FreshIds => DOMAIN tasks \cap DOMAIN archived = {}
  /\ Root \in DOMAIN tasks \/ (DOMAIN tasks = {} /\ Root \in deleted)

-----------------------------------------------------------------------------
(* Writes that leave every row's place and edges alone.                     *)

sameShape(row, new) ==
  /\ new.parent = row.parent /\ new.above = row.above
  /\ new.hard = row.hard /\ new.soft = row.soft /\ new.composite = row.composite
SameShape(T, U) == DOMAIN U = DOMAIN T /\ \A t \in DOMAIN T : sameShape(T[t], U[t])

\* Two changes that keep the shape of a plan keep it together.
LEMMA SameThenSame ==
  ASSUME NEW T, NEW U, NEW V, SameShape(T, U), SameShape(U, V) PROVE SameShape(T, V)
BY DEF SameShape, sameShape

\* Rows that keep their place keep the tree.
LEMMA SameLines ==
  ASSUME NEW T, NEW U, Lines(T), DOMAIN U = DOMAIN T,
         \A t \in DOMAIN T : sameTree(T[t], U[t])
  PROVE  Lines(U)
<1>1. ASSUME NEW t \in DOMAIN U PROVE line(U, t)
  BY DEF Lines, line, sameTree, Lineage
<1> QED BY <1>1 DEF Lines

\* The same rows with the same edges make the same graph.
LEMMA SameGraph ==
  ASSUME NEW T, NEW U, SameShape(T, U), validateGraphs(T) PROVE validateGraphs(U)
<1>1. \A X : X \in hardCycles(U) => X \in hardCycles(T)
  BY DEF SameShape, sameShape, hardCycles
<1>2. hardCycles(U) = {}
  BY <1>1 DEF validateGraphs
<1> QED BY <1>2 DEF validateGraphs, SameShape, sameShape

\* A plan of the same shape is as sound.
LEMMA SameSound ==
  ASSUME NEW T, NEW U, SameShape(T, U), Sound(T) PROVE Sound(U)
<1>1. Lines(U)
  BY SameLines DEF SameShape, sameShape, sameTree, Sound
<1>2. validateGraphs(U)
  BY SameGraph DEF Sound
<1>3. Edges(U)
  BY DEF SameShape, sameShape, Sound, Edges
<1>4. \A t : Children(U, t) = Children(T, t)
  BY DEF SameShape, sameShape, Children
<1>5. Shape(U)
  BY <1>4 DEF SameShape, sameShape, Sound, Shape
<1> QED BY <1>1, <1>2, <1>3, <1>5 DEF Sound

\* promote moves statuses only.
LEMMA PromoteShape == ASSUME NEW T, isPlan(T) PROVE SameShape(T, promote(T))
BY PromoteRow, PromoteType DEF SameShape, sameShape

\* cancelRows moves statuses only.
LEMMA CancelRowsShape ==
  ASSUME NEW T, isPlan(T), NEW ids PROVE SameShape(T, cancelRows(T, ids))
<1>1. ASSUME NEW t \in DOMAIN T PROVE sameShape(T[t], cancelRows(T, ids)[t])
  BY DEF isPlan, cancelRows, sameShape, Task
<1> QED BY <1>1, CancelRowsType DEF SameShape

\* One row rewritten in place, with or without promotion.
LEMMA ChangeShape ==
  ASSUME TypeOK, NEW id \in DOMAIN tasks, NEW row \in Task,
         changeTask(id, row) \/ changeTaskAndPromote(id, row), sameShape(tasks[id], row)
  PROVE  SameShape(tasks, tasks')
<1> DEFINE T == [tasks EXCEPT ![id] = row]
<1>1. isPlan(T) /\ DOMAIN T = DOMAIN tasks
  BY ExceptType DEF TypeOK
<1>2. \A t \in DOMAIN T : T[t] = IF t = id THEN row ELSE tasks[t]
  BY DEF TypeOK, isPlan
<1>3. tasks' = T \/ tasks' = promote(T)
  BY DEF changeTask, changeTaskAndPromote
<1> HIDE DEF T
<1>4. SameShape(tasks, T)
  BY <1>1, <1>2 DEF SameShape, sameShape
<1> QED BY <1>1, <1>3, <1>4, PromoteShape, SameThenSame

\* Claims, releases, endings, parking, waking, retries and holds.
LEMMA TakeShape ==
  ASSUME TypeOK, NEW id \in DOMAIN tasks, NEW n \in Names, claims(id, n)
  PROVE  SameShape(tasks, tasks')
<1>1. tasks[id] \in Task
  BY DEF TypeOK, isPlan
<1>2. claimedRow(tasks[id], n) \in Task /\ sameShape(tasks[id], claimedRow(tasks[id], n))
  BY <1>1, ClaimedRow DEF sameShape
<1> QED BY <1>2, ChangeShape DEF claims

\* So do the endings of a task, and a hold.
LEMMA FinishShape ==
  ASSUME TypeOK, NEW id \in DOMAIN tasks, NEW n \in Names, NEW b \in BOOLEAN,
         \/ Release(id, n) \/ Done(id, n, b) \/ Fail(id, n) \/ Wait(id, n)
         \/ Wake(id) \/ Retry(id) \/ hold(id, b)
  PROVE  SameShape(tasks, tasks')
<1> DEFINE old == tasks[id]
<1>1. old \in Task /\ {"pending", "done", "failed"} \subseteq Status
  BY DEF TypeOK, isPlan, Status
<1>2. CASE Release(id, n) \/ Retry(id)
  <2> DEFINE row == [unclaimed(old) EXCEPT !.status = "pending"]
  <2>1. row \in Task /\ sameShape(old, row)
    BY <1>1, UnclaimedType DEF unclaimed, Task, sameShape
  <2>2. changeTaskAndPromote(id, row)
    BY <1>2 DEF Release, Retry
  <2> HIDE DEF row
  <2> QED BY <2>1, <2>2, ChangeShape
<1>3. CASE Done(id, n, b)
  <2> DEFINE row == [old EXCEPT !.status = "done", !.result = b, !.claimedBy = n]
  <2>1. row \in Task
    BY <1>1, RowsOfOperations
  <2>2. sameShape(old, row)
    BY <1>1 DEF Task, sameShape
  <2>3. changeTaskAndPromote(id, row)
    BY <1>3 DEF Done
  <2> HIDE DEF row
  <2> QED BY <2>1, <2>2, <2>3, ChangeShape
<1>4. CASE Fail(id, n)
  <2> DEFINE row == [old EXCEPT !.status = "failed"]
  <2>1. row \in Task /\ sameShape(old, row)
    BY <1>1, RowStatus DEF Task, sameShape
  <2>2. changeTaskAndPromote(id, row)
    BY <1>4 DEF Fail
  <2> HIDE DEF row
  <2> QED BY <2>1, <2>2, ChangeShape
<1>5. CASE Wait(id, n)
  <2> DEFINE row == [unclaimed(old) EXCEPT !.waiting = TRUE, !.status = "pending"]
  <2>1. row \in Task /\ sameShape(old, row)
    BY <1>1, UnclaimedType DEF unclaimed, Task, sameShape
  <2>2. changeTaskAndPromote(id, row)
    BY <1>5 DEF Wait
  <2> HIDE DEF row
  <2> QED BY <2>1, <2>2, ChangeShape
<1>6. CASE Wake(id)
  <2> DEFINE row == [old EXCEPT !.waiting = FALSE]
  <2>1. row \in Task /\ sameShape(old, row)
    BY <1>1, RowFlags, ZenonT(40) DEF Task, sameShape
  <2>2. changeTask(id, row)
    BY <1>6 DEF Wake
  <2> HIDE DEF row
  <2> QED BY <2>1, <2>2, ChangeShape
<1>7. CASE hold(id, b)
  <2> DEFINE row == [old EXCEPT !.paused = b]
  <2>1. row \in Task /\ sameShape(old, row)
    BY <1>1, RowFlags DEF Task, sameShape
  <2>2. changeTask(id, row)
    BY <1>7 DEF hold
  <2> HIDE DEF row
  <2> QED BY <2>1, <2>2, ChangeShape
<1> QED BY <1>2, <1>3, <1>4, <1>5, <1>6, <1>7

\* So does a cancel.
LEMMA CancelShape ==
  ASSUME TypeOK, NEW id \in DOMAIN tasks, Cancel(id) PROVE SameShape(tasks, tasks')
<1> DEFINE row == [unclaimed(tasks[id]) EXCEPT !.status = "cancelled"]
           cut == [tasks EXCEPT ![id] = row]
           below == cancelDescendants(cut, id)
           swept == cancelBlockedDependents(below, {id})
<1>1. row \in Task /\ sameShape(tasks[id], row)
  <2>1. tasks[id] \in Task /\ "cancelled" \in Status
    BY DEF TypeOK, isPlan, Status
  <2> QED BY <2>1, UnclaimedType DEF unclaimed, Task, sameShape
<1>2. tasks' = promote(swept)
  BY DEF Cancel
<1> HIDE DEF row
<1>3. isPlan(cut) /\ DOMAIN cut = DOMAIN tasks
  BY <1>1, ExceptType DEF TypeOK
<1>4. \A t \in DOMAIN cut : cut[t] = IF t = id THEN row ELSE tasks[t]
  BY DEF TypeOK, isPlan
<1> HIDE DEF cut
<1>5. SameShape(tasks, cut)
  BY <1>1, <1>3, <1>4 DEF SameShape, sameShape
<1>6. isPlan(below) /\ SameShape(cut, below)
  BY <1>3, CancelRowsType, CancelRowsShape DEF cancelDescendants
<1> HIDE DEF below
<1>7. isPlan(swept) /\ SameShape(below, swept)
  BY <1>6, CancelRowsType, CancelRowsShape DEF cancelBlockedDependents
<1> HIDE DEF swept
<1>8. SameShape(tasks, below)
  BY <1>5, <1>6, SameThenSame
<1>9. SameShape(tasks, swept)
  BY <1>7, <1>8, SameThenSame
<1> QED BY <1>2, <1>7, <1>9, PromoteShape, SameThenSame

\* So does the end of a run.
LEMMA EndRunShape == ASSUME TypeOK, EndRun PROVE SameShape(tasks, tasks')
<1> USE ConstantsAssumption
<1>1. ASSUME NEW res \in BOOLEAN, CompleteRoot(res) PROVE SameShape(tasks, tasks')
  <2> DEFINE s == IF \A t \in DOMAIN tasks \ {Root} : tasks[t].status = "done"
                  THEN "done" ELSE "failed"
             row == [tasks[Root] EXCEPT !.result = res, !.status = s]
  <2>1. /\ Root \in DOMAIN tasks /\ tasks[Root] \in Task /\ s \in {"done", "failed"}
    BY <1>1 DEF CompleteRoot, Open, TypeOK, isPlan
  <2>2. changeTask(Root, row)
    BY <1>1 DEF CompleteRoot
  <2> HIDE DEF s
  <2>3. row \in Task
    BY <2>1, RowFlags, RowStatus DEF Status
  <2>4. sameShape(tasks[Root], row)
    BY <2>1 DEF Task, sameShape
  <2> HIDE DEF row
  <2> QED BY <2>1, <2>2, <2>3, <2>4, ChangeShape
<1>2. ASSUME NEW rs \in {"failed", "cancelled"}, closeRoot(rs) PROVE SameShape(tasks, tasks')
  <2> DEFINE st(t) == IF t = Root THEN rs ELSE "cancelled"
             row(t) == IF terminal(tasks[t].status) THEN tasks[t]
                       ELSE [unclaimed(tasks[t]) EXCEPT !.status = st(t)]
             cut == [t \in DOMAIN tasks |-> row(t)]
  <2>1. ASSUME NEW t \in DOMAIN tasks
        PROVE  row(t) \in Task /\ sameShape(tasks[t], row(t))
    <3>1. tasks[t] \in Task
      BY DEF TypeOK, isPlan
    <3>2. st(t) \in Status
      BY DEF Status
    <3> HIDE DEF st
    <3> QED BY <3>1, <3>2, UnclaimedType DEF unclaimed, Task, sameShape
  <2>2. tasks' = promote(cut)
    BY <1>2 DEF closeRoot
  <2> HIDE DEF row
  <2>3. isPlan(cut)
    BY <2>1 DEF isPlan, TypeOK
  <2>4. SameShape(tasks, cut)
    BY <2>1 DEF SameShape
  <2> HIDE DEF cut
  <2> QED BY <2>2, <2>3, <2>4, PromoteShape, SameThenSame
<1> QED BY <1>1, <1>2 DEF EndRun, StopRoot, EndRoot

\* Every step but an admission and a removal leaves the shape of the plan alone.
LEMMA StepShape ==
  ASSUME TypeOK, Take \/ Finish \/ EndRun \/ UNCHANGED planVars
  PROVE  SameShape(tasks, tasks')
<1> USE ConstantsAssumption
<1>0. /\ \A n \in Callers : n \in Names
      /\ Results \subseteq BOOLEAN /\ None \in Names /\ TRUE \in BOOLEAN
      /\ Agents \subseteq Names /\ Root \in Names
  BY DEF Callers, Names
<1>1. CASE UNCHANGED planVars
  BY <1>1 DEF planVars, SameShape, sameShape
<1>2. CASE Take
  <2>1. ASSUME NEW id \in DOMAIN tasks, NEW a \in Names, Claim(id, a) \/ ClaimWake(id, a)
        PROVE  SameShape(tasks, tasks')
    BY <2>1, TakeShape DEF Claim, ClaimWake, claims
  <2>2. ASSUME NEW a \in Names, ClaimNext(a) PROVE SameShape(tasks, tasks')
    BY <2>1, <2>2, ClaimNextIsClaim
  <2>3. CASE Claim(Root, Root)
    BY <1>0, <2>1, <2>3 DEF Claim
  <2>4. ASSUME NEW id \in DOMAIN tasks, NEW a \in Agents, Release(id, a)
        PROVE  SameShape(tasks, tasks')
    BY <1>0, <2>4, FinishShape
  <2> QED BY <1>0, <1>2, <2>1, <2>2, <2>3, <2>4 DEF Take
<1>3. CASE Finish
  <2>1. ASSUME NEW id \in Pausable, NEW on \in BOOLEAN, hold(id, on)
        PROVE  SameShape(tasks, tasks')
    <3>1. id \in DOMAIN tasks
      BY <2>1 DEF hold
    <3> QED BY <1>0, <2>1, <3>1, FinishShape
  <2>2. ASSUME NEW id \in DOMAIN tasks, NEW n \in Names, Fail(id, n) \/ Wait(id, n)
        PROVE  SameShape(tasks, tasks')
    BY <1>0, <2>2, FinishShape
  <2>3. ASSUME NEW id \in DOMAIN tasks, Wake(id) \/ Retry(id)
        PROVE  SameShape(tasks, tasks')
    BY <1>0, <2>3, FinishShape
  <2>4. ASSUME NEW id \in DOMAIN tasks, NEW n \in Names, NEW b \in BOOLEAN, Done(id, n, b)
        PROVE  SameShape(tasks, tasks')
    BY <2>4, FinishShape
  <2> QED BY <1>0, <1>3, <2>1, <2>2, <2>3, <2>4, CancelShape DEF Finish
<1> QED BY <1>1, <1>2, <1>3, EndRunShape

-----------------------------------------------------------------------------
(* Rows leave.                                                              *)

\* A part of the plan that holds every parent of its tasks is a tree.
LEMMA KeepLines ==
  ASSUME NEW T, isPlan(T), Lines(T), NEW U, DOMAIN U \subseteq DOMAIN T,
         \A t \in DOMAIN U : sameTree(T[t], U[t]),
         \A t \in DOMAIN U \ {Root} : T[t].parent \in DOMAIN U
  PROVE  Lines(U)
<1>1. DOMAIN T \subseteq AllIds
  BY DEF isPlan
<1>2. ASSUME NEW t \in DOMAIN U PROVE T[t].above \subseteq DOMAIN U
  BY <1>1 DEF Lines, line
<1>3. ASSUME NEW t \in DOMAIN U, NEW Y \in SUBSET AllIds, t \in Y,
             \A c \in (Y \cap DOMAIN U) \ {Root} : U[c].parent \in Y
      PROVE  T[t].above \subseteq Y
  <2> DEFINE X == Y \cap DOMAIN U
  <2>1. X \in SUBSET AllIds /\ t \in X
    BY <1>3
  <2>2. \A c \in (X \cap DOMAIN T) \ {Root} : T[c].parent \in X
    BY <1>3 DEF sameTree
  <2>3. line(T, t)
    BY DEF Lines
  <2>4. T[t].above \subseteq X
    <3> HIDE DEF X
    <3> QED BY <2>1, <2>2, <2>3 DEF line
  <2> QED BY <2>4
<1>4. ASSUME NEW t \in DOMAIN U PROVE line(U, t)
  <2>1. line(T, t) /\ U[t].above = T[t].above /\ U[t].parent = T[t].parent
    BY DEF Lines, sameTree
  <2>2. t # Root => U[t].parent \in DOMAIN U /\ U[t].above = Lineage(U, U[t].parent)
    BY <2>1 DEF line, Lineage, sameTree
  <2>3. \A a \in U[t].above : U[a].above \subseteq U[t].above
    BY <1>2, <2>1 DEF line, sameTree
  <2>4. \A Y \in SUBSET AllIds :
       (t \in Y /\ \A c \in (Y \cap DOMAIN U) \ {Root} : U[c].parent \in Y)
          => U[t].above \subseteq Y
    BY <1>3, <2>1
  <2> QED BY <1>2, <2>1, <2>2, <2>3, <2>4 DEF line
<1> QED BY <1>4 DEF Lines

\* A graph that loses rows and edges stays lawful.
LEMMA FewerEdges ==
  ASSUME NEW T, NEW U, validateGraphs(T), DOMAIN U \subseteq DOMAIN T,
         \A t \in DOMAIN U : U[t].above = T[t].above /\ U[t].hard \subseteq T[t].hard
  PROVE  validateGraphs(U)
<1>1. \A X : X \in hardCycles(U) => X \in hardCycles(T)
  BY DEF hardCycles
<1>2. hardCycles(U) = {}
  BY <1>1 DEF validateGraphs
<1> QED BY <1>2 DEF validateGraphs

\* What is left when a set of rows goes that holds every child of its tasks and
\* nothing somebody left depends on.
LEMMA KeepSound ==
  ASSUME NEW T, isPlan(T), Sound(T), NEW V, isPlan(V), DOMAIN V \subseteq DOMAIN T,
         \A t \in DOMAIN V :
            /\ sameTree(T[t], V[t])
            /\ V[t].hard \subseteq T[t].hard /\ V[t].hard \cup V[t].soft \subseteq DOMAIN V,
         \A t \in DOMAIN V \ {Root} : T[t].parent \in DOMAIN V
  PROVE  Sound(recomputeComposite(V))
<1> DEFINE U == recomputeComposite(V)
<1>1. DOMAIN U = DOMAIN V
  BY DEF recomputeComposite
<1>2. ASSUME NEW t \in DOMAIN V
      PROVE  /\ sameTree(V[t], U[t]) /\ U[t].hard = V[t].hard /\ U[t].soft = V[t].soft
             /\ U[t].composite = (Children(V, t) # {})
  BY DEF recomputeComposite, isPlan, Task, sameTree
<1> HIDE DEF U
<1>3. \A t \in DOMAIN V : sameTree(T[t], U[t])
  BY <1>2 DEF sameTree
<1>4. Lines(U)
  BY <1>1, <1>3, KeepLines DEF Sound
<1>5. validateGraphs(U)
  BY <1>1, <1>2, <1>3, FewerEdges DEF Sound, sameTree
<1>6. Edges(U)
  BY <1>1, <1>2 DEF Edges
<1>7. \A t : Children(U, t) = Children(V, t)
  BY <1>1, <1>2 DEF Children, sameTree
<1>8. Shape(U)
  BY <1>1, <1>2, <1>7 DEF Shape
<1> QED BY <1>4, <1>5, <1>6, <1>8 DEF Sound, U

\* Archiving moves whole subtrees nothing outside depends on.
LEMMA ArchiveLoads ==
  ASSUME TypeOK, LoadIInv, NEW old, Archive(old) PROVE LoadIInv'
<1> DEFINE moved == archiveSelection(old)
           V == Keep(tasks, moved)
<1>1. tasks' = recomputeComposite(V) /\ deleted' = deleted /\ moved # {}
      /\ DOMAIN archived' = DOMAIN archived \cup moved
  BY DEF Archive
<1>2. moved \subseteq DOMAIN tasks
  BY DEF archiveSelection
<1>3. \A d \in DOMAIN tasks \ moved : (tasks[d].hard \cup tasks[d].soft) \cap moved = {}
  BY DEF archiveSelection
<1>4. \A d \in moved : \E t \in DOMAIN tasks \ {Root} :
        t \in Lineage(tasks, d) /\ \A c \in DOMAIN tasks : t \in Lineage(tasks, c) => c \in moved
  BY DEF archiveSelection
<1> HIDE DEF moved
<1>5. Lines(tasks) /\ Edges(tasks) /\ isPlan(tasks)
  BY DEF LoadIInv, Sound, TypeOK
<1>6. \A t \in DOMAIN tasks \ moved : t # Root => tasks[t].parent \in DOMAIN tasks \ moved
  <2>1. ASSUME NEW t \in DOMAIN tasks \ {Root}, tasks[t].parent \in moved PROVE t \in moved
    <3>1. tasks[t].above = Lineage(tasks, tasks[t].parent)
      BY <1>5 DEF Lines, line
    <3>2. PICK c \in DOMAIN tasks : /\ c \in Lineage(tasks, tasks[t].parent)
                                    /\ \A e \in DOMAIN tasks : c \in Lineage(tasks, e) => e \in moved
      BY <1>4, <2>1
    <3> QED BY <3>1, <3>2 DEF Lineage
  <2> QED BY <1>5, <2>1 DEF Lines, line
<1>7. Root \in DOMAIN tasks \ moved
  <2>1. Root \in DOMAIN tasks
    BY <1>1, <1>2 DEF LoadIInv
  <2>2. Lineage(tasks, Root) = {Root}
    BY <1>5, <2>1 DEF Lines, line, Lineage
  <2> QED BY <1>4, <2>1, <2>2
<1>8. /\ isPlan(V) /\ DOMAIN V = DOMAIN tasks \ moved /\ \A t \in DOMAIN V : V[t] = tasks[t]
  BY <1>5, KeepType DEF Keep
<1> HIDE DEF V
<1>9. Sound(recomputeComposite(V))
  <2>1. \A t \in DOMAIN V : V[t].hard \cup V[t].soft \subseteq DOMAIN V
    BY <1>3, <1>5, <1>8 DEF Edges
  <2>2. \A t \in DOMAIN V : sameTree(tasks[t], V[t]) /\ V[t].hard \subseteq tasks[t].hard
    BY <1>8 DEF sameTree
  <2>3. \A t \in DOMAIN V \ {Root} : tasks[t].parent \in DOMAIN V
    BY <1>6, <1>8
  <2>4. Sound(tasks)
    BY DEF LoadIInv
  <2> QED BY <1>5, <1>8, <2>1, <2>2, <2>3, <2>4, KeepSound
<1>10. DOMAIN tasks' = DOMAIN tasks \ moved
  BY <1>1, <1>8 DEF recomputeComposite
<1>11. FreshIds => DOMAIN tasks' \cap DOMAIN archived' = {}
  BY <1>1, <1>10 DEF LoadIInv
<1> QED BY <1>1, <1>7, <1>9, <1>10, <1>11 DEF LoadIInv

\* The set a deletion takes is closed: a row whose parent goes, goes.
LEMMA DoomedClosed ==
  ASSUME NEW id
  PROVE  /\ doomed(id) \subseteq DOMAIN parentOf
         /\ id \in DOMAIN parentOf => id \in doomed(id)
         /\ \A r \in DOMAIN parentOf : parentOf[r] \in doomed(id) => r \in doomed(id)
<1> DEFINE up == parentOf
           closed(X) == id \in X /\ \A r \in DOMAIN up : up[r] \in X => r \in X
<1>1. doomed(id) = {t \in DOMAIN up : \A X \in SUBSET DOMAIN up : closed(X) => t \in X}
  BY DEF doomed
<1> HIDE DEF up
<1> QED BY <1>1 DEF up

\* A delete takes whole subtrees and every edge into them, so the file still
\* loads: nothing that stays names a row that went.
LEMMA DeleteLoads ==
  ASSUME TypeOK, LoadIInv, FreshIds, NEW id, DeleteSubtree(id) PROVE LoadIInv'
<1> DEFINE gone == doomed(id)
           kept == Keep(tasks, gone)
           cut == cancelBlockedDependents(kept, gone)
           dropped(t) == [cut[t] EXCEPT !.hard = @ \ gone, !.soft = @ \ gone]
           row(t) == IF cut[t].hard \cap gone # {} /\ ~terminal(cut[t].status)
                     THEN [dropped(t) EXCEPT !.status = "cancelled", !.claimedBy = None]
                     ELSE dropped(t)
           forget == [t \in DOMAIN cut |-> row(t)]
<1>1. /\ tasks' = recomputeComposite(forget) /\ deleted' = deleted \cup gone
      /\ archived' = Keep(archived, gone) /\ id \in DOMAIN parentOf
  BY DEF DeleteSubtree
<1>2. /\ Lines(tasks) /\ Edges(tasks) /\ isPlan(tasks) /\ Sound(tasks)
      /\ DOMAIN tasks \cap DOMAIN archived = {} /\ DOMAIN tasks \subseteq AllIds
  BY DEF LoadIInv, Sound, TypeOK, isPlan
<1>3. \A t \in DOMAIN tasks : tasks[t].parent \in gone => t \in gone
  <2>1. \A t \in DOMAIN tasks : t \in DOMAIN parentOf /\ parentOf[t] = tasks[t].parent
    BY <1>2 DEF parentOf
  <2> QED BY <2>1, DoomedClosed
<1> HIDE DEF gone
<1>4. \A t \in DOMAIN tasks \ gone : t # Root => tasks[t].parent \in DOMAIN tasks \ gone
  BY <1>2, <1>3 DEF Lines, line
<1>5. Root \in gone => DOMAIN tasks \subseteq gone
  <2>1. ASSUME Root \in gone, NEW t \in DOMAIN tasks \ gone PROVE FALSE
    <3> DEFINE Y == DOMAIN tasks \ gone
    <3>1. Y \in SUBSET AllIds /\ t \in Y /\ \A c \in (Y \cap DOMAIN tasks) \ {Root} : tasks[c].parent \in Y
      BY <1>2, <1>4
    <3>2. Root \notin Y
      BY <2>1
    <3> HIDE DEF Y
    <3>3. line(tasks, t)
      BY <1>2 DEF Lines
    <3>4. tasks[t].above \subseteq Y
      BY <3>1, <3>3 DEF line
    <3> QED BY <2>1, <3>2, <3>3, <3>4 DEF line
  <2> QED BY <2>1
<1>6. /\ isPlan(kept) /\ DOMAIN kept = DOMAIN tasks \ gone
      /\ \A t \in DOMAIN kept : kept[t] = tasks[t]
  BY <1>2, KeepType DEF Keep
<1> HIDE DEF kept
<1>7. isPlan(cut) /\ SameShape(kept, cut)
  BY <1>6, CancelRowsType, CancelRowsShape DEF cancelBlockedDependents
<1> HIDE DEF cut
<1>8. ASSUME NEW t \in DOMAIN cut
      PROVE  /\ row(t) \in Task /\ sameTree(cut[t], row(t))
             /\ row(t).hard = cut[t].hard \ gone /\ row(t).soft = cut[t].soft \ gone
  <2>1. cut[t] \in Task
    BY <1>7 DEF isPlan
  <2>2. /\ dropped(t) \in Task /\ sameTree(cut[t], dropped(t))
        /\ dropped(t).hard = cut[t].hard \ gone /\ dropped(t).soft = cut[t].soft \ gone
    <3>1. cut[t].hard \ gone \in SUBSET AllIds /\ cut[t].soft \ gone \in SUBSET AllIds
      BY <2>1 DEF Task
    <3>2. dropped(t) = [cut[t] EXCEPT !.hard = cut[t].hard \ gone, !.soft = cut[t].soft \ gone]
      BY <2>1 DEF Task
    <3> QED BY <2>1, <3>1, <3>2 DEF Task, sameTree
  <2> HIDE DEF dropped
  <2> QED BY <2>2 DEF Task, Status, Names, sameTree
<1> HIDE DEF row
<1>9. isPlan(forget) /\ DOMAIN forget = DOMAIN tasks \ gone
  BY <1>6, <1>7, <1>8 DEF isPlan, SameShape
<1>10. \A t \in DOMAIN forget :
         /\ sameTree(tasks[t], forget[t]) /\ forget[t].hard = tasks[t].hard \ gone
         /\ forget[t].soft = tasks[t].soft \ gone
  BY <1>6, <1>7, <1>8 DEF SameShape, sameShape, sameTree
<1> HIDE DEF forget
<1>11. Sound(recomputeComposite(forget))
  <2>1. \A t \in DOMAIN forget :
           forget[t].hard \subseteq tasks[t].hard /\ forget[t].hard \cup forget[t].soft \subseteq DOMAIN forget
    BY <1>2, <1>9, <1>10 DEF Edges
  <2>2. \A t \in DOMAIN forget \ {Root} : tasks[t].parent \in DOMAIN forget
    BY <1>4, <1>9
  <2> QED BY <1>2, <1>9, <1>10, <2>1, <2>2, KeepSound
<1>12. DOMAIN tasks' = DOMAIN tasks \ gone
  BY <1>1, <1>9 DEF recomputeComposite
<1>13. DOMAIN tasks' \cap DOMAIN archived' = {}
  BY <1>1, <1>2, <1>12 DEF Keep
<1>14. Root \in DOMAIN tasks' \/ (DOMAIN tasks' = {} /\ Root \in deleted')
  BY <1>1, <1>5, <1>12 DEF LoadIInv
<1> QED BY <1>1, <1>11, <1>13, <1>14 DEF LoadIInv

-----------------------------------------------------------------------------
(* Rows join: what climbing the parents of a batch's task meets.            *)

\* The members of its batch above s, and the stored parents climbed to.
inBatch(specs, s) ==
  LET batch == DOMAIN specs
  IN {x \in batch : \A X \in SUBSET batch :
        (\A y \in X \cup {s} : specs[y].parent \in batch => specs[y].parent \in X) => x \in X}
landings(specs, s) == {specs[x].parent : x \in inBatch(specs, s) \cup {s}} \ DOMAIN specs

\* The climb of a row of a batch: what is above it in the batch, and the lines
\* of the rows it lands on.
LEMMA Climbs ==
  ASSUME NEW specs, NEW s
  PROVE  climb(specs, s) = inBatch(specs, s) \cup UNION {Lineage(tasks, p) : p \in landings(specs, s)}
BY DEF climb, inBatch, landings

\* inBatch is closed under parents, and the least such set.
LEMMA InBatchClosed ==
  ASSUME NEW specs, NEW s
  PROVE  /\ inBatch(specs, s) \subseteq DOMAIN specs
         /\ \A y \in inBatch(specs, s) \cup {s} :
              specs[y].parent \in DOMAIN specs => specs[y].parent \in inBatch(specs, s)
BY DEF inBatch

\* inBatch is within every set of the batch's rows closed under parents.
LEMMA InBatchLeast ==
  ASSUME NEW specs, NEW s, NEW X \in SUBSET DOMAIN specs,
         \A y \in X \cup {s} : specs[y].parent \in DOMAIN specs => specs[y].parent \in X
  PROVE  inBatch(specs, s) \subseteq X
BY DEF inBatch

\* A line climbed through the batch: the parent and the parent's line.
LEMMA ClimbParent ==
  ASSUME NEW specs, NEW s \in DOMAIN specs
  PROVE  LET p == specs[s].parent
         IN  climb(specs, s) = IF p \in DOMAIN specs THEN {p} \cup climb(specs, p)
                               ELSE Lineage(tasks, p)
<1> DEFINE p == specs[s].parent
           B == DOMAIN specs
<1>1. CASE p \in B
  <2>1. inBatch(specs, p) \subseteq inBatch(specs, s)
    BY <1>1, InBatchClosed, InBatchLeast
  <2>2. inBatch(specs, s) \subseteq {p} \cup inBatch(specs, p)
    <3> DEFINE X == {p} \cup inBatch(specs, p)
    <3>1. X \in SUBSET DOMAIN specs
      BY <1>1, InBatchClosed
    <3>2. \A y \in X \cup {s} :
            specs[y].parent \in DOMAIN specs => specs[y].parent \in X
      BY InBatchClosed
    <3> HIDE DEF X
    <3>3. inBatch(specs, s) \subseteq X
      BY <3>1, <3>2, InBatchLeast
    <3> QED BY <3>3 DEF X
  <2>3. p \in inBatch(specs, s)
    BY <1>1, InBatchClosed
  <2>4. inBatch(specs, s) = {p} \cup inBatch(specs, p)
    BY <2>1, <2>2, <2>3
  <2>5. landings(specs, s) = landings(specs, p)
    BY <1>1, <2>4 DEF landings
  <2> QED BY <1>1, <2>4, <2>5, Climbs
<1>2. CASE p \notin B
  <2>1. inBatch(specs, s) \subseteq {}
    <3> DEFINE X == {}
    <3>1. /\ X \in SUBSET DOMAIN specs
          /\ \A y \in X \cup {s} :
               specs[y].parent \in DOMAIN specs => specs[y].parent \in X
      BY <1>2
    <3> HIDE DEF X
    <3>2. inBatch(specs, s) \subseteq X
      BY <3>1, InBatchLeast
    <3> QED BY <3>2 DEF X
  <2>2. landings(specs, s) = {p}
    BY <1>2, <2>1 DEF landings
  <2> QED BY <1>2, <2>1, <2>2, Climbs
<1> QED BY <1>1, <1>2

\* The line of a member of the line is part of the line.
LEMMA ClimbWithin ==
  ASSUME NEW specs, NEW s, NEW a \in inBatch(specs, s)
  PROVE  inBatch(specs, a) \subseteq inBatch(specs, s) /\ climb(specs, a) \subseteq climb(specs, s)
<1>1. inBatch(specs, a) \subseteq inBatch(specs, s)
  BY InBatchClosed, InBatchLeast
<1>2. landings(specs, a) \subseteq landings(specs, s)
  BY <1>1 DEF landings
<1> QED BY <1>1, <1>2, Climbs

\* In a finite batch where no task is above itself every climb leaves the batch.
LEMMA ClimbLands ==
  ASSUME NEW specs, IsFiniteSet(DOMAIN specs), NEW s \in DOMAIN specs,
         \A x \in DOMAIN specs : x \notin climb(specs, x)
  PROVE  landings(specs, s) # {}
<1> SUFFICES ASSUME landings(specs, s) = {} PROVE FALSE
  OBVIOUS
<1> DEFINE I == inBatch(specs, s)
           size == [x \in I |-> Cardinality(inBatch(specs, x))]
           N == {size[x] : x \in I}
<1>1. \A x \in I \cup {s} : specs[x].parent \in I
  BY InBatchClosed DEF landings
<1>2. \A x \in I : IsFiniteSet(inBatch(specs, x)) /\ size[x] \in Nat
  BY InBatchClosed, FS_Subset, FS_CardinalityType
<1>3. N \subseteq Nat /\ N # {}
  BY <1>1, <1>2
<1>4. PICK n \in N : \A m \in N : ~(m < n)
  <2>1. PICK n \in N : \A m \in N : ~(<<m, n>> \in OpToRel(<, Nat))
    BY <1>3, NatLessThanWellFounded, WFMin
  <2>2. \A m \in N : m < n => <<m, n>> \in OpToRel(<, Nat)
    BY <1>3 DEF OpToRel
  <2> QED BY <2>1, <2>2
<1>5. PICK x \in I : n = size[x]
  BY <1>4
<1> DEFINE p == specs[x].parent
<1>6. p \in I /\ p \in inBatch(specs, x)
  BY <1>1, InBatchClosed
<1>7. inBatch(specs, p) \subseteq inBatch(specs, x) /\ p \notin inBatch(specs, p)
  <2>1. p \in DOMAIN specs
    BY <1>6, InBatchClosed
  <2> QED BY <1>6, <2>1, ClimbWithin, Climbs
<1>8. size[p] < size[x]
  <2>1. inBatch(specs, p) # inBatch(specs, x)
    BY <1>6, <1>7
  <2>2. Cardinality(inBatch(specs, p)) < Cardinality(inBatch(specs, x))
    BY <1>2, <1>7, <2>1, FS_Subset, FS_CardinalityType
  <2> QED BY <1>6, <2>2
<1> QED BY <1>4, <1>5, <1>6, <1>8

\* The lines of the tasks there were stand when rows join beside them.
LEMMA GrowLines ==
  ASSUME NEW T, Lines(T), NEW U, DOMAIN T \subseteq DOMAIN U,
         \A t \in DOMAIN T : sameTree(T[t], U[t]),
         \A t \in DOMAIN U \ DOMAIN T : line(U, t)
  PROVE  Lines(U)
<1>1. ASSUME NEW t \in DOMAIN T PROVE line(U, t)
  <2>1. line(T, t) /\ U[t].above = T[t].above /\ U[t].parent = T[t].parent
    BY DEF Lines, sameTree
  <2>2. t # Root => U[t].parent \in DOMAIN U /\ U[t].above = Lineage(U, U[t].parent)
    BY <2>1 DEF line, Lineage, sameTree
  <2>3. \A a \in U[t].above : U[a].above \subseteq U[t].above
    BY <2>1 DEF line, sameTree
  <2>4. ASSUME NEW Y \in SUBSET AllIds, t \in Y,
               \A c \in (Y \cap DOMAIN U) \ {Root} : U[c].parent \in Y
        PROVE  U[t].above \subseteq Y
    <3>1. \A c \in (Y \cap DOMAIN T) \ {Root} : T[c].parent \in Y
      BY <2>4 DEF sameTree
    <3> QED BY <2>1, <2>4, <3>1 DEF line
  <2> QED BY <2>1, <2>2, <2>3, <2>4 DEF line
<1> QED BY <1>1 DEF Lines

\* A batch beside a tree, no task of it above itself, has its lines.
LEMMA BatchLines ==
  ASSUME TypeOK, Lines(tasks), NEW B \in SUBSET (Ids \ DOMAIN tasks), IsFiniteSet(B),
         NEW specs, DOMAIN specs = B, \A b \in B : specs[b].parent \in DOMAIN tasks \cup B,
         NEW U, DOMAIN U = DOMAIN tasks \cup B,
         \A t \in DOMAIN tasks : sameTree(tasks[t], U[t]),
         \A b \in B : U[b].parent = specs[b].parent /\ U[b].above = climb(specs, b),
         \A b \in B : b \notin U[b].above
  PROVE  Lines(U)
<1> USE ConstantsAssumption
<1>1. DOMAIN tasks \subseteq AllIds /\ Root \notin B
  BY DEF TypeOK, isPlan
<1>2. ASSUME NEW b \in B PROVE line(U, b)
  <2> DEFINE p == specs[b].parent
  <2>1. landings(specs, b) \subseteq DOMAIN tasks
    BY InBatchClosed DEF landings
  <2>2. U[b].above = Lineage(U, p)
    <3>1. CASE p \in B
      <4>1. climb(specs, b) = {p} \cup climb(specs, p)
        BY <3>1, ClimbParent
      <4> QED BY <3>1, <4>1 DEF Lineage
    <3>2. CASE p \notin B
      <4>1. p \in DOMAIN tasks /\ climb(specs, b) = Lineage(tasks, p)
        BY <3>2, ClimbParent
      <4> QED BY <4>1 DEF Lineage, sameTree
    <3> QED BY <3>1, <3>2
  <2>3. U[b].above \subseteq DOMAIN U
    BY <2>1, Climbs, InBatchClosed DEF Lines, line, Lineage
  <2>4. Root \in U[b].above
    <3>1. landings(specs, b) # {}
      BY ClimbLands
    <3>2. PICK q \in landings(specs, b) : TRUE
      BY <3>1
    <3>3. Root \in Lineage(tasks, q)
      BY <2>1, <3>2 DEF Lines, line, Lineage
    <3>4. Lineage(tasks, q) \subseteq climb(specs, b)
      BY <3>2, Climbs
    <3> QED BY <3>3, <3>4
  <2>5. ASSUME NEW a \in U[b].above PROVE U[a].above \subseteq U[b].above
    <3>1. CASE a \in inBatch(specs, b)
      BY <3>1, ClimbWithin, InBatchClosed
    <3>2. CASE a \notin inBatch(specs, b)
      <4>1. PICK q \in landings(specs, b) : a \in Lineage(tasks, q)
        BY <2>5, <3>2, Climbs
      <4>2. Lineage(tasks, q) \subseteq climb(specs, b)
        BY Climbs
      <4>3. a \in DOMAIN tasks /\ tasks[a].above \subseteq Lineage(tasks, q)
        BY <2>1, <4>1 DEF Lines, line, Lineage
      <4> QED BY <4>2, <4>3 DEF sameTree
    <3> QED BY <3>1, <3>2
  <2>6. ASSUME NEW Y \in SUBSET AllIds, b \in Y,
               \A c \in (Y \cap DOMAIN U) \ {Root} : U[c].parent \in Y
        PROVE  U[b].above \subseteq Y
    <3>1. \A c \in (Y \cap DOMAIN tasks) \ {Root} : tasks[c].parent \in Y
      BY <2>6 DEF sameTree
    <3>2. \A y \in Y \cap B : specs[y].parent \in Y
      BY <1>1, <2>6
    <3>3. inBatch(specs, b) \subseteq Y \cap B
      <4> DEFINE X == Y \cap B
      <4>1. /\ X \in SUBSET DOMAIN specs
            /\ \A y \in X \cup {b} : specs[y].parent \in DOMAIN specs => specs[y].parent \in X
        BY <2>6, <3>2
      <4> HIDE DEF X
      <4>2. inBatch(specs, b) \subseteq X
        BY <4>1, InBatchLeast
      <4> QED BY <4>2 DEF X
    <3>4. landings(specs, b) \subseteq Y
      BY <2>6, <3>2, <3>3 DEF landings
    <3>5. ASSUME NEW q \in landings(specs, b) PROVE Lineage(tasks, q) \subseteq Y
      BY <2>1, <3>1, <3>4 DEF Lines, line, Lineage
    <3> QED BY <3>3, <3>5, Climbs
  <2> QED BY <1>1, <2>2, <2>3, <2>4, <2>5, <2>6 DEF line
<1>3. \A t \in DOMAIN U \ DOMAIN tasks : line(U, t)
  BY <1>2
<1> QED BY <1>3, GrowLines

\* An open child of a done parent, in the plan an operation makes of tasks, was
\* open before it.
opensNothing(U) ==
  \A t \in DOMAIN U \ {Root} :
     (~terminal(U[t].status) /\ IsDone(U, U[t].parent)) =>
        t \in DOMAIN tasks /\ ~terminal(tasks[t].status)

\* What an admission puts together before it promotes.
admits(U) ==
  /\ tasks' = promote(U) /\ restUnchanged
  /\ isPlan(U) /\ Sound(U) /\ opensNothing(U)
  /\ Root \in DOMAIN U
  /\ FreshIds => DOMAIN U \cap DOMAIN archived = {}

\* Its rows: the old ones as they were, or moved back to pending by a review,
\* and the new ones pending, nobody's.
oldRow(row, new) ==
  /\ sameTree(row, new) /\ new.hard = row.hard
  /\ new.claimedBy = row.claimedBy /\ new.waiting = row.waiting
freshRow(row, parent, hard) ==
  /\ row.parent = parent /\ row.hard = hard /\ row.status = "pending"
  /\ row.claimedBy = None /\ ~row.waiting
batchRows(U, specs) ==
  /\ DOMAIN U = DOMAIN tasks \cup DOMAIN specs
  /\ \A t \in DOMAIN tasks : oldRow(tasks[t], U[t]) /\ U[t].status = tasks[t].status
  /\ \A b \in DOMAIN specs : freshRow(U[b], specs[b].parent, specs[b].hard)
reviewRows(U, id, parent) ==
  /\ DOMAIN U = DOMAIN tasks \cup {id}
  /\ \A t \in DOMAIN tasks :
       /\ oldRow(tasks[t], U[t])
       /\ U[t].status = IF t \in Lineage(tasks, parent) /\ tasks[t].status = "done"
                        THEN "pending" ELSE tasks[t].status
  /\ freshRow(U[id], parent, {})

\* A batch is admitted under rows that stand open, with edges to older rows or
\* to the batch, and no row of it is above itself.
LEMMA AddManyAdmits ==
  ASSUME TypeOK, LoadIInv, NEW B \in SUBSET (Ids \ DOMAIN tasks), IsFiniteSet(B),
         NEW specs \in Batches(B), AddMany(specs)
  PROVE  \E U : admits(U) /\ batchRows(U, specs)
<1> USE ConstantsAssumption
<1>1. /\ DOMAIN specs = B
      /\ \A b \in B : specs[b].parent \in DOMAIN tasks \cup B
      /\ \A b \in B : specs[b].hard \in SUBSET AllIds /\ specs[b].soft \in SUBSET AllIds
  <2>1. DOMAIN tasks \cup B \subseteq AllIds
    BY DEF TypeOK, isPlan, AllIds
  <2> QED BY <2>1 DEF Batches, Specs
<1> DEFINE known == DOMAIN tasks \cup B
           fresh(t) == newRow(specs[t].parent, climb(specs, t), specs[t].hard, specs[t].soft)
           base(t) == IF t \in B THEN fresh(t) ELSE tasks[t]
           over(t) == \E x \in B : specs[x].parent = t
           row(t) == IF over(t) THEN [base(t) EXCEPT !.composite = TRUE] ELSE base(t)
           U == [t \in known |-> row(t)]
<1>2. /\ tasks' = promote(U) /\ restUnchanged /\ validateGraphs(U)
      /\ FreshIds => B \cap DOMAIN archived = {}
      /\ \A b \in B :
           /\ specs[b].parent \in DOMAIN tasks => ~terminal(tasks[specs[b].parent].status)
           /\ specs[b].hard \cup specs[b].soft \subseteq known \ {b}
      /\ B # {}
  BY <1>1 DEF AddMany
<1>3. known \subseteq AllIds /\ Root \notin B /\ B \cap DOMAIN tasks = {}
  BY DEF TypeOK, isPlan, AllIds
<1>4. ASSUME NEW t \in B
      PROVE  /\ base(t) \in Task /\ base(t).parent = specs[t].parent
             /\ base(t).above = climb(specs, t) /\ base(t).hard = specs[t].hard
             /\ base(t).soft = specs[t].soft /\ base(t).status = "pending"
             /\ base(t).composite = FALSE /\ base(t).claimedBy = None /\ ~base(t).waiting
  <2>1. climb(specs, t) \in SUBSET AllIds
    BY <1>1, <1>3, ClimbType
  <2>2. fresh(t) \in Task
    BY <1>1, <1>3, <2>1, NewRowType
  <2> QED BY <2>2 DEF newRow
<1>5. ASSUME NEW t \in DOMAIN tasks PROVE base(t) = tasks[t] /\ base(t) \in Task
  BY <1>3 DEF TypeOK, isPlan
<1> HIDE DEF base
<1>6. ASSUME NEW t \in known
      PROVE  /\ row(t) \in Task /\ sameTree(base(t), row(t))
             /\ row(t).hard = base(t).hard /\ row(t).soft = base(t).soft
             /\ row(t).status = base(t).status
             /\ row(t).claimedBy = base(t).claimedBy /\ row(t).waiting = base(t).waiting
             /\ row(t).composite <=> base(t).composite \/ over(t)
  <2>1. base(t) \in Task
    BY <1>4, <1>5
  <2> QED BY <2>1 DEF Task, sameTree
<1> HIDE DEF row, over
<1>7. isPlan(U) /\ DOMAIN U = known
  BY <1>3, <1>6 DEF isPlan
<1>8. ASSUME NEW t \in DOMAIN tasks
      PROVE  /\ sameTree(tasks[t], U[t]) /\ U[t].hard = tasks[t].hard
             /\ U[t].soft = tasks[t].soft /\ U[t].status = tasks[t].status
             /\ U[t].claimedBy = tasks[t].claimedBy /\ U[t].waiting = tasks[t].waiting
             /\ U[t].composite <=> tasks[t].composite \/ over(t)
  BY <1>5, <1>6 DEF sameTree
<1>9. ASSUME NEW t \in B
      PROVE  /\ U[t].parent = specs[t].parent /\ U[t].above = climb(specs, t)
             /\ U[t].hard = specs[t].hard /\ U[t].soft = specs[t].soft
             /\ U[t].status = "pending" /\ (U[t].composite <=> over(t))
             /\ U[t].claimedBy = None /\ ~U[t].waiting
  BY <1>4, <1>6 DEF sameTree
<1> HIDE DEF U
<1>10. Lines(tasks) /\ Edges(tasks) /\ Shape(tasks)
  BY DEF LoadIInv, Sound
<1>11. Lines(U)
  <2>1. \A b \in B : b \notin U[b].above
    BY <1>2, <1>7 DEF validateGraphs
  <2>2. \A b \in B : U[b].parent = specs[b].parent /\ U[b].above = climb(specs, b)
    BY <1>9
  <2>3. \A t \in DOMAIN tasks : sameTree(tasks[t], U[t])
    BY <1>8
  <2>4. DOMAIN U = DOMAIN tasks \cup B /\ \A b \in B : specs[b].parent \in DOMAIN tasks \cup B
    BY <1>1, <1>7
  <2> QED BY <1>1, <1>10, <2>1, <2>2, <2>3, <2>4, BatchLines
<1>12. Edges(U)
  <2>1. \A t \in DOMAIN tasks : U[t].hard \cup U[t].soft \subseteq DOMAIN U
    BY <1>7, <1>8, <1>10 DEF Edges
  <2>2. \A t \in B : U[t].hard \cup U[t].soft \subseteq DOMAIN U
    BY <1>2, <1>7, <1>9
  <2> QED BY <1>7, <2>1, <2>2 DEF Edges
<1>13. Shape(U)
  <2>1. ASSUME NEW t \in DOMAIN tasks PROVE U[t].composite <=> Children(U, t) # {}
    <3>1. Children(U, t) = Children(tasks, t) \cup {x \in B : specs[x].parent = t}
      <4>1. \A x \in DOMAIN tasks : U[x].parent = tasks[x].parent
        BY <1>8 DEF sameTree
      <4>2. \A x \in B : U[x].parent = specs[x].parent
        BY <1>9
      <4> QED BY <1>7, <4>1, <4>2 DEF Children
    <3> QED BY <1>8, <1>10, <3>1 DEF Shape, over
  <2>2. ASSUME NEW t \in B PROVE U[t].composite <=> Children(U, t) # {}
    <3>1. \A c \in DOMAIN tasks : tasks[c].parent # t
      BY <1>3, <1>10 DEF Lines, line
    <3>2. Children(U, t) = {x \in B : specs[x].parent = t}
      <4>1. \A x \in DOMAIN tasks : U[x].parent = tasks[x].parent
        BY <1>8 DEF sameTree
      <4>2. \A x \in B : U[x].parent = specs[x].parent
        BY <1>9
      <4> QED BY <1>7, <3>1, <4>1, <4>2 DEF Children
    <3> QED BY <1>9, <3>2 DEF over
  <2> QED BY <1>7, <2>1, <2>2 DEF Shape
<1>14. Root \in DOMAIN U
  BY <1>2, <1>3, <1>7, <1>11, SMTT(30) DEF Lines, line
<1>15. opensNothing(U)
  <2>1. ASSUME NEW t \in B PROVE ~IsDone(U, U[t].parent)
    <3> DEFINE q == specs[t].parent
    <3>1. U[t].parent = q /\ q \in DOMAIN tasks \cup B
      BY <1>1, <1>9
    <3>2. q \in B => U[q].status = "pending"
      BY <1>9
    <3>3. q \in DOMAIN tasks => U[q].status # "done"
      BY <1>2, <1>8 DEF terminal
    <3> QED BY <3>1, <3>2, <3>3 DEF IsDone
  <2>2. ASSUME NEW t \in DOMAIN tasks, ~terminal(U[t].status) PROVE ~terminal(tasks[t].status)
    BY <1>8, <2>2
  <2> QED BY <1>7, <2>1, <2>2 DEF opensNothing
<1>16. FreshIds => DOMAIN U \cap DOMAIN archived = {}
  BY <1>2, <1>7 DEF LoadIInv
<1>17. Sound(U)
  BY <1>2, <1>11, <1>12, <1>13 DEF Sound
<1>18. admits(U)
  BY <1>2, <1>7, <1>14, <1>15, <1>16, <1>17 DEF admits
<1>19. batchRows(U, specs)
  BY <1>1, <1>7, <1>8, <1>9 DEF batchRows, oldRow, freshRow
<1> QED BY <1>18, <1>19

\* A row above some task has a child: else every row but it would be closed
\* under parents.
LEMMA AboveIsParent ==
  ASSUME NEW T, isPlan(T), Lines(T), NEW t \in DOMAIN T, NEW a \in T[t].above
  PROVE  Children(T, a) # {}
<1> USE ConstantsAssumption
<1> SUFFICES ASSUME Children(T, a) = {} PROVE FALSE
  OBVIOUS
<1> DEFINE Y == AllIds \ {a}
<1>1. line(T, t) /\ DOMAIN T \subseteq AllIds
  BY DEF Lines, isPlan
<1>2. Y \in SUBSET AllIds /\ t \in Y
  BY <1>1 DEF line
<1>3. \A c \in (Y \cap DOMAIN T) \ {Root} : T[c].parent \in Y
  BY <1>1 DEF Children, Lines, line
<1>4. a \notin Y
  OBVIOUS
<1> HIDE DEF Y
<1> QED BY <1>1, <1>2, <1>3, <1>4 DEF line

\* A check a review asks for is admitted under its parent (AddReviewCheck).
LEMMA ReviewCheckAdmits ==
  ASSUME TypeOK, LoadIInv, NEW id \in Ids, NEW parent \in DOMAIN tasks,
         AddReviewCheck(id, parent)
  PROVE  \E U : admits(U) /\ reviewRows(U, id, parent)
<1> USE ConstantsAssumption
<1> DEFINE above == Lineage(tasks, parent)
           st(t) == IF tasks[t].status = "done" THEN "pending" ELSE tasks[t].status
           row(t) == IF t = id THEN newRow(parent, above, {}, {})
                     ELSE IF t \notin above THEN tasks[t]
                     ELSE [tasks[t] EXCEPT !.composite = TRUE,
                             !.status = IF @ = "done" THEN "pending" ELSE @]
           U == [t \in DOMAIN tasks \cup {id} |-> row(t)]
<1>1. /\ tasks' = promote(U) /\ restUnchanged /\ validateGraphs(U)
      /\ id \notin DOMAIN tasks
      /\ FreshIds => id \notin DOMAIN archived
  BY DEF AddReviewCheck
<1>2. above \in SUBSET AllIds
  BY DEF Lineage, TypeOK, isPlan, Task
<1>3. /\ row(id) \in Task /\ row(id).parent = parent /\ row(id).above = above
      /\ row(id).hard = {} /\ row(id).soft = {} /\ row(id).composite = FALSE
      /\ row(id).status = "pending" /\ row(id).claimedBy = None /\ ~row(id).waiting
  <2>1. newRow(parent, above, {}, {}) \in Task
    BY <1>2, NewRowType DEF TypeOK, isPlan
  <2> QED BY <2>1 DEF newRow
<1>4. ASSUME NEW t \in DOMAIN tasks
      PROVE  /\ row(t) \in Task /\ sameTree(tasks[t], row(t))
             /\ row(t).hard = tasks[t].hard /\ row(t).soft = tasks[t].soft
             /\ row(t).composite <=> tasks[t].composite \/ t \in above
             /\ row(t).status = IF t \in above THEN st(t) ELSE tasks[t].status
             /\ row(t).claimedBy = tasks[t].claimedBy /\ row(t).waiting = tasks[t].waiting
  <2>1. tasks[t] \in Task /\ st(t) \in Status /\ t # id
    BY <1>1 DEF TypeOK, isPlan, Task, Status
  <2>2. CASE t \notin above
    BY <2>1, <2>2 DEF sameTree
  <2>3. CASE t \in above
    <3>1. row(t) = [[tasks[t] EXCEPT !.composite = TRUE] EXCEPT !.status = st(t)]
      BY <2>1, <2>3 DEF Task
    <3>2. [[tasks[t] EXCEPT !.composite = TRUE] EXCEPT !.status = st(t)] \in Task
      BY <2>1, RowFlags, RowStatus
    <3> HIDE DEF row, st
    <3> QED BY <2>1, <2>3, <3>1, <3>2 DEF Task, sameTree
  <2> QED BY <2>2, <2>3
<1> HIDE DEF row
<1>5. isPlan(U) /\ DOMAIN U = DOMAIN tasks \cup {id}
  BY <1>3, <1>4 DEF isPlan, TypeOK, AllIds
<1>6. /\ \A t \in DOMAIN tasks : U[t] = row(t)
      /\ U[id] = row(id)
  OBVIOUS
<1> HIDE DEF U
<1>7. Lines(tasks) /\ Edges(tasks) /\ Shape(tasks) /\ isPlan(tasks)
  BY DEF LoadIInv, Sound, TypeOK
<1>8. /\ parent \in above /\ above \subseteq DOMAIN tasks /\ Root \in above /\ id # Root
      /\ \A a \in above : tasks[a].above \subseteq above
  BY <1>7 DEF Lines, line, Lineage
<1>9. Lines(U)
  <2>1. \A t \in DOMAIN tasks : sameTree(tasks[t], U[t])
    BY <1>4, <1>6
  <2>2. U[id].above = Lineage(U, parent)
    BY <1>3, <1>6, <2>1 DEF Lineage, sameTree
  <2>3. \A a \in above : U[a].above \subseteq above
    BY <1>8, <2>1 DEF sameTree
  <2>4. ASSUME NEW Y \in SUBSET AllIds, id \in Y,
               \A c \in (Y \cap DOMAIN U) \ {Root} : U[c].parent \in Y
        PROVE  above \subseteq Y
    <3>1. parent \in Y
      BY <1>3, <1>5, <1>6, <1>8, <2>4
    <3>2. \A c \in (Y \cap DOMAIN tasks) \ {Root} : tasks[c].parent \in Y
      BY <1>5, <2>1, <2>4 DEF sameTree
    <3> QED BY <1>7, <3>1, <3>2 DEF Lines, line, Lineage
  <2>5. line(U, id)
    BY <1>1, <1>3, <1>5, <1>6, <1>8, <2>2, <2>3, <2>4 DEF line
  <2> QED BY <1>5, <1>7, <2>1, <2>5, GrowLines
<1>10. Edges(U)
  BY <1>3, <1>4, <1>5, <1>6, <1>7 DEF Edges
<1>11. Shape(U)
  <2>1. ASSUME NEW t \in DOMAIN tasks PROVE U[t].composite <=> Children(U, t) # {}
    <3>1. Children(U, t) = Children(tasks, t) \cup {x \in {id} : parent = t}
      BY <1>3, <1>4, <1>5, <1>6 DEF Children, sameTree
    <3>2. t \in above => t = parent \/ Children(tasks, t) # {}
      BY <1>7, AboveIsParent DEF Lineage
    <3> QED BY <1>4, <1>6, <1>7, <1>8, <3>1, <3>2 DEF Shape
  <2>2. U[id].composite <=> Children(U, id) # {}
    <3>1. \A c \in DOMAIN tasks : tasks[c].parent # id
      BY <1>1, <1>7 DEF Lines, line, AllIds
    <3>2. Children(U, id) = {}
      BY <1>1, <1>3, <1>4, <1>5, <1>6, <3>1 DEF Children, sameTree
    <3> QED BY <1>3, <1>6, <3>2
  <2> QED BY <1>5, <2>1, <2>2 DEF Shape
<1>12. opensNothing(U)
  <2>1. ASSUME NEW t \in DOMAIN U \ {Root}, IsDone(U, U[t].parent)
        PROVE  t \in DOMAIN tasks /\ U[t].status = tasks[t].status
    <3>1. \A a \in above : U[a].status # "done"
      BY <1>4, <1>6, <1>8
    <3>2. U[t].parent \notin above
      BY <2>1, <3>1 DEF IsDone
    <3>3. t # id
      BY <1>3, <1>6, <1>8, <3>2
    <3>4. t \in DOMAIN tasks /\ tasks[t].parent \in tasks[t].above
      BY <1>5, <1>7, <2>1, <3>3 DEF Lines, line, Lineage
    <3>5. t \notin above
      BY <1>4, <1>6, <1>8, <3>2, <3>4 DEF sameTree
    <3> QED BY <1>4, <1>6, <3>4, <3>5
  <2> QED BY <2>1 DEF opensNothing
<1>13. Root \in DOMAIN U
  BY <1>5, <1>8
<1>14. FreshIds => DOMAIN U \cap DOMAIN archived = {}
  BY <1>1, <1>5 DEF LoadIInv
<1>15. Sound(U)
  BY <1>1, <1>9, <1>10, <1>11 DEF Sound
<1>16. admits(U)
  BY <1>1, <1>5, <1>12, <1>13, <1>14, <1>15 DEF admits
<1>17. reviewRows(U, id, parent)
  BY <1>3, <1>4, <1>5, <1>6 DEF reviewRows, oldRow, freshRow
<1> QED BY <1>16, <1>17

\* A task with its edges redrawn inside the plan, and the graph lawful.
LEMMA RewireAdmits ==
  ASSUME TypeOK, LoadIInv, NEW id \in DOMAIN tasks, NEW h \in SUBSET DOMAIN tasks,
         NEW f \in SUBSET DOMAIN tasks, NEW row, row = [tasks[id] EXCEPT !.hard = h, !.soft = f],
         validateGraphs([tasks EXCEPT ![id] = row]), changeTaskAndPromote(id, row),
         restUnchanged
  PROVE  \E U : admits(U)
<1> DEFINE U == [tasks EXCEPT ![id] = row]
<1>1. tasks[id] \in Task /\ DOMAIN tasks \subseteq AllIds
  BY DEF TypeOK, isPlan
<1>2. /\ row \in Task /\ sameTree(tasks[id], row) /\ row.hard = h /\ row.soft = f
      /\ row.composite = tasks[id].composite /\ row.status = tasks[id].status
  BY <1>1 DEF Task, sameTree
<1>3. isPlan(U) /\ DOMAIN U = DOMAIN tasks /\ tasks' = promote(U) /\ validateGraphs(U)
  BY <1>2, ExceptType DEF TypeOK, changeTaskAndPromote
<1>4. \A t \in DOMAIN tasks : U[t] = IF t = id THEN row ELSE tasks[t]
  BY DEF TypeOK, isPlan
<1> HIDE DEF U
<1>5. \A t \in DOMAIN tasks : /\ sameTree(tasks[t], U[t]) /\ U[t].composite = tasks[t].composite
                              /\ U[t].status = tasks[t].status
  BY <1>2, <1>4 DEF sameTree
<1>6. Lines(tasks) /\ Edges(tasks) /\ Shape(tasks)
  BY DEF LoadIInv, Sound
<1>7. Lines(U)
  BY <1>3, <1>5, <1>6, SameLines
<1>8. Edges(U)
  BY <1>2, <1>3, <1>4, <1>6 DEF Edges
<1>9. \A t : Children(U, t) = Children(tasks, t)
  BY <1>3, <1>5 DEF Children, sameTree
<1>10. Shape(U)
  BY <1>3, <1>5, <1>6, <1>9 DEF Shape
<1>11. Sound(U)
  BY <1>3, <1>7, <1>8, <1>10 DEF Sound
<1>12. opensNothing(U)
  BY <1>3, <1>5 DEF opensNothing
<1>13. Root \in DOMAIN U /\ (FreshIds => DOMAIN U \cap DOMAIN archived = {})
  BY <1>3 DEF LoadIInv
<1>14. admits(U)
  BY <1>3, <1>11, <1>12, <1>13 DEF admits
<1> QED BY <1>14

\* Whatever Admit writes is a sound plan over the rows there were and fresh ones.
LEMMA AdmitAdmits ==
  ASSUME TypeOK, LoadIInv, Admit PROVE \E U : admits(U)
<1> USE ConstantsAssumption
<1>1. ASSUME NEW id \in DOMAIN tasks, NEW up \in DOMAIN tasks, NEW hd \in BOOLEAN,
             AddDep(id, up, hd)
      PROVE  \E U : admits(U)
  <2> DEFINE h == IF hd THEN tasks[id].hard \cup {up} ELSE tasks[id].hard
             f == IF hd THEN tasks[id].soft ELSE tasks[id].soft \cup {up}
             row == [tasks[id] EXCEPT !.hard = IF hd THEN @ \cup {up} ELSE @,
                                      !.soft = IF hd THEN @ ELSE @ \cup {up}]
  <2>1. tasks[id] \in Task /\ tasks[id].hard \cup tasks[id].soft \subseteq DOMAIN tasks
    BY DEF TypeOK, isPlan, LoadIInv, Sound, Edges
  <2>2. h \in SUBSET DOMAIN tasks /\ f \in SUBSET DOMAIN tasks
    BY <2>1
  <2>3. row = [tasks[id] EXCEPT !.hard = h, !.soft = f]
    BY <2>1 DEF Task
  <2>4. /\ validateGraphs([tasks EXCEPT ![id] = row])
        /\ changeTaskAndPromote(id, row) /\ restUnchanged
    BY <1>1 DEF AddDep
  <2> HIDE DEF h, f, row
  <2> QED BY <2>2, <2>3, <2>4, RewireAdmits
<1>2. ASSUME NEW id \in DOMAIN tasks, NEW up, RemoveDep(id, up)
      PROVE  \E U : admits(U)
  <2> DEFINE h == tasks[id].hard \ {up}
             f == tasks[id].soft \ {up}
             row == [tasks[id] EXCEPT !.hard = @ \ {up}, !.soft = @ \ {up}]
  <2>1. tasks[id] \in Task /\ tasks[id].hard \cup tasks[id].soft \subseteq DOMAIN tasks
    BY DEF TypeOK, isPlan, LoadIInv, Sound, Edges
  <2>2. h \in SUBSET DOMAIN tasks /\ f \in SUBSET DOMAIN tasks
    BY <2>1
  <2>3. row = [tasks[id] EXCEPT !.hard = h, !.soft = f]
    BY <2>1 DEF Task
  <2>4. /\ validateGraphs([tasks EXCEPT ![id] = row])
        /\ changeTaskAndPromote(id, row) /\ restUnchanged
    BY <1>2 DEF RemoveDep
  <2> HIDE DEF h, f, row
  <2> QED BY <2>2, <2>3, <2>4, RewireAdmits
<1> QED BY <1>1, <1>2, AddManyAdmits, ReviewCheckAdmits DEF Admit

-----------------------------------------------------------------------------
(* promote closes a composite with all that is open beneath it.             *)

\* Two rows above the same task are above one another.
LEMMA LinesAreChains ==
  ASSUME NEW T, isPlan(T), Lines(T), NEW d \in DOMAIN T, NEW t \in T[d].above, NEW a \in T[d].above
  PROVE  a \in Lineage(T, t) \/ t \in T[a].above
<1> DEFINE Y == {x \in DOMAIN T : x \in Lineage(T, t) \/ t \in T[x].above}
<1>1. line(T, d) /\ t \in DOMAIN T /\ DOMAIN T \subseteq AllIds
  BY DEF Lines, line, isPlan
<1>2. Y \in SUBSET AllIds /\ d \in Y
  BY <1>1
<1>3. ASSUME NEW c \in Y \ {Root} PROVE T[c].parent \in Y
  <2>1. /\ line(T, c) /\ T[c].parent \in DOMAIN T /\ T[c].above = Lineage(T, T[c].parent)
    BY DEF Lines, line
  <2>2. CASE c \in Lineage(T, t)
    <3>1. T[c].parent \in T[t].above
      BY <1>1, <2>1, <2>2 DEF Lineage, Lines, line
    <3> QED BY <2>1, <3>1 DEF Lineage
  <2>3. CASE t \in T[c].above
    BY <2>1, <2>3 DEF Lineage
  <2> QED BY <2>2, <2>3
<1>4. \A c \in (Y \cap DOMAIN T) \ {Root} : T[c].parent \in Y
  BY <1>3
<1>5. T[d].above \subseteq Y
  <2> HIDE DEF Y
  <2> QED BY <1>1, <1>2, <1>4 DEF line
<1> QED BY <1>5

\* An open child of a composite that closes closes with it.
LEMMA ChildrenCloseToo ==
  ASSUME NEW T, isPlan(T), Lines(T), NEW t \in Open(T) \ {Root}, T[t].parent \in Closing(T)
  PROVE  t \in Closing(T)
<1> DEFINE p == T[t].parent
<1>1. /\ t \in DOMAIN T /\ p \in DOMAIN T /\ T[t].above = {p} \cup T[p].above
      /\ p \notin T[p].above /\ ~terminal(T[t].status)
      /\ \A a \in T[p].above : T[a].above \subseteq T[p].above
  BY DEF Open, Lines, line, Lineage
<1>2. \A a \in T[t].above : p \notin T[a].above
  BY <1>1
<1>3. t \in OpenBelow(T, p)
  BY <1>1, <1>2 DEF OpenBelow
<1>4. OpenBelow(T, p) \subseteq Closable(T)
  BY DEF Closing
<1>5. ASSUME NEW d \in OpenBelow(T, t) PROVE d \in OpenBelow(T, p)
  <2>1. /\ d \in Open(T) /\ d \in DOMAIN T /\ t \in T[d].above /\ T[d].above \subseteq DOMAIN T
        /\ \A a \in T[d].above : t \in T[a].above => ~terminal(T[a].status)
    BY DEF OpenBelow, Open, Lines, line
  <2>2. p \in T[d].above
    BY <1>1, <2>1 DEF Lines, line
  <2>3. ASSUME NEW a \in T[d].above, p \in T[a].above PROVE ~terminal(T[a].status)
    <3>1. a \in Lineage(T, t) \/ t \in T[a].above
      BY <2>1, LinesAreChains
    <3> QED BY <1>1, <1>2, <2>1, <2>3, <3>1 DEF Lineage
  <2> QED BY <2>1, <2>2, <2>3 DEF OpenBelow
<1> QED BY <1>3, <1>4, <1>5 DEF Closing

\* So promotion leaves no task open beneath one it finishes.
LEMMA PromoteOpensNothing ==
  ASSUME NEW T, isPlan(T), Lines(T), opensNothing(T) PROVE opensNothing(promote(T))
<1>1. ASSUME NEW t \in DOMAIN T \ {Root}, ~terminal(promote(T)[t].status),
             IsDone(promote(T), promote(T)[t].parent)
      PROVE  t \in DOMAIN tasks /\ ~terminal(tasks[t].status)
  <2> DEFINE p == T[t].parent
  <2>1. p \in DOMAIN T /\ promote(T)[p].status = "done"
    BY <1>1, PromoteRow DEF IsDone
  <2>2. t \notin Closing(T) /\ ~terminal(T[t].status)
    BY <1>1, PromoteRow DEF terminal
  <2>3. p \notin Closing(T)
    BY <2>2, ChildrenCloseToo DEF Open
  <2>4. T[p].status = "done"
    BY <2>1, <2>3, PromoteRow
  <2> QED BY <2>1, <2>2, <2>4 DEF opensNothing, IsDone
<1> QED BY <1>1, PromoteType DEF opensNothing

-----------------------------------------------------------------------------
(* The theorems.                                                            *)

\* The first plan is a root alone.
LEMMA LoadStart == PlanInit => LoadIInv
<1> USE ConstantsAssumption
<1> SUFFICES ASSUME PlanInit PROVE LoadIInv
  OBVIOUS
<1>1. /\ DOMAIN tasks = {Root} /\ DOMAIN archived = {} /\ tasks[Root] = rootRow
  BY DEF PlanInit
<1>2. /\ rootRow.parent = None /\ rootRow.above = {} /\ rootRow.hard = {}
      /\ rootRow.soft = {} /\ rootRow.composite = FALSE
  BY DEF rootRow, newRow
<1>3. Children(tasks, Root) = {}
  BY <1>1, <1>2 DEF Children, AllIds
<1>4. Lines(tasks) /\ Edges(tasks) /\ Shape(tasks)
  BY <1>1, <1>2, <1>3 DEF Lines, line, Edges, Shape
<1>5. hardCycles(tasks) = {}
  BY <1>1, <1>2 DEF hardCycles
<1>6. validateGraphs(tasks)
  BY <1>1, <1>2, <1>5 DEF validateGraphs
<1> QED BY <1>1, <1>4, <1>6 DEF LoadIInv, Sound

\* Every step keeps the plan sound and loadable, when ids are fresh.
LEMMA LoadStep ==
  ASSUME FreshIds, TypeOK, LoadIInv, [PlanNext]_planVars PROVE LoadIInv'
<1>1. CASE Admit
  <2>1. PICK U : admits(U)
    BY <1>1, AdmitAdmits
  <2>2. SameShape(U, tasks')
    BY <2>1, PromoteShape DEF admits
  <2>3. Sound(tasks')
    BY <2>1, <2>2, SameSound DEF admits
  <2> QED BY <2>1, <2>2, <2>3 DEF admits, restUnchanged, SameShape, LoadIInv
<1>2. CASE Take \/ Finish \/ EndRun \/ UNCHANGED planVars
  <2>1. SameShape(tasks, tasks')
    BY <1>2, StepShape
  <2>2. Sound(tasks')
    BY <2>1, SameSound DEF LoadIInv
  <2>3. UNCHANGED <<deleted, archived>>
    BY <1>2 DEF Take, Claim, ClaimWake, ClaimNext, Release, Finish, Done, Fail, Wait, Wake,
                Retry, Cancel, hold, EndRun, CompleteRoot, StopRoot, EndRoot, closeRoot,
                restUnchanged, planVars
  <2> QED BY <2>1, <2>2, <2>3 DEF SameShape, LoadIInv
<1>3. CASE TakeOut
  BY <1>3, ArchiveLoads, DeleteLoads DEF TakeOut
<1> QED BY <1>1, <1>2, <1>3 DEF PlanNext

\* The inductive invariant, where nobody mints an id the archive holds.
THEOREM PlanStaysSound == ASSUME FreshIds PROVE PlanSpec => []LoadIInv
<1>1. TypeOK /\ LoadIInv /\ [PlanNext]_planVars => LoadIInv'
  BY LoadStep
<1> QED BY <1>1, LoadStart, TypeCorrect, PTL DEF PlanSpec

\* A plan once committed loads again, whatever was admitted, rewired, ended,
\* archived and deleted, in whatever order: loadState, which every later read and
\* write begins with, never finds it damaged.
THEOREM StoredPlanLoads == ASSUME FreshIds PROVE PlanSpec => []Loadable
<1>1. LoadIInv => Loadable
  BY DEF LoadIInv, Sound, Lines, line, Edges, Shape, Loadable, validateLoadedState
<1> QED BY <1>1, PlanStaysSound, PTL

\* A removal adds no row.
LEMMA TakeOutShrinks == ASSUME TakeOut PROVE DOMAIN tasks' \subseteq DOMAIN tasks
<1>1. \A T, ids : /\ DOMAIN recomputeComposite(T) = DOMAIN T
                  /\ DOMAIN Keep(T, ids) \subseteq DOMAIN T
                  /\ DOMAIN cancelBlockedDependents(T, ids) = DOMAIN T
  BY DEF recomputeComposite, Keep, cancelBlockedDependents, cancelRows
<1>2. ASSUME NEW old, Archive(old) PROVE DOMAIN tasks' \subseteq DOMAIN tasks
  BY <1>1, <1>2 DEF Archive
<1>3. ASSUME NEW id, DeleteSubtree(id) PROVE DOMAIN tasks' \subseteq DOMAIN tasks
  <2> DEFINE gone == doomed(id)
             cut == cancelBlockedDependents(Keep(tasks, gone), gone)
             dropped(t) == [cut[t] EXCEPT !.hard = @ \ gone, !.soft = @ \ gone]
             row(t) == IF cut[t].hard \cap gone # {} /\ ~terminal(cut[t].status)
                       THEN [dropped(t) EXCEPT !.status = "cancelled", !.claimedBy = None]
                       ELSE dropped(t)
             forget == [t \in DOMAIN cut |-> row(t)]
  <2>1. tasks' = recomputeComposite(forget)
    BY <1>3 DEF DeleteSubtree
  <2> HIDE DEF row
  <2>2. DOMAIN forget = DOMAIN cut
    OBVIOUS
  <2> HIDE DEF forget
  <2> QED BY <1>1, <2>1, <2>2
<1> QED BY <1>2, <1>3 DEF TakeOut

\* Nothing opens beneath a finished task: promote finishes a composite only with
\* all that is open under it, a batch is refused under an ended parent, a review
\* check reopens the whole line above it, and only Retry reopens a failed child.
THEOREM FinishedStaysShut == ASSUME FreshIds PROVE PlanSpec => NothingOpensUnderDone
<1>1. ASSUME TypeOK, LoadIInv, [PlanNext]_planVars, NEW t \in DOMAIN tasks' \ {Root},
             ~terminal(tasks'[t].status), IsDone(tasks', tasks'[t].parent)
      PROVE  t \in DOMAIN tasks /\ (terminal(tasks[t].status) => Retry(t))
  <2>1. CASE Admit
    <3>1. PICK U : admits(U)
      BY <1>1, <2>1, AdmitAdmits
    <3>2. opensNothing(tasks')
      BY <3>1, PromoteOpensNothing DEF admits, Sound
    <3> QED BY <1>1, <3>2 DEF opensNothing
  <2>2. CASE ~Admit
    <3>1. DOMAIN tasks' \subseteq DOMAIN tasks
      <4>1. CASE Take \/ Finish \/ EndRun \/ UNCHANGED planVars
        BY <4>1, <1>1, StepShape DEF SameShape
      <4>2. CASE TakeOut
        BY <4>2, TakeOutShrinks
      <4> QED BY <1>1, <2>2, <4>1, <4>2 DEF PlanNext
    <3>2. terminal(tasks[t].status) => mayReopen(t)
      BY <1>1, <3>1, EndingsStep
    <3> QED BY <1>1, <3>1, <3>2 DEF mayReopen
  <2> QED BY <2>1, <2>2
<1> DEFINE shut == \A t \in DOMAIN tasks' \ {Root} :
                     (~terminal(tasks'[t].status) /\ IsDone(tasks', tasks'[t].parent)) =>
                        /\ t \in DOMAIN tasks
                        /\ terminal(tasks[t].status) => Retry(t)
<1>2. TypeOK /\ LoadIInv /\ [PlanNext]_planVars => [shut]_planVars
  BY <1>1
<1> HIDE DEF shut
<1>3. PlanSpec => [][shut]_planVars
  BY <1>2, PlanStaysSound, TypeCorrect, PTL DEF PlanSpec
<1> QED BY <1>3 DEF NothingOpensUnderDone, shut
=============================================================================
