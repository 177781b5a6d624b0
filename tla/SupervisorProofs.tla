--------------------------- MODULE SupervisorProofs ---------------------------
(* Theorems about a run: that it is a caller of the plan store like any other, *)
(* and what holds of its workers, its books and its endings whatever happens.  *)
EXTENDS Supervisor, PlanLoadProofs

(* The return under absorption is typed, and names a task wherever it is used. *)
ReturnOK ==
  /\ ret \in [task : AllIds \cup {None}, kind : Kinds, parent : AllIds \cup {None},
              next : {"complete", "write", "finding"}, news : SUBSET AllIds]
  /\ at \in {"wake", "seat", "land", "review", "write", "finding", "fail"} => ret.task \in AllIds
  /\ then \in {"pass", "absorb", "elapsed", "wall", "drain", "failRoot", "launch"}

(* The run's workers. *)
abroad == {t \in AllIds : out[t] # "none"}

\* Only finitely many are ever out, none before the first launch, and the ways
\* out give up every hold before they wait for the last of them.
WorkersComeHome ==
  /\ IsFiniteSet(abroad)
  /\ at = "start" => abroad = {} /\ cancels = {}
  /\ at \in {"draining", "end", "over"} => cancels = {}
  /\ at \in {"end", "over"} => abroad = {}

\* The pass has judged that there is work to start.
launching == at = "launch" \/ (at = "stale" /\ then = "launch")

\* Every worker out is one the run still holds or one whose context has ended;
\* once a limit is hit there is nothing left to start.
LimitStartsNothing ==
  /\ abroad \subseteq cancels \cup stopped
  /\ at = "land" => out[ret.task] = "none"
  /\ at = "stale" => then \in {"pass", "drain", "failRoot", "launch"}
  /\ ~dispatchedRoot =>
       /\ abroad = {} /\ (launching => limitHit = "")
       /\ at \in {"start", "stale", "pass", "absorb", "launch", "failRoot",
                  "drain", "draining", "end", "over"}
  /\ limitHit # "" => /\ at \in {"claim", "waits", "wakes"} => todo = {}
                      /\ at \notin {"wake", "seat"}

-----------------------------------------------------------------------------
(* The run is one more caller of the store.                                 *)

\* What the run and its workers ask of the store, each for a task in its own
\* name; only a worker that is out parks its task, only a review is seated
\* outside the line of its caller, and nothing is ever retried.
ownCall(t) ==
  \/ Claim(t, t) \/ (t # Root /\ ClaimWake(t, t)) \/ Wake(t)
  \/ Done(t, t, TRUE) \/ Fail(t, t)
  \/ (Wait(t, t) /\ out[t] = "busy" /\ "park" \in World)
endsRoot == \/ at \in {"failRoot", "end"} \/ "stop" \in World
            \/ (at = "complete" /\ Root \notin cancels)
runCall ==
  \/ \E B \in SUBSET (Ids \ DOMAIN tasks) :
       IsFiniteSet(B) /\ Cardinality(B) <= MaxBatch /\ \E specs \in Batches(B) : AddMany(specs)
  \/ at = "review" /\ \E id \in Ids, parent \in DOMAIN tasks : AddReviewCheck(id, parent)
  \/ \E t \in DOMAIN tasks : ownCall(t) \/ \E a \in Agents : Release(t, a)
  \/ EndRun /\ endsRoot
  \/ \E id \in Cancellable \cap DOMAIN tasks : Cancel(id)
  \/ \E id \in Removable : DeleteSubtree(id)

\* An operation the run or a worker makes under the task's own id is one the
\* store takes from its callers: every id is an agent's name, the root's its own.
LEMMA OwnNameCall ==
  ASSUME TypeOK, NEW t, ownCall(t)
  PROVE  PlanNext
<1> USE ConstantsAssumption, RunAssumption
<1>1. t \in DOMAIN tasks
  BY DEF ownCall, Claim, ClaimWake, Wake, Done, mayFinish, Fail, mayFail, Wait
<1>2. t \in Callers /\ (t # Root => t \in Agents)
  BY <1>1 DEF Callers, AllIds, TypeOK, isPlan
<1>3. CASE Claim(t, t) \/ (t # Root /\ ClaimWake(t, t))
  BY <1>1, <1>2, <1>3 DEF PlanNext, Take
<1>4. CASE Wake(t) \/ Done(t, t, TRUE) \/ Fail(t, t) \/ Wait(t, t)
  BY <1>1, <1>2, <1>4 DEF PlanNext, Finish
<1> QED BY <1>3, <1>4 DEF ownCall

\* A task a worker or a finding adds is a batch of one.
LEMMA SingleBatch ==
  ASSUME TypeOK, NEW id \in Ids, NEW parent,
         NEW hard \in SUBSET DOMAIN tasks, NEW soft \in SUBSET DOMAIN tasks,
         hard = {} \/ soft = {},
         hard # {} => (\E up : hard = {up}) /\ "hard" \in EdgeKinds,
         soft # {} => (\E up : soft = {up}) /\ "suggests" \in EdgeKinds,
         NEW specs \in [{id} -> {[parent |-> parent, hard |-> hard, soft |-> soft]}],
         AddMany(specs)
  PROVE  /\ {id} \in SUBSET (Ids \ DOMAIN tasks) /\ IsFiniteSet({id})
         /\ Cardinality({id}) <= MaxBatch /\ specs \in Batches({id})
<1> USE ConstantsAssumption, RunAssumption
<1> DEFINE spec == [parent |-> parent, hard |-> hard, soft |-> soft]
<1>1. /\ DOMAIN specs = {id} /\ specs[id] = spec
      /\ spec.parent = parent /\ spec.hard = hard /\ spec.soft = soft
  OBVIOUS
<1>2. id \notin DOMAIN tasks /\ parent \in DOMAIN tasks \cup {id}
  <2> HIDE DEF spec
  <2> QED BY <1>1 DEF AddMany
<1>3. Cardinality({id}) = 1 /\ Cardinality(hard \cup soft) <= MaxEdges
  <2>1. Cardinality({}) = 0 /\ \A u : Cardinality({u}) = 1
    BY FS_EmptySet, FS_Singleton
  <2>2. \/ hard \cup soft = {} \/ \E up : hard \cup soft = {up}
    OBVIOUS
  <2>3. Cardinality(hard \cup soft) \in {0, 1}
    BY <2>1, <2>2
  <2>4. MaxEdges \in Nat /\ MaxEdges >= 1
    OBVIOUS
  <2>5. Cardinality({id}) = 1
    BY <2>1
  <2>6. Cardinality(hard \cup soft) <= MaxEdges
    <3> DEFINE c == Cardinality(hard \cup soft)
    <3> HIDE DEF c
    <3>1. c \in {0, 1} => c <= MaxEdges
      BY <2>4
    <3> QED BY <2>3, <3>1 DEF c
  <2> QED BY <2>5, <2>6
<1>4. spec \in Specs(DOMAIN tasks \cup {id})
  BY <1>2, <1>3 DEF Specs
<1>5. specs \in Batches({id})
  BY <1>1, <1>4 DEF Batches
<1>6. /\ {id} \in SUBSET (Ids \ DOMAIN tasks)
      /\ Cardinality({id}) <= MaxBatch
      /\ IsFiniteSet({id})
  <2>1. IsFiniteSet({id})
    BY FS_Singleton
  <2> QED BY <1>2, <1>3, <2>1
<1> QED BY <1>5, <1>6

\* So it is a call of the run's.
LEMMA BatchOfOne ==
  ASSUME TypeOK, NEW id \in Ids, NEW parent,
         NEW hard \in SUBSET DOMAIN tasks, NEW soft \in SUBSET DOMAIN tasks,
         hard = {} \/ soft = {},
         hard # {} => (\E up : hard = {up}) /\ "hard" \in EdgeKinds,
         soft # {} => (\E up : soft = {up}) /\ "suggests" \in EdgeKinds,
         NEW specs \in [{id} -> {[parent |-> parent, hard |-> hard, soft |-> soft]}],
         AddMany(specs)
  PROVE  runCall
BY SingleBatch DEF runCall

\* A step of the run makes one call of the store or none.
LEMMA RunStepCalls ==
  ASSUME TypeOK, HeldByAgents, [RunNext]_runVars
  PROVE  runCall \/ UNCHANGED planVars
<1> USE ConstantsAssumption, RunAssumption
<1> DEFINE one == \E t : ownCall(t)
<1>0. one => runCall
  BY DEF runCall, ownCall, Claim, ClaimWake, Wake, Done, mayFinish, Fail, mayFail, Wait
<1> HIDE DEF one
<1>1. ASSUME Pass PROVE runCall \/ UNCHANGED planVars
  <2>1. CASE ReleaseStale
    <3>1. PICK t \in StaleClaims : Release(t, tasks[t].claimedBy)
      BY <2>1 DEF ReleaseStale
    <3>2. t \in DOMAIN tasks /\ tasks[t].claimedBy \in Agents
      BY <3>1 DEF StaleClaims, HeldByAgents
    <3> QED BY <3>1, <3>2 DEF runCall
  <2>2. CASE FailTheRoot
    BY <2>2 DEF FailTheRoot, runCall, EndRun, FailRoot, EndRoot, endsRoot
  <2>3. CASE ClaimReady
    <3>1. one \/ UNCHANGED planVars
      BY <2>3 DEF ClaimReady, one, ownCall
    <3> QED BY <3>1, <1>0
  <2>4. CASE WakeParked
    <3>1. one \/ UNCHANGED planVars
      BY <2>4 DEF WakeParked, one, ownCall
    <3> QED BY <3>1, <1>0
  <2>5. CASE ClearPark
    <3>1. one \/ UNCHANGED planVars
      BY <2>5 DEF ClearPark, one, ownCall
    <3> QED BY <3>1, <1>0
  <2>6. CASE SeatParked
    <3>1. one \/ UNCHANGED planVars
      BY <2>6 DEF SeatParked, one, ownCall
    <3> QED BY <3>1, <1>0
  <2>7. CASE WakeParent
    <3>1. one \/ UNCHANGED planVars
      BY <2>7 DEF WakeParent, one, ownCall
    <3> QED BY <3>1, <1>0
  <2>8. CASE CloseAtCap
    <3>1. one \/ UNCHANGED planVars
      BY <2>8 DEF CloseAtCap, one, ownCall
    <3> QED BY <3>1, <1>0
  <2>9. CASE \/ Begin \/ ReleasedAll \/ PassBegins \/ ReadRoot \/ RootGone \/ LaunchRoot
             \/ ReadFrontier \/ FrontierDone \/ WaitsDone \/ WakesDone
    BY <2>9 DEF Begin, ReleasedAll, PassBegins, letGo, ReadRoot, RootGone, LaunchRoot,
                ReadFrontier, FrontierDone, WaitsDone, WakesDone
  <2> QED BY <1>1, <2>1, <2>2, <2>3, <2>4, <2>5, <2>6, <2>7, <2>8, <2>9 DEF Pass
<1>2. ASSUME Absorb PROVE runCall \/ UNCHANGED planVars
  <2>1. CASE addReviewCheck
    <3>1. \/ UNCHANGED planVars
          \/ \E id \in Minted : AddReviewCheck(id, beside(ret.parent))
      BY <2>1 DEF addReviewCheck
    <3>2. Minted \subseteq Ids
      BY DEF Minted
    <3>3. ASSUME NEW id, NEW p, AddReviewCheck(id, p) PROVE p \in DOMAIN tasks
      BY <3>3 DEF AddReviewCheck
    <3>4. at = "review"
      BY <2>1 DEF addReviewCheck
    <3> QED BY <3>1, <3>2, <3>3, <3>4 DEF runCall
  <2>2. CASE WriteDone \/ WriteFail
    <3>1. one \/ UNCHANGED planVars
      BY <2>2 DEF WriteDone, WriteFail, one, ownCall
    <3> QED BY <3>1, <1>0
  <2>3. CASE RecordFinding
    <3>1. \/ UNCHANGED planVars
          \/ \E id \in Minted, parent \in {beside(tasks[checkOf[ret.task]].parent)} :
               AddMany([x \in {id} |-> [parent |-> parent, hard |-> {}, soft |-> {}]])
      BY <2>3 DEF RecordFinding
    <3>2. Minted \subseteq Ids
      BY DEF Minted
    <3>3. ASSUME NEW id \in Minted, NEW parent,
                 AddMany([x \in {id} |-> [parent |-> parent, hard |-> {}, soft |-> {}]])
          PROVE  runCall
      <4> DEFINE specs == [x \in {id} |-> [parent |-> parent, hard |-> {}, soft |-> {}]]
      <4>1. specs \in [{id} -> {[parent |-> parent, hard |-> {}, soft |-> {}]}]
        OBVIOUS
      <4>2. AddMany(specs)
        BY <3>3
      <4>3. {} \in SUBSET DOMAIN tasks /\ id \in Ids
        BY <3>2
      <4> HIDE DEF specs
      <4> QED BY <4>1, <4>2, <4>3, BatchOfOne
    <3> QED BY <3>1, <3>3
  <2>4. CASE CompleteTree
    <3>1. (CompleteRoot(TRUE) /\ at = "complete" /\ Root \notin cancels) \/ UNCHANGED planVars
      BY <2>4 DEF CompleteTree, rootAwaitingWake
    <3> QED BY <3>1 DEF runCall, EndRun, endsRoot
  <2>5. CASE TakeReturn \/ LandNothing \/ LandRoot \/ LandWell \/ LandBadly
    BY <2>5 DEF TakeReturn, LandNothing, LandRoot, LandWell, LandBadly
  <2> QED BY <1>2, <2>1, <2>2, <2>3, <2>4, <2>5 DEF Absorb
<1>3. ASSUME WaysOut PROVE runCall \/ UNCHANGED planVars
  <2>1. CASE EndRootOn
    BY <2>1 DEF EndRootOn, runCall, EndRun, endsRoot
  <2>2. CASE WaysOut /\ ~EndRootOn
    BY <2>2 DEF WaysOut, Tick, LiveLimit, Elapsed, Wall, AllHome, DrainBegins, letGo, DrainOne, Drained
  <2> QED BY <1>3, <2>1, <2>2
<1>4. ASSUME NEW t \in AllIds, Worker(t) PROVE runCall \/ UNCHANGED planVars
  <2>1. CASE WorkerAdds(t)
    <3>1. PICK id \in Planned, kind \in DepKinds :
            \E up \in IF kind = "free" THEN {None} ELSE DOMAIN tasks \ Lineage(tasks, t) :
               AddMany([x \in {id} |-> [parent |-> t,
                         hard |-> IF kind = "hard" THEN {up} ELSE {},
                         soft |-> IF kind = "suggests" THEN {up} ELSE {}]])
      BY <2>1 DEF WorkerAdds
    <3>2. PICK up \in IF kind = "free" THEN {None} ELSE DOMAIN tasks \ Lineage(tasks, t) :
            AddMany([x \in {id} |-> [parent |-> t,
                      hard |-> IF kind = "hard" THEN {up} ELSE {},
                      soft |-> IF kind = "suggests" THEN {up} ELSE {}]])
      BY <3>1
    <3> DEFINE hard == IF kind = "hard" THEN {up} ELSE {}
               soft == IF kind = "suggests" THEN {up} ELSE {}
    <3>3. id \in Ids /\ (kind # "free" => kind \in EdgeKinds /\ up \in DOMAIN tasks)
      BY <3>1, <3>2
    <3>4. /\ hard \in SUBSET DOMAIN tasks /\ soft \in SUBSET DOMAIN tasks
          /\ hard = {} \/ soft = {}
          /\ hard # {} => (\E u : hard = {u}) /\ "hard" \in EdgeKinds
          /\ soft # {} => (\E u : soft = {u}) /\ "suggests" \in EdgeKinds
      BY <3>3
    <3> DEFINE specs == [x \in {id} |-> [parent |-> t, hard |-> hard, soft |-> soft]]
    <3>5. AddMany(specs)
      BY <3>2
    <3>6. specs \in [{id} -> {[parent |-> t, hard |-> hard, soft |-> soft]}]
      OBVIOUS
    <3> HIDE DEF hard, soft, specs
    <3> QED BY <3>3, <3>4, <3>5, <3>6, BatchOfOne
  <2>2. CASE WorkerDone(t) \/ WorkerWaits(t)
    <3>1. one
      BY <2>2 DEF WorkerDone, WorkerWaits, one, ownCall
    <3> QED BY <3>1, <1>0
  <2>3. CASE WorkerReturns(t)
    BY <2>3 DEF WorkerReturns
  <2> QED BY <1>4, <2>1, <2>2, <2>3 DEF Worker
<1>5. ASSUME Befalls PROVE runCall \/ UNCHANGED planVars
  <2>1. CASE PersonCancels
    <3>1. PICK id \in Cancellable : Cancel(id)
      BY <2>1 DEF PersonCancels
    <3>2. id \in DOMAIN tasks
      BY <3>1 DEF Cancel
    <3> QED BY <3>1, <3>2 DEF runCall
  <2>2. CASE PersonStops
    BY <2>2 DEF PersonStops, runCall, EndRun, endsRoot
  <2>3. CASE PersonDeletes
    BY <2>3 DEF PersonDeletes, runCall
  <2>4. CASE WallFalls \/ Restart
    BY <2>4 DEF WallFalls, Restart
  <2> QED BY <1>5, <2>1, <2>2, <2>3, <2>4 DEF Befalls
<1>6. CASE Over \/ UNCHANGED runVars
  BY <1>6 DEF Over, runVars
<1> QED BY <1>1, <1>2, <1>3, <1>4, <1>5, <1>6 DEF RunNext, Loop

\* Whatever the run asks, the store takes from its callers.
LEMMA RunStepIsCall ==
  ASSUME TypeOK, HeldByAgents, [RunNext]_runVars PROVE [PlanNext]_planVars
<1>1. runCall => PlanNext
  BY OwnNameCall DEF runCall, PlanNext, Admit, Take, Finish, TakeOut
<1> QED BY <1>1, RunStepCalls

\* The run never writes the plan but through the store's operations, each under
\* a name the store admits: in every run, whatever its workers, the person and
\* the other processes do, the plan is one the store alone could have reached.
THEOREM RunIsACaller == RunSpec => PlanSpec
<1> USE ConstantsAssumption
<1>1. RunInit => PlanInit /\ TypeOK /\ HeldByAgents
  BY TypeStart DEF RunInit, PlanInit, HeldByAgents
<1>2. TypeOK /\ HeldByAgents /\ [PlanNext]_planVars => TypeOK'
  BY TypeStep
<1>3. TypeOK /\ HeldByAgents /\ [PlanNext]_planVars => HeldByAgents'
  BY HeldByAgentsKept
<1>4. TypeOK /\ HeldByAgents /\ [RunNext]_runVars => [PlanNext]_planVars
  BY RunStepIsCall
<1> QED BY <1>1, <1>2, <1>3, <1>4, PTL DEF RunSpec, PlanSpec

-----------------------------------------------------------------------------
(* The run's books.                                                         *)

(* RunTypeOK in its parts. *)
HandsOK ==
  /\ out \in [AllIds -> {"none", "busy"} \cup Kinds]
  /\ cancels \subseteq AllIds /\ stopped \subseteq AllIds
  /\ todo \subseteq AllIds /\ owned \subseteq AllIds
FateOK ==
  /\ wall \in {"", "cancelled", "deadline"} /\ limitHit \in {"", "cost", "time"}
  /\ rootEnd \in {"", "failed", "cut"} /\ dispatchedRoot \in BOOLEAN
  /\ outcome \in {"", "done", "incomplete", "limit", "cannot run"}
NotesOK ==
  /\ wakes \in [AllIds -> Nat] /\ reported \in [AllIds -> SUBSET AllIds]
  /\ DOMAIN checkOf \subseteq Ids /\ checkOf \in [DOMAIN checkOf -> AllIds]
  /\ seat \in [AllIds -> {"work", "check", "fix"}]
  /\ before \in [AllIds -> SUBSET AllIds]
SightOK == isPlan(seen) /\ ReturnOK

\* The type invariant, in parts that different steps disturb.
LEMMA BooksInParts == RunTypeOK /\ ReturnOK <=> HandsOK /\ FateOK /\ NotesOK /\ SightOK
BY DEF RunTypeOK, HandsOK, FateOK, NotesOK, SightOK

\* The words of a run are the words it has.
LEMMA FateStep == ASSUME FateOK, [RunNext]_runVars PROVE FateOK'
<1> USE RunAssumption DEF locals, workers, fate, wakeBook, rows, goTo
<1>1. CASE Begin \/ PassBegins \/ RootGone \/ LaunchRoot
  BY <1>1 DEF FateOK, Begin, reachLimit, PassBegins, letGo, RootGone, LaunchRoot
<1>2. CASE ReadRoot
  BY <1>2 DEF FateOK, ReadRoot, outcomeForRoot
<1>3. ASSUME NEW held, NEW reached, reachLimit("cost", held, reached)
      PROVE  limitHit' \in {"", "cost", "time"}
  BY <1>3 DEF FateOK, reachLimit
<1>4. settle => limitHit' \in {"", "cost", "time"}
  BY <1>3 DEF settle
<1>5. CASE LandNothing \/ LandRoot \/ LandWell \/ LandBadly
  BY <1>4, <1>5 DEF FateOK, LandNothing, LandRoot, LandWell, LandBadly
<1>6. CASE addReviewCheck
  BY <1>6 DEF FateOK, addReviewCheck, failRun
<1>7. CASE LiveLimit \/ DrainOne
  BY <1>3, <1>7 DEF FateOK, LiveLimit, DrainOne
<1>8. CASE Elapsed \/ AllHome
  BY <1>8 DEF FateOK, Elapsed, AllHome
<1>9. CASE WallFalls \/ Restart
  BY <1>9 DEF FateOK, WallFalls, Restart
<1>10. CASE \/ ReleaseStale \/ ReleasedAll \/ FailTheRoot \/ ReadFrontier \/ ClaimReady \/ FrontierDone
            \/ WakeParked \/ ClearPark \/ SeatParked \/ WaitsDone \/ WakeParent \/ CloseAtCap \/ WakesDone
  <2>1. UNCHANGED <<wall, limitHit, rootEnd, dispatchedRoot, outcome>>
    BY <1>10 DEF ReleaseStale, ReleasedAll, FailTheRoot, ReadFrontier, ClaimReady, FrontierDone,
                 WakeParked, ClearPark, SeatParked, WaitsDone, WakeParent, CloseAtCap, WakesDone
  <2> QED BY <2>1 DEF FateOK
<1>11. CASE \/ TakeReturn \/ WriteDone \/ WriteFail \/ RecordFinding \/ CompleteTree
            \/ Tick \/ Wall \/ DrainBegins \/ Drained \/ EndRootOn
  BY <1>11, ZenonT(40) DEF FateOK, TakeReturn, WriteDone, WriteFail, RecordFinding, CompleteTree,
               Tick, Wall, DrainBegins, letGo, Drained, EndRootOn
<1>12. ASSUME NEW t \in AllIds, Worker(t) PROVE FateOK'
  BY <1>12 DEF FateOK, Worker, WorkerAdds, WorkerDone, WorkerWaits, WorkerReturns, loopState
<1>13. CASE PersonCancels \/ PersonStops \/ PersonDeletes \/ Over \/ UNCHANGED runVars
  BY <1>13 DEF FateOK, PersonCancels, PersonStops, PersonDeletes, Over, runVars, loopState
<1> QED BY <1>1, <1>2, <1>5, <1>6, <1>7, <1>8, <1>9, <1>10, <1>11, <1>12, <1>13
           DEF RunNext, Loop, Pass, Absorb, WaysOut, Befalls

\* Workers are of the tasks of the plan.
LEMMA HandsStep ==
  ASSUME TypeOK, TypeOK', HandsOK, SightOK, [RunNext]_runVars PROVE HandsOK'
<1> USE ConstantsAssumption, RunAssumption DEF locals, workers, fate, wakeBook, rows, goTo, Kinds
<1>0. DOMAIN tasks \subseteq AllIds
  BY DEF TypeOK, isPlan
<1> DEFINE hands == out \in [AllIds -> {"none", "busy"} \cup Kinds]
                      /\ cancels \subseteq AllIds /\ stopped \subseteq AllIds
<1>1. ASSUME NEW t, launch(t) PROVE hands'
  <2>1. CASE UNCHANGED workers
    BY <2>1 DEF HandsOK
  <2>2. CASE ~UNCHANGED workers
    <3>1. t \in AllIds
      BY <1>1, <2>2 DEF launch, TypeOK, isPlan
    <3>2. /\ out' = [out EXCEPT ![t] = "busy"] /\ cancels' = cancels \cup {t}
          /\ stopped' \subseteq stopped \cup {t}
      BY <1>1, <2>2 DEF launch
    <3> QED BY <3>1, <3>2 DEF HandsOK
  <2> QED BY <2>1, <2>2
<1>2. ASSUME UNCHANGED workers PROVE hands'
  BY <1>2 DEF HandsOK
<1>3. ASSUME hands', todo' \subseteq AllIds, owned' \subseteq AllIds PROVE HandsOK'
  BY <1>3 DEF HandsOK
<1>4. ASSUME NEW held \in SUBSET AllIds, NEW reached, reachLimit("cost", held, reached)
      PROVE  stopped' \subseteq AllIds
  BY <1>4 DEF reachLimit, HandsOK
<1>5. ASSUME settle PROVE cancels' \subseteq AllIds /\ stopped' \subseteq AllIds
  BY <1>4, <1>5 DEF settle, HandsOK
<1>6. HandsOK => hands /\ todo \subseteq AllIds /\ owned \subseteq AllIds
  BY DEF HandsOK
<1>7. \A t : (TypeOK /\ Claim(t, t)) \/ (TypeOK /\ ClaimWake(t, t)) => t \in AllIds
  BY <1>0 DEF Claim, ClaimWake
<1> HIDE DEF hands
<1>10. CASE PassBegins
  BY <1>10 DEF PassBegins, letGo, HandsOK
<1>11. CASE LaunchRoot
  <2>1. hands' /\ todo' = todo /\ owned' = owned
    BY <1>1, <1>2, <1>11 DEF LaunchRoot
  <2> QED BY <2>1, <1>3, <1>6
<1>12. CASE ClaimReady
  <2>1. hands' /\ todo' \subseteq todo /\ owned' \subseteq AllIds
    BY <1>1, <1>2, <1>6, <1>7, <1>12 DEF ClaimReady
  <2> QED BY <2>1, <1>3, <1>6
<1>13. CASE SeatParked
  <2>1. hands' /\ todo' = todo /\ owned' \subseteq AllIds
    BY <1>1, <1>6, <1>7, <1>13 DEF SeatParked
  <2> QED BY <2>1, <1>3, <1>6
<1>14. CASE WakeParent
  <2>1. hands' /\ todo' \subseteq todo /\ owned' \subseteq AllIds
    BY <1>1, <1>6, <1>7, <1>14 DEF WakeParent
  <2> QED BY <2>1, <1>3, <1>6
<1>15. CASE WakeParked
  <2>1. UNCHANGED workers /\ todo' \subseteq todo /\ owned' \subseteq AllIds
    BY <1>6, <1>7, <1>15 DEF WakeParked
  <2> QED BY <2>1, <1>2, <1>3, <1>6
<1>16. CASE ReadFrontier \/ FrontierDone \/ WaitsDone \/ WakesDone \/ CloseAtCap
  <2>1. UNCHANGED workers /\ todo' \subseteq AllIds /\ owned' = owned
    BY <1>0, <1>6, <1>16 DEF ReadFrontier, FrontierDone, WaitsDone, WakesDone, CloseAtCap, snapshot, Runnable
  <2> QED BY <2>1, <1>2, <1>3, <1>6
<1>17. CASE TakeReturn
  <2>1. /\ out' \in [AllIds -> {"none", "busy"} \cup Kinds]
        /\ stopped' \subseteq stopped /\ UNCHANGED <<cancels, todo, owned>>
    BY <1>17 DEF TakeReturn, HandsOK
  <2> QED BY <2>1 DEF HandsOK
<1>18. CASE LandNothing \/ LandRoot \/ LandWell \/ LandBadly
  <2>1. settle /\ UNCHANGED <<out, todo, owned>>
    BY <1>18 DEF LandNothing, LandRoot, LandWell, LandBadly
  <2> QED BY <2>1, <1>5 DEF HandsOK
<1>19. CASE LiveLimit \/ Elapsed \/ DrainBegins
  <2>1. cancels' \subseteq cancels /\ UNCHANGED <<out, todo, owned>>
    BY <1>19 DEF LiveLimit, Elapsed, DrainBegins, letGo
  <2>2. stopped' \subseteq AllIds
    BY <1>4, <1>19 DEF LiveLimit, Elapsed, DrainBegins, letGo, HandsOK
  <2> QED BY <2>1, <2>2 DEF HandsOK
<1>20. CASE DrainOne
  <2>1. out' \in [AllIds -> {"none", "busy"} \cup Kinds] /\ UNCHANGED <<cancels, todo, owned>>
    BY <1>20 DEF DrainOne, HandsOK
  <2>2. stopped' \subseteq AllIds
    BY <1>4, <1>20 DEF DrainOne
  <2> QED BY <2>1, <2>2 DEF HandsOK
<1>21. ASSUME NEW t \in AllIds, WorkerReturns(t) PROVE HandsOK'
  <2>1. out' \in [AllIds -> {"none", "busy"} \cup Kinds]
        /\ UNCHANGED <<cancels, stopped, todo, owned>>
    BY <1>21 DEF WorkerReturns, HandsOK, loopState
  <2> QED BY <2>1 DEF HandsOK
<1>22. ASSUME NEW t \in AllIds, WorkerAdds(t) \/ WorkerDone(t) \/ WorkerWaits(t) PROVE HandsOK'
  <2>1. UNCHANGED <<workers, todo, owned>>
    BY <1>22 DEF WorkerAdds, WorkerDone, WorkerWaits, loopState
  <2> QED BY <2>1 DEF HandsOK
<1>23. CASE WallFalls
  BY <1>23 DEF WallFalls, HandsOK, busy
<1>24. CASE Restart
  BY <1>24 DEF Restart, HandsOK
<1>27. CASE Begin
  <2>1. UNCHANGED <<out, cancels, todo, owned>> /\ stopped' \in {stopped, stopped \cup {}}
    BY <1>27 DEF Begin, reachLimit
  <2> QED BY <2>1 DEF HandsOK
<1>25. CASE \/ ReleaseStale \/ ReleasedAll \/ ReadRoot \/ RootGone \/ FailTheRoot \/ ClearPark
            \/ addReviewCheck \/ WriteDone \/ WriteFail \/ RecordFinding \/ CompleteTree
  <2>1. UNCHANGED <<workers, todo, owned>>
    BY <1>25 DEF ReleaseStale, ReleasedAll, ReadRoot, RootGone, FailTheRoot, ClearPark,
                 addReviewCheck, WriteDone, WriteFail, RecordFinding, CompleteTree
  <2> QED BY <2>1 DEF HandsOK
<1>26. CASE \/ Tick \/ Wall \/ AllHome \/ Drained \/ EndRootOn
            \/ PersonCancels \/ PersonStops \/ PersonDeletes \/ Over \/ UNCHANGED runVars
  <2>1. UNCHANGED <<workers, todo, owned>>
    BY <1>26 DEF Tick, Wall, AllHome, Drained, EndRootOn, PersonCancels, PersonStops, PersonDeletes,
                 Over, runVars, loopState
  <2> QED BY <2>1 DEF HandsOK
<1> QED BY <1>10, <1>11, <1>12, <1>13, <1>14, <1>15, <1>16, <1>17, <1>18, <1>19, <1>20, <1>21, <1>22,
           <1>23, <1>24, <1>25, <1>26, <1>27 DEF RunNext, Loop, Pass, Absorb, WaysOut, Befalls, Worker

\* What the run writes down of its tasks it writes of tasks.
LEMMA NotesStep ==
  ASSUME HandsOK, SightOK, NotesOK, [RunNext]_runVars PROVE NotesOK'
<1> USE ConstantsAssumption, RunAssumption DEF locals, workers, fate, wakeBook, rows, goTo
<1>1. CASE SeatParked
  <2>1. UNCHANGED <<checkOf, seat, before>>
    BY <1>1 DEF SeatParked
  <2>2. ret.news \subseteq AllIds
    BY DEF SightOK, ReturnOK
  <2>3. /\ wakes' = wakes \/ wakes' = [wakes EXCEPT ![ret.task] = wakes[ret.task] + 1]
        /\ reported' = reported \/ reported' = [reported EXCEPT ![ret.task] = reported[ret.task] \cup ret.news]
    BY <1>1 DEF SeatParked
  <2>4. wakes' \in [AllIds -> Nat]
    BY <2>3 DEF NotesOK
  <2>5. reported' \in [AllIds -> SUBSET AllIds]
    BY <2>2, <2>3 DEF NotesOK
  <2> QED BY <2>1, <2>4, <2>5 DEF NotesOK
<1>2. CASE WakeParent
  <2>1. UNCHANGED <<checkOf, seat, before>>
    BY <1>2 DEF WakeParent
  <2>2. PICK t \in todo : /\ wakes' = [wakes EXCEPT ![t] = wakes[t] + 1]
                          /\ reported' = [reported EXCEPT ![t] = Children(seen, t)]
    BY <1>2 DEF WakeParent
  <2>3. Children(seen, t) \subseteq AllIds
    BY DEF Children, SightOK, isPlan
  <2>4. wakes' \in [AllIds -> Nat] /\ reported' \in [AllIds -> SUBSET AllIds]
    <3> DEFINE kids == Children(seen, t)
    <3>1. kids \subseteq AllIds /\ reported' = [reported EXCEPT ![t] = kids]
      BY <2>2, <2>3
    <3> HIDE DEF kids
    <3>2. reported' \in [AllIds -> SUBSET AllIds]
      BY <3>1 DEF NotesOK
    <3>3. wakes' \in [AllIds -> Nat]
      <4>1. t \in AllIds /\ wakes \in [AllIds -> Nat]
        BY DEF HandsOK, NotesOK
      <4>2. wakes[t] + 1 \in Nat
        BY <4>1
      <4> QED BY <2>2, <4>1, <4>2
    <3> QED BY <3>2, <3>3
  <2> QED BY <2>1, <2>4 DEF NotesOK
<1>3. CASE addReviewCheck
  <2>1. UNCHANGED <<wakes, reported, before>>
    BY <1>3 DEF addReviewCheck
  <2>2. CASE UNCHANGED <<seat, checkOf>>
    BY <2>1, <2>2 DEF NotesOK
  <2>3. CASE ~UNCHANGED <<seat, checkOf>>
    <3>1. PICK id \in Minted : 
            /\ seat' = [seat EXCEPT ![id] = "check"]
            /\ checkOf' = [c \in DOMAIN checkOf \cup {id} |-> IF c = id THEN ret.task ELSE checkOf[c]]
      BY <1>3, <2>3 DEF addReviewCheck
    <3>2. id \in Ids /\ ret.task \in AllIds
      BY <1>3 DEF Minted, addReviewCheck, SightOK, ReturnOK
    <3>3. seat' \in [AllIds -> {"work", "check", "fix"}]
      BY <3>1 DEF NotesOK
    <3>4. DOMAIN checkOf' \subseteq Ids /\ checkOf' \in [DOMAIN checkOf' -> AllIds]
      BY <3>1, <3>2 DEF NotesOK
    <3> QED BY <2>1, <3>3, <3>4 DEF NotesOK
  <2> QED BY <2>2, <2>3
<1>4. CASE RecordFinding
  <2>1. UNCHANGED <<wakes, reported, before, checkOf>>
    BY <1>4 DEF RecordFinding
  <2>2. seat' = seat \/ \E id : seat' = [seat EXCEPT ![id] = "fix"]
    BY <1>4 DEF RecordFinding
  <2>3. seat' \in [AllIds -> {"work", "check", "fix"}]
    BY <2>2 DEF NotesOK
  <2> QED BY <2>1, <2>3 DEF NotesOK
<1>5. ASSUME NEW t \in AllIds, WorkerWaits(t) PROVE NotesOK'
  <2>1. UNCHANGED <<wakes, reported, seat, checkOf>>
    BY <1>5 DEF WorkerWaits, loopState
  <2>2. before' = [before EXCEPT ![t] = {u \in AllIds : badEnding(tasks, u)}]
    BY <1>5 DEF WorkerWaits
  <2>3. before' \in [AllIds -> SUBSET AllIds]
    BY <2>2 DEF NotesOK
  <2> QED BY <2>1, <2>3 DEF NotesOK
<1>6. CASE Restart
  <2>1. checkOf' = NoPlan /\ UNCHANGED <<seat, before>>
    BY <1>6 DEF Restart
  <2>2. DOMAIN NoPlan \subseteq Ids /\ NoPlan \in [DOMAIN NoPlan -> AllIds]
    BY DEF NoPlan
  <2>3. wakes' \in [AllIds -> Nat] /\ reported' \in [AllIds -> SUBSET AllIds]
    BY <1>6 DEF Restart
  <2> QED BY <2>1, <2>2, <2>3 DEF NotesOK
<1> DEFINE same == UNCHANGED <<wakes, reported, checkOf, seat, before>>
<1>7. ASSUME same PROVE NotesOK'
  BY <1>7 DEF NotesOK
<1>8. CASE \/ Begin \/ ReleaseStale \/ ReleasedAll \/ PassBegins \/ ReadRoot \/ RootGone \/ FailTheRoot
           \/ LaunchRoot \/ ReadFrontier \/ ClaimReady \/ FrontierDone \/ WakeParked \/ ClearPark
           \/ WaitsDone \/ CloseAtCap \/ WakesDone
  <2>1. same
    BY <1>8 DEF Begin, ReleaseStale, ReleasedAll, PassBegins, letGo, ReadRoot, RootGone, FailTheRoot, LaunchRoot,
                ReadFrontier, ClaimReady, FrontierDone, WakeParked, ClearPark, WaitsDone, CloseAtCap,
                WakesDone
  <2> QED BY <2>1, <1>7
<1>9. CASE \/ TakeReturn \/ LandNothing \/ LandRoot \/ LandWell \/ LandBadly \/ WriteDone \/ WriteFail
           \/ CompleteTree \/ WaysOut
  <2>1. same
    BY <1>9 DEF TakeReturn, LandNothing, LandRoot, LandWell, LandBadly, WriteDone, WriteFail, CompleteTree,
                WaysOut, Tick, LiveLimit, Elapsed, Wall, AllHome, DrainBegins, letGo, DrainOne, Drained, EndRootOn
  <2> QED BY <2>1, <1>7
<1>10. ASSUME NEW t \in AllIds, WorkerAdds(t) \/ WorkerDone(t) \/ WorkerReturns(t) PROVE NotesOK'
  <2>1. same
    BY <1>10 DEF WorkerAdds, WorkerDone, WorkerReturns, loopState
  <2> QED BY <2>1, <1>7
<1>11. CASE WallFalls \/ PersonCancels \/ PersonStops \/ PersonDeletes \/ Over \/ UNCHANGED runVars
  <2>1. same
    BY <1>11 DEF WallFalls, PersonCancels, PersonStops, PersonDeletes, Over, runVars, loopState
  <2> QED BY <2>1, <1>7
<1> QED BY <1>1, <1>2, <1>3, <1>4, <1>5, <1>6, <1>8, <1>9, <1>10, <1>11
           DEF RunNext, Loop, Pass, Absorb, Befalls, Worker

\* A sweep reads a plan, and an absorption has a return of a task of the plan.
LEMMA SightStep ==
  ASSUME TypeOK, HandsOK, SightOK, [RunNext]_runVars PROVE SightOK'
<1> USE ConstantsAssumption, RunAssumption DEF locals, workers, fate, wakeBook, rows, goTo
<1> DEFINE named == at \in {"wake", "seat", "land", "review", "write", "finding", "fail"}
           Return == [task : AllIds \cup {None}, kind : Kinds, parent : AllIds \cup {None},
                      next : {"complete", "write", "finding"}, news : SUBSET AllIds]
           Next == {"pass", "absorb", "elapsed", "wall", "drain", "failRoot", "launch"}
<1>0. /\ isPlan(seen) /\ ret \in Return /\ (named => ret.task \in AllIds) /\ then \in Next
      /\ isPlan(tasks) /\ isPlan(NoPlan) /\ NoReturn \in Return
  BY DEF SightOK, ReturnOK, TypeOK, isPlan, NoPlan, NoReturn, Kinds
<1>1. ASSUME isPlan(seen'), ret' \in Return, named' => ret'.task \in AllIds, then' \in Next
      PROVE  SightOK'
  BY <1>1 DEF SightOK, ReturnOK
<1>2. CASE WakeParked
  <2>1. PICK t \in todo : ret' = [NoReturn EXCEPT !.task = t, !.news = waitMoved(seen, t) \cap Children(seen, t)]
    BY <1>2 DEF WakeParked
  <2>2. t \in AllIds /\ Children(seen, t) \subseteq AllIds
    BY <1>0 DEF HandsOK, Children, isPlan
  <2>3. ret' \in Return /\ ret'.task = t
    BY <1>0, <2>1, <2>2
  <2>4. UNCHANGED <<seen, then>>
    BY <1>2 DEF WakeParked
  <2> QED BY <1>0, <1>1, <2>2, <2>3, <2>4
<1>3. CASE TakeReturn
  <2>1. PICK t \in AllIds : out[t] \in Kinds /\ ret' = [NoReturn EXCEPT !.task = t, !.kind = out[t]]
    BY <1>3 DEF TakeReturn
  <2>2. ret' \in Return /\ ret'.task = t
    BY <1>0, <2>1
  <2>3. UNCHANGED seen /\ then' \in Next
    BY <1>3 DEF TakeReturn
  <2> QED BY <1>0, <1>1, <2>1, <2>2, <2>3
<1>4. CASE LandRoot \/ LandWell
  <2>1. at = "land" /\ ret.task \in DOMAIN tasks /\ UNCHANGED <<seen, then>>
    BY <1>4 DEF LandRoot, LandWell, settle, speaksOver
  <2>2. tasks[ret.task].parent \in AllIds \cup {None}
    BY <2>1, <1>0 DEF isPlan, Task
  <2>3. \/ ret' = ret
        \/ \E n \in {"complete", "write", "finding"} :
              ret' = [ret EXCEPT !.parent = tasks[ret.task].parent, !.next = n]
    BY <1>4 DEF LandRoot, LandWell, reading
  <2>4. ret' \in Return /\ ret'.task = ret.task
    <3> DEFINE up == tasks[ret.task].parent
    <3>1. ASSUME NEW n \in {"complete", "write", "finding"}, NEW p \in AllIds \cup {None}
          PROVE  /\ [ret EXCEPT !.parent = p, !.next = n] \in Return
                 /\ [ret EXCEPT !.parent = p, !.next = n].task = ret.task
      BY <1>0
    <3>2. /\ up \in AllIds \cup {None}
          /\ \/ ret' = ret
             \/ \E n \in {"complete", "write", "finding"} :
                   ret' = [ret EXCEPT !.parent = up, !.next = n]
      BY <2>2, <2>3
    <3> HIDE DEF up
    <3>3. CASE ret' = ret
      BY <1>0, <3>3
    <3>4. CASE ret' # ret
      <4>1. PICK n \in {"complete", "write", "finding"} :
              ret' = [ret EXCEPT !.parent = up, !.next = n]
        BY <3>2, <3>4
      <4> HIDE DEF Return
      <4> QED BY <3>1, <3>2, <4>1
    <3> QED BY <3>3, <3>4
  <2> QED BY <1>0, <1>1, <2>1, <2>4
<1>5. CASE CompleteTree \/ WakesDone \/ Restart
  <2>1. ret' = NoReturn /\ seen' \in {seen, NoPlan} /\ then' \in Next /\ ~named'
    BY <1>0, <1>5 DEF CompleteTree, WakesDone, Restart
  <2> QED BY <2>1, <1>0, <1>1
<1>6. CASE FrontierDone \/ WaitsDone
  <2>1. UNCHANGED <<ret, then>> /\ seen' \in {seen, tasks} /\ ~named'
    BY <1>6 DEF FrontierDone, WaitsDone, snapshot
  <2> QED BY <2>1, <1>0, <1>1
<1> DEFINE same == UNCHANGED <<seen, ret>> /\ then' \in Next /\ (named' => named)
<1>7. ASSUME same PROVE SightOK'
  BY <1>7, <1>0, <1>1
<1>8. CASE Begin \/ ReadRoot
  <2>1. UNCHANGED <<seen, ret>> /\ then' \in Next /\ ~named'
    BY <1>0, <1>8 DEF Begin, ReadRoot
  <2> QED BY <2>1, <1>7
<1>9. CASE \/ ReleaseStale \/ ReleasedAll \/ PassBegins \/ RootGone \/ FailTheRoot \/ LaunchRoot
           \/ ReadFrontier \/ ClaimReady \/ ClearPark \/ SeatParked \/ WakeParent \/ CloseAtCap
  <2>1. UNCHANGED <<seen, ret, then>> /\ (named' => named)
    BY <1>0, <1>9 DEF ReleaseStale, ReleasedAll, PassBegins, letGo, RootGone, FailTheRoot, LaunchRoot,
                 ReadFrontier, ClaimReady, ClearPark, SeatParked, WakeParent, CloseAtCap
  <2> QED BY <2>1, <1>0, <1>7
<1>10. CASE LandNothing \/ LandBadly \/ addReviewCheck \/ WriteDone \/ WriteFail \/ RecordFinding
  <2>1. UNCHANGED <<seen, ret, then>>
    BY <1>10 DEF LandNothing, LandBadly, addReviewCheck, WriteDone, WriteFail, RecordFinding
  <2>2. named' => named
    BY <1>0, <1>10 DEF LandNothing, LandBadly, settle, addReviewCheck, WriteDone, WriteFail, RecordFinding
  <2> QED BY <2>1, <2>2, <1>0, <1>7
<1>11. CASE WaysOut
  <2>1. UNCHANGED <<seen, ret, then>> /\ (named' => named)
    BY <1>11 DEF WaysOut, Tick, LiveLimit, Elapsed, Wall, AllHome, DrainBegins, letGo, DrainOne, Drained, EndRootOn
  <2> QED BY <2>1, <1>0, <1>7
<1>12. ASSUME NEW t \in AllIds, Worker(t) PROVE SightOK'
  <2>1. UNCHANGED <<at, seen, ret, then>>
    BY <1>12 DEF Worker, WorkerAdds, WorkerDone, WorkerWaits, WorkerReturns, loopState
  <2> QED BY <2>1, <1>0, <1>7
<1>13. CASE WallFalls \/ PersonCancels \/ PersonStops \/ PersonDeletes \/ Over \/ UNCHANGED runVars
  <2>1. UNCHANGED <<at, seen, ret, then>>
    BY <1>13 DEF WallFalls, PersonCancels, PersonStops, PersonDeletes, Over, runVars, loopState
  <2> QED BY <2>1, <1>0, <1>7
<1> QED BY <1>2, <1>3, <1>4, <1>5, <1>6, <1>8, <1>9, <1>10, <1>11, <1>12, <1>13
           DEF RunNext, Loop, Pass, Absorb, Befalls

\* The four parts together.
LEMMA BooksStep ==
  ASSUME TypeOK, RunTypeOK, ReturnOK, [RunNext]_runVars, TypeOK'
  PROVE  RunTypeOK' /\ ReturnOK'
<1>1. HandsOK /\ FateOK /\ NotesOK /\ SightOK
  BY BooksInParts
<1>2. HandsOK' /\ FateOK' /\ NotesOK' /\ SightOK'
  BY <1>1, HandsStep, FateStep, NotesStep, SightStep
<1> QED BY <1>2 DEF RunTypeOK, HandsOK, FateOK, NotesOK, SightOK

-----------------------------------------------------------------------------
(* Workers.                                                                 *)

outside == at \notin {"start", "draining", "end", "over"}

\* A move of the loop that starts nobody.
LEMMA QuietMove ==
  ASSUME WorkersComeHome, UNCHANGED out, cancels' \subseteq cancels, at' = at \/ outside'
  PROVE  WorkersComeHome'
BY DEF WorkersComeHome, outside, abroad

\* A worker more, or one gone.
LEMMA OneWorker ==
  ASSUME HandsOK, WorkersComeHome, NEW t, NEW v,
         out' = [out EXCEPT ![t] = v], outside'
  PROVE  WorkersComeHome'
<1>1. abroad' \subseteq abroad \cup {t}
  BY DEF abroad, HandsOK
<1>2. IsFiniteSet(abroad \cup {t})
  BY FS_AddElement DEF WorkersComeHome
<1>3. IsFiniteSet(abroad')
  BY <1>1, <1>2, FS_Subset
<1> QED BY <1>3 DEF WorkersComeHome, outside

\* A launch puts one worker to work for the run that is in hand.
LEMMA LaunchOne ==
  ASSUME HandsOK, WorkersComeHome, NEW t, launch(t), outside' PROVE WorkersComeHome'
<1>1. CASE UNCHANGED workers
  BY <1>1, QuietMove DEF workers
<1>2. CASE out' = [out EXCEPT ![t] = "busy"]
  BY <1>2, OneWorker
<1> QED BY <1>1, <1>2 DEF launch

\* Every worker comes home before its run returns.
LEMMA HomeStep ==
  ASSUME HandsOK, SightOK, WorkersComeHome, [RunNext]_runVars PROVE WorkersComeHome'
<1> USE RunAssumption DEF locals, workers, fate, wakeBook, rows, goTo
<1>0. /\ then \in {"pass", "absorb", "elapsed", "wall", "drain", "failRoot", "launch"}
      /\ ret.next \in {"complete", "write", "finding"}
  BY DEF SightOK, ReturnOK
<1>1. CASE Begin
  BY <1>1 DEF Begin, WorkersComeHome, abroad
<1>2. CASE \/ ReleaseStale \/ ReleasedAll \/ PassBegins \/ ReadRoot \/ RootGone \/ FailTheRoot
           \/ ReadFrontier \/ FrontierDone \/ WakeParked \/ ClearPark \/ WaitsDone \/ CloseAtCap \/ WakesDone
  <2>1. UNCHANGED out /\ cancels' \subseteq cancels
    BY <1>2 DEF ReleaseStale, ReleasedAll, PassBegins, letGo, ReadRoot, RootGone, FailTheRoot,
                ReadFrontier, FrontierDone, WakeParked, ClearPark, WaitsDone, CloseAtCap, WakesDone
  <2>2. at' = at \/ outside'
    BY <1>0, <1>2 DEF ReleaseStale, ReleasedAll, PassBegins, letGo, ReadRoot, RootGone, FailTheRoot, outside,
                ReadFrontier, FrontierDone, WakeParked, ClearPark, WaitsDone, CloseAtCap, WakesDone
  <2> QED BY <2>1, <2>2, QuietMove
<1>3. CASE LaunchRoot
  <2>1. outside' /\ (launch(Root) \/ UNCHANGED workers)
    BY <1>3 DEF LaunchRoot, outside
  <2> QED BY <2>1, LaunchOne, QuietMove
<1>4. CASE ClaimReady
  <2>1. outside' /\ ((\E t : launch(t)) \/ UNCHANGED workers)
    BY <1>4 DEF ClaimReady, outside
  <2> QED BY <2>1, LaunchOne, QuietMove
<1>5. CASE SeatParked \/ WakeParent
  <2>1. outside' /\ \E t : launch(t)
    BY <1>5 DEF SeatParked, WakeParent, outside
  <2> QED BY <2>1, LaunchOne
<1>6. CASE TakeReturn
  <2>1. outside' /\ \E t : out' = [out EXCEPT ![t] = "none"]
    BY <1>6 DEF TakeReturn, outside
  <2> QED BY <2>1, OneWorker
<1>7. CASE LandNothing \/ LandRoot \/ LandWell \/ LandBadly
  <2>1. UNCHANGED out /\ settle
    BY <1>7 DEF LandNothing, LandRoot, LandWell, LandBadly
  <2>2. outside'
    BY <1>7 DEF LandNothing, LandRoot, LandWell, LandBadly, outside, reading
  <2>3. cancels' \subseteq cancels
    BY <2>1 DEF settle
  <2> QED BY <2>1, <2>2, <2>3, QuietMove
<1>8. CASE addReviewCheck \/ WriteDone \/ WriteFail \/ RecordFinding \/ CompleteTree
  <2>1. UNCHANGED <<out, cancels>> /\ outside'
    BY <1>0, <1>8 DEF addReviewCheck, WriteDone, WriteFail, RecordFinding, CompleteTree, outside
  <2> QED BY <2>1, QuietMove
<1>9. CASE Tick \/ LiveLimit \/ Elapsed \/ Wall \/ AllHome
  <2>1. UNCHANGED <<out, cancels>> /\ outside'
    BY <1>9 DEF Tick, LiveLimit, Elapsed, Wall, AllHome, outside
  <2> QED BY <2>1, QuietMove
<1>10. CASE DrainBegins
  BY <1>10 DEF DrainBegins, letGo, WorkersComeHome, abroad
<1>11. CASE DrainOne
  <2>1. PICK t : out' = [out EXCEPT ![t] = "none"]
    BY <1>11 DEF DrainOne
  <2>2. at = "draining" /\ UNCHANGED <<at, cancels>>
    BY <1>11 DEF DrainOne
  <2>3. abroad' \subseteq abroad
    BY <2>1 DEF abroad, HandsOK
  <2>4. IsFiniteSet(abroad')
    BY <2>3, FS_Subset DEF WorkersComeHome
  <2> QED BY <2>2, <2>4 DEF WorkersComeHome
<1>12. CASE Drained
  <2>1. abroad = {}
    <3>1. IsFiniteSet(abroad) /\ Cardinality(abroad) = 0
      BY <1>12 DEF Drained, inFlight, abroad, WorkersComeHome
    <3> QED BY <3>1, FS_EmptySet
  <2>2. at = "draining" /\ at' = "end" /\ UNCHANGED <<out, cancels>>
    BY <1>12 DEF Drained
  <2> QED BY <2>1, <2>2 DEF WorkersComeHome, abroad
<1>13. CASE EndRootOn
  BY <1>13 DEF EndRootOn, WorkersComeHome, abroad
<1>14. ASSUME NEW t \in AllIds, WorkerReturns(t) PROVE WorkersComeHome'
  <2>1. UNCHANGED <<at, cancels>> /\ out[t] = "busy" /\ \E v \in Kinds : out' = [out EXCEPT ![t] = v]
    BY <1>14 DEF WorkerReturns, loopState
  <2>2. abroad' = abroad
    BY <2>1 DEF abroad, HandsOK, Kinds
  <2> QED BY <2>1, <2>2 DEF WorkersComeHome
<1>15. ASSUME NEW t \in AllIds, WorkerAdds(t) \/ WorkerDone(t) \/ WorkerWaits(t) PROVE WorkersComeHome'
  <2>1. UNCHANGED <<at, out, cancels>>
    BY <1>15 DEF WorkerAdds, WorkerDone, WorkerWaits, loopState
  <2> QED BY <2>1, QuietMove
<1>16. CASE WallFalls \/ PersonCancels \/ PersonStops \/ PersonDeletes \/ Over \/ UNCHANGED runVars
  <2>1. UNCHANGED <<at, out, cancels>>
    BY <1>16 DEF WallFalls, PersonCancels, PersonStops, PersonDeletes, Over, runVars, loopState
  <2> QED BY <2>1, QuietMove
<1>17. CASE Restart
  <2>1. abroad' = {} /\ cancels' = {} /\ at' = "start"
    BY <1>17 DEF Restart, abroad
  <2> QED BY <2>1, FS_EmptySet DEF WorkersComeHome
<1> QED BY <1>1, <1>2, <1>3, <1>4, <1>5, <1>6, <1>7, <1>8, <1>9, <1>10, <1>11, <1>12, <1>13, <1>14, <1>15,
           <1>16, <1>17 DEF RunNext, Loop, Pass, Absorb, WaysOut, Befalls, Worker

\* What the run's own state keeps, whatever its workers and the world do.
RunIInv == RunTypeOK /\ ReturnOK /\ WorkersComeHome

\* The inductive invariant of a run.  The store's part is a caller's (RunIsACaller).
THEOREM RunInvariant == RunSpec => []RunIInv
<1> USE ConstantsAssumption, RunAssumption
<1>1. RunInit => RunIInv
  <2> SUFFICES ASSUME RunInit PROVE RunIInv
    OBVIOUS
  <2>1. HandsOK /\ FateOK
    BY DEF RunInit, HandsOK, FateOK
  <2>2. NotesOK
    BY DEF RunInit, NotesOK, NoPlan
  <2>3. SightOK
    BY DEF RunInit, SightOK, ReturnOK, isPlan, NoPlan, NoReturn, Kinds
  <2>4. WorkersComeHome
    <3>1. abroad = {} /\ cancels = {} /\ at = "start"
      BY DEF RunInit, abroad
    <3> QED BY <3>1, FS_EmptySet DEF WorkersComeHome
  <2> QED BY <2>1, <2>2, <2>3, <2>4, BooksInParts DEF RunIInv
<1>2. TypeOK /\ TypeOK' /\ RunIInv /\ [RunNext]_runVars => RunIInv'
  BY BooksStep, BooksInParts, HomeStep DEF RunIInv
<1> QED BY <1>1, <1>2, RunIsACaller, TypeCorrect, PTL DEF RunSpec

\* The run's own books hold what they are declared to hold.
THEOREM RunTypeCorrect == RunSpec => []RunTypeOK
<1>1. RunIInv => RunTypeOK
  BY DEF RunIInv
<1> QED BY <1>1, RunInvariant, PTL

\* A run that has answered has no worker out and no return unread: drain waits
\* for exactly the workers the loop counts (inFlight), and no road from drain to
\* the answer starts another.
THEOREM NoWorkerLeft == RunSpec => []NoWorkerOutlivesRun
<1>1. RunIInv => NoWorkerOutlivesRun
  <2> SUFFICES ASSUME RunIInv, at \in {"end", "over"} PROVE inFlight = 0 /\ cancels = {}
    BY DEF NoWorkerOutlivesRun
  <2>1. abroad = {} /\ cancels = {}
    BY DEF RunIInv, WorkersComeHome
  <2> QED BY <2>1, FS_EmptySet DEF inFlight, abroad
<1> QED BY <1>1, RunInvariant, PTL

-----------------------------------------------------------------------------
(* Limits.                                                                  *)

early == {"start", "stale", "pass", "absorb", "launch", "failRoot", "drain", "draining", "end", "over"}

LimitHolds == LimitStartsNothing /\ LimitEndsWork

\* A move that starts nobody, gives up no hold without ending the context it
\* held, reaches no limit and goes to none of the sweeps.
LEMMA LimitQuiet ==
  ASSUME LimitHolds, UNCHANGED <<out, limitHit, dispatchedRoot>>,
         stopped \subseteq stopped', cancels \cup stopped \subseteq cancels' \cup stopped',
         \/ UNCHANGED <<at, then, ret>> /\ todo' \subseteq todo
         \/ at' \notin {"land", "stale", "claim", "waits", "wakes", "wake", "seat"} /\ at \in early /\ at' \in early
         \/ at' \notin {"land", "stale", "claim", "waits", "wakes", "wake", "seat"} /\ at \notin early
         \/ /\ at' \notin {"land", "stale", "wake", "seat"} /\ at \notin early
            /\ limitHit # "" => todo' = {}
         \/ at' = "stale" /\ at \in early /\ then' \in {"pass", "drain", "failRoot", "launch"}
         \/ at' \in {"wake", "seat"} /\ limitHit = "" /\ at \notin early,
         at \in early /\ launching' => launching \/ limitHit = "" \/ abroad # {}
  PROVE  LimitHolds'
<1>1. busy' = busy /\ abroad' = abroad
  BY DEF busy, abroad
<1>2. abroad \subseteq cancels' \cup stopped' /\ (limitHit # "" => busy \subseteq stopped')
  BY DEF LimitHolds, LimitStartsNothing, LimitEndsWork
<1>3. (at' = "land" => out'[ret'.task] = "none")
      /\ (at' = "stale" => then' \in {"pass", "drain", "failRoot", "launch"})
  BY DEF LimitHolds, LimitStartsNothing
<1>4. ~dispatchedRoot' => /\ abroad' = {} /\ at' \in early
                          /\ launching' => limitHit' = ""
  BY <1>1 DEF LimitHolds, LimitStartsNothing, early
<1>5. limitHit' # "" => (at' \in {"claim", "waits", "wakes"} => todo' = {}) /\ at' \notin {"wake", "seat"}
  BY DEF LimitHolds, LimitStartsNothing, early
<1> QED BY <1>1, <1>2, <1>3, <1>4, <1>5 DEF LimitHolds, LimitStartsNothing, LimitEndsWork, early

\* A worker launched while no limit is hit.
LEMMA LimitLaunch ==
  ASSUME HandsOK, LimitHolds, NEW t, launch(t), limitHit = "", UNCHANGED limitHit, dispatchedRoot',
         at' \notin {"land", "stale"}
  PROVE  LimitHolds'
<1>1. abroad' \subseteq cancels' \cup stopped'
  <2>1. CASE UNCHANGED workers
    BY <2>1 DEF workers, abroad, LimitHolds, LimitStartsNothing
  <2>2. CASE ~UNCHANGED workers
    <3>1. /\ out' = [out EXCEPT ![t] = "busy"] /\ cancels' = cancels \cup {t}
          /\ stopped \ {t} \subseteq stopped'
      BY <2>2 DEF launch
    <3>2. abroad' \subseteq abroad \cup {t}
      BY <3>1 DEF abroad, HandsOK
    <3> QED BY <3>1, <3>2 DEF LimitHolds, LimitStartsNothing
  <2> QED BY <2>1, <2>2
<1> QED BY <1>1 DEF LimitHolds, LimitStartsNothing, LimitEndsWork

\* The limit is reached, or a return settled, with every hold but that return's.
LEMMA LimitReached ==
  ASSUME LimitHolds, NEW held, NEW name, NEW reached, reachLimit(name, held, reached),
         UNCHANGED <<out, dispatchedRoot>>,
         abroad \subseteq held \cup stopped, held \subseteq cancels',
         at \notin early, at' \notin {"land", "stale", "claim", "waits", "wakes", "wake", "seat"}
  PROVE  LimitHolds'
<1>1. busy' = busy /\ abroad' = abroad
  BY DEF busy, abroad
<1>2. stopped \subseteq stopped' /\ abroad \subseteq cancels' \cup stopped'
  BY DEF reachLimit
<1>3. limitHit' # "" => busy \subseteq stopped'
  BY DEF reachLimit, LimitHolds, LimitEndsWork, busy, abroad
<1>4. dispatchedRoot
  BY DEF LimitHolds, LimitStartsNothing, early
<1> QED BY <1>1, <1>2, <1>3, <1>4 DEF LimitHolds, LimitStartsNothing, LimitEndsWork

\* What is held of a limit is kept by every step of the run.
LEMMA LimitStep ==
  ASSUME HandsOK, SightOK, WorkersComeHome, LimitHolds, [RunNext]_runVars PROVE LimitHolds'
<1> USE RunAssumption DEF locals, workers, fate, wakeBook, rows, goTo
<1>0. /\ then \in {"pass", "absorb", "elapsed", "wall", "drain", "failRoot", "launch"}
      /\ ret.next \in {"complete", "write", "finding"}
      /\ at = "stale" => then \in {"pass", "drain", "failRoot", "launch"}
      /\ limitHit # "" => /\ at \in {"claim", "waits", "wakes"} => todo = {}
                          /\ at \notin {"wake", "seat"}
  BY DEF SightOK, ReturnOK, LimitHolds, LimitStartsNothing
<1>20. CASE Begin
  <2>1. abroad = {} /\ UNCHANGED <<out, cancels, dispatchedRoot>> /\ at = "start"
    BY <1>20 DEF Begin, WorkersComeHome
  <2>2. at' = "over" \/ (at' = "stale" /\ then' = "pass")
    BY <1>20 DEF Begin
  <2>3. abroad' = {} /\ busy' = {}
    BY <2>1 DEF abroad, busy
  <2> QED BY <2>1, <2>2, <2>3 DEF LimitHolds, LimitStartsNothing, LimitEndsWork, launching
<1>1. CASE ReadRoot
  <2>1. UNCHANGED <<workers, limitHit, dispatchedRoot>>
    BY <1>1 DEF ReadRoot
  <2>3. launching' => limitHit = "" \/ abroad # {}
    <3>1. ASSUME launching', abroad = {} PROVE limitHit = ""
      <4>1. inFlight = 0
        BY <3>1, FS_EmptySet DEF inFlight, abroad
      <4> QED BY <1>1, <3>1, <4>1 DEF ReadRoot, launching
    <3> QED BY <3>1
  <2>2. \/ at' = "stale" /\ at \in early /\ then' \in {"pass", "drain", "failRoot", "launch"}
        \/ at' \notin {"land", "stale", "claim", "waits", "wakes", "wake", "seat"} /\ at \in early /\ at' \in early
    BY <1>1 DEF ReadRoot, early
  <2> QED BY <2>1, <2>2, <2>3, LimitQuiet
<1>2. CASE ReleaseStale \/ ReleasedAll \/ PassBegins \/ RootGone \/ FailTheRoot
  <2>1. UNCHANGED <<out, limitHit, dispatchedRoot>> /\ stopped \subseteq stopped'
        /\ cancels \cup stopped \subseteq cancels' \cup stopped'
    BY <1>2 DEF ReleaseStale, ReleasedAll, PassBegins, letGo, RootGone, FailTheRoot
  <2>2. \/ UNCHANGED <<at, then, ret, todo>>
        \/ at' \notin {"land", "stale", "claim", "waits", "wakes", "wake", "seat"} /\ at \in early /\ at' \in early
    BY <1>0, <1>2 DEF ReleaseStale, ReleasedAll, PassBegins, letGo, RootGone, FailTheRoot, early
  <2>3. launching' => launching
    BY <1>2 DEF ReleaseStale, ReleasedAll, PassBegins, letGo, RootGone, FailTheRoot, launching
  <2> QED BY <2>1, <2>2, <2>3, LimitQuiet
<1>3. CASE LaunchRoot
  <2>1. CASE ~dispatchedRoot
    <3>1. abroad = {} /\ limitHit = ""
      BY <1>3, <2>1 DEF LaunchRoot, launching, LimitHolds, LimitStartsNothing
    <3>2. Cardinality({}) = 0
      BY FS_EmptySet
    <3>3. ~full
      <4>1. inFlight = Cardinality(abroad)
        BY DEF inFlight, abroad
      <4>2. inFlight = 0
        BY <3>1, <3>2, <4>1
      <4> QED BY <4>2 DEF full
    <3>4. launch(Root) /\ dispatchedRoot' /\ UNCHANGED limitHit /\ at' = "frontier"
      BY <1>3, <2>1, <3>3 DEF LaunchRoot
    <3> QED BY <3>1, <3>4, LimitLaunch
  <2>2. CASE dispatchedRoot
    <3>1. UNCHANGED <<workers, limitHit, dispatchedRoot>> /\ at' = "frontier"
      BY <1>3, <2>2 DEF LaunchRoot
    <3> QED BY <2>2, <3>1 DEF LimitHolds, LimitStartsNothing, LimitEndsWork, busy, abroad, launching
  <2> QED BY <2>1, <2>2 DEF LimitHolds, LimitStartsNothing
<1>4. CASE ReadFrontier \/ FrontierDone \/ WaitsDone \/ CloseAtCap \/ WakesDone
  <2>1. UNCHANGED <<workers, limitHit, dispatchedRoot>>
    BY <1>4 DEF ReadFrontier, FrontierDone, WaitsDone, CloseAtCap, WakesDone
  <2>2. /\ at' \notin {"land", "stale", "wake", "seat"} /\ at \notin early
        /\ limitHit # "" => todo' = {}
    BY <1>0, <1>4 DEF ReadFrontier, FrontierDone, WaitsDone, CloseAtCap, WakesDone, early
  <2> QED BY <2>1, <2>2, LimitQuiet DEF launching
<1>5. CASE ClaimReady \/ WakeParked \/ WakeParent
  <2>1. \E t \in todo : TRUE
    BY <1>5 DEF ClaimReady, WakeParked, WakeParent
  <2>2. limitHit = "" /\ at \notin early
    BY <1>0, <1>5, <2>1 DEF ClaimReady, WakeParked, WakeParent, early
  <2>3. dispatchedRoot = TRUE
    BY <2>2 DEF LimitHolds, LimitStartsNothing, early
  <2>4. UNCHANGED <<limitHit, dispatchedRoot>> /\ at' \in {"claim", "waits", "wakes", "wake"}
    BY <1>5 DEF ClaimReady, WakeParked, WakeParent
  <2>5. (\E t : launch(t)) \/ UNCHANGED workers
    BY <1>5 DEF ClaimReady, WakeParked, WakeParent
  <2>6. CASE UNCHANGED workers
    BY <2>2, <2>3, <2>4, <2>6 DEF LimitHolds, LimitStartsNothing, LimitEndsWork, busy, abroad, launching
  <2> QED BY <2>2, <2>3, <2>4, <2>5, <2>6, LimitLaunch
<1>6. CASE ClearPark
  <2>1. UNCHANGED <<workers, limitHit, dispatchedRoot>> /\ at = "wake" /\ at' \in {"seat", "waits"}
    BY <1>6 DEF ClearPark
  <2>2. limitHit = ""
    BY <1>0, <2>1
  <2> QED BY <2>1, <2>2, LimitQuiet DEF early, launching
<1>7. CASE SeatParked
  <2>1. UNCHANGED <<limitHit, dispatchedRoot>> /\ at = "seat" /\ at' = "waits" /\ \E t : launch(t)
    BY <1>7 DEF SeatParked
  <2>2. limitHit = "" /\ dispatchedRoot
    BY <1>0, <2>1 DEF LimitHolds, LimitStartsNothing
  <2> QED BY <2>1, <2>2, LimitLaunch
<1>8. CASE TakeReturn
  <2>1. PICK t \in AllIds : /\ out[t] \in Kinds /\ ret' = [NoReturn EXCEPT !.task = t, !.kind = out[t]]
                            /\ out' = [out EXCEPT ![t] = "none"] /\ stopped' = stopped \ {t}
    BY <1>8 DEF TakeReturn
  <2>2. UNCHANGED <<cancels, limitHit, dispatchedRoot>> /\ at' = "land"
    BY <1>8 DEF TakeReturn
  <2>3. ret'.task = t /\ out'[t] = "none" /\ t \in abroad /\ busy' \subseteq busy \ {t} /\ abroad' \subseteq abroad \ {t}
    BY <2>1 DEF NoReturn, abroad, busy, HandsOK, Kinds
  <2>4. dispatchedRoot
    BY <2>3 DEF LimitHolds, LimitStartsNothing
  <2> QED BY <2>1, <2>2, <2>3, <2>4 DEF LimitHolds, LimitStartsNothing, LimitEndsWork
<1>9. CASE LandNothing \/ LandRoot \/ LandWell \/ LandBadly
  <2>1. settle /\ UNCHANGED <<out, dispatchedRoot>> /\ at = "land"
    BY <1>9 DEF LandNothing, LandRoot, LandWell, LandBadly, settle
  <2>2. at' \notin {"land", "stale", "claim", "waits", "wakes", "wake", "seat"}
    BY <1>9 DEF LandNothing, LandRoot, LandWell, LandBadly, reading
  <2> DEFINE held == cancels \ {ret.task}
  <2>3. cancels' = held /\ \E reached \in {FALSE, "limit" \in World} : reachLimit("cost", held, reached)
    BY <2>1 DEF settle
  <2>4. abroad \subseteq held \cup stopped
    BY <2>1 DEF LimitHolds, LimitStartsNothing, abroad
  <2> HIDE DEF held
  <2> QED BY <2>1, <2>2, <2>3, <2>4, LimitReached DEF early
<1>10. CASE addReviewCheck \/ WriteDone \/ WriteFail \/ RecordFinding \/ CompleteTree
  <2>1. UNCHANGED <<workers, limitHit, dispatchedRoot>>
    BY <1>10 DEF addReviewCheck, WriteDone, WriteFail, RecordFinding, CompleteTree
  <2>2. at' \notin {"land", "stale", "claim", "waits", "wakes", "wake", "seat"} /\ at \notin early
    BY <1>0, <1>10 DEF addReviewCheck, WriteDone, WriteFail, RecordFinding, CompleteTree, early
  <2> QED BY <2>1, <2>2, LimitQuiet DEF launching
<1>11. CASE Tick \/ Wall \/ AllHome
  <2>1. UNCHANGED <<workers, limitHit, dispatchedRoot>>
    BY <1>11 DEF Tick, Wall, AllHome
  <2>2. at' \notin {"land", "stale", "claim", "waits", "wakes", "wake", "seat"} /\ at \notin early
    BY <1>11 DEF Tick, Wall, AllHome, early
  <2> QED BY <2>1, <2>2, LimitQuiet DEF launching
<1>12. CASE LiveLimit
  <2>1. reachLimit("cost", cancels, TRUE) /\ UNCHANGED <<out, cancels, dispatchedRoot>>
        /\ at = "select" /\ at' = "pass"
    BY <1>12 DEF LiveLimit
  <2>2. abroad \subseteq cancels \cup stopped
    BY DEF LimitHolds, LimitStartsNothing
  <2> QED BY <2>1, <2>2, LimitReached DEF early
<1>13. CASE Elapsed
  <2>1. stopped' = stopped \cup cancels /\ UNCHANGED <<out, cancels, dispatchedRoot>>
        /\ at = "select" /\ at' = "elapsed"
    BY <1>13 DEF Elapsed
  <2>2. dispatchedRoot
    BY <2>1 DEF LimitHolds, LimitStartsNothing
  <2> QED BY <2>1, <2>2 DEF LimitHolds, LimitStartsNothing, LimitEndsWork, busy, abroad, launching
<1>14. CASE DrainBegins \/ Drained \/ EndRootOn
  <2>1. UNCHANGED <<out, limitHit, dispatchedRoot>> /\ stopped \subseteq stopped'
        /\ cancels \cup stopped \subseteq cancels' \cup stopped'
    BY <1>14 DEF DrainBegins, letGo, Drained, EndRootOn
  <2>2. /\ at' \notin {"land", "stale", "claim", "waits", "wakes", "wake", "seat"} /\ at \in early /\ at' \in early
        /\ at' # "launch"
    BY <1>14 DEF DrainBegins, letGo, Drained, EndRootOn, early
  <2> QED BY <2>1, <2>2, LimitQuiet DEF launching
<1>15. CASE DrainOne
  <2>1. PICK t \in AllIds : out[t] \in Kinds /\ out' = [out EXCEPT ![t] = "none"]
    BY <1>15 DEF DrainOne
  <2>2. at = "draining" /\ UNCHANGED <<at, cancels, dispatchedRoot>> /\ stopped \subseteq stopped'
    BY <1>15 DEF DrainOne, reachLimit
  <2>3. t \in abroad /\ busy' \subseteq busy /\ abroad' \subseteq abroad
    BY <2>1 DEF abroad, busy, HandsOK, Kinds
  <2>4. dispatchedRoot /\ cancels = {}
    BY <2>2, <2>3 DEF LimitHolds, LimitStartsNothing, WorkersComeHome
  <2>5. abroad \subseteq stopped /\ busy \subseteq stopped
    BY <2>4 DEF LimitHolds, LimitStartsNothing, busy, abroad
  <2> QED BY <2>2, <2>3, <2>4, <2>5 DEF LimitHolds, LimitStartsNothing, LimitEndsWork
<1>16. ASSUME NEW t \in AllIds, WorkerReturns(t) PROVE LimitHolds'
  <2>1. UNCHANGED <<at, then, todo, ret, cancels, stopped, limitHit, dispatchedRoot>>
    BY <1>16 DEF WorkerReturns, loopState
  <2>2. out[t] = "busy" /\ \E v \in Kinds : out' = [out EXCEPT ![t] = v]
    BY <1>16 DEF WorkerReturns
  <2>3. t \in abroad /\ busy' \subseteq busy /\ abroad' \subseteq abroad /\ \A u : u # t => out'[u] = out[u]
    BY <2>2 DEF abroad, busy, HandsOK, Kinds
  <2>4. dispatchedRoot
    BY <2>3 DEF LimitHolds, LimitStartsNothing
  <2> QED BY <2>1, <2>2, <2>3, <2>4 DEF LimitHolds, LimitStartsNothing, LimitEndsWork
<1>17. ASSUME NEW t \in AllIds, WorkerAdds(t) \/ WorkerDone(t) \/ WorkerWaits(t) PROVE LimitHolds'
  <2>1. UNCHANGED <<at, then, todo, ret, out, cancels, stopped, limitHit, dispatchedRoot>>
    BY <1>17 DEF WorkerAdds, WorkerDone, WorkerWaits, loopState
  <2> QED BY <2>1, LimitQuiet DEF launching
<1>18. CASE WallFalls \/ PersonCancels \/ PersonStops \/ PersonDeletes \/ Over \/ UNCHANGED runVars
  <2>1. UNCHANGED <<at, then, todo, ret, out, cancels, limitHit, dispatchedRoot>> /\ stopped \subseteq stopped'
    BY <1>18 DEF WallFalls, PersonCancels, PersonStops, PersonDeletes, Over, runVars, loopState
  <2> QED BY <2>1, LimitQuiet DEF launching
<1>19. CASE Restart
  BY <1>19 DEF Restart, LimitHolds, LimitStartsNothing, LimitEndsWork, busy, abroad
<1> QED BY <1>1, <1>2, <1>3, <1>4, <1>5, <1>6, <1>7, <1>8, <1>9, <1>10, <1>11, <1>12, <1>13, <1>14, <1>15,
           <1>16, <1>17, <1>18, <1>19, <1>20 DEF RunNext, Loop, Pass, Absorb, WaysOut, Befalls, Worker

\* Whichever road reaches a limit, a receipt, the live count or the clock, every
\* worker still out has had its context ended: one the run no longer holds was
\* ended when it was let go, and after a limit no sweep starts another.
THEOREM LimitsEndWork == RunSpec => []LimitEndsWork
<1> DEFINE Held == HandsOK /\ SightOK /\ WorkersComeHome
<1>1. RunInit => LimitHolds
  BY DEF RunInit, LimitHolds, LimitStartsNothing, LimitEndsWork, busy, abroad, launching
<1>2. Held /\ LimitHolds /\ [RunNext]_runVars => LimitHolds'
  BY LimitStep
<1>3. RunIInv => Held
  BY BooksInParts DEF RunIInv
<1>4. LimitHolds => LimitEndsWork
  BY DEF LimitHolds
<1> HIDE DEF Held
<1> QED BY <1>1, <1>2, <1>3, <1>4, RunInvariant, PTL DEF RunSpec

\* A task reopened under its own worker may be given a second one, and then the
\* first has had its context ended: whoever is out is held or was called off.
THEOREM WorkersAreCalledOff == RunSpec => OneLiveWorker
<1> DEFINE Held == HandsOK /\ SightOK /\ WorkersComeHome
           called == \A t \in AllIds : (t \notin cancels /\ t \in cancels' /\ out[t] # "none") => t \in stopped
<1>1. RunInit => LimitHolds
  BY DEF RunInit, LimitHolds, LimitStartsNothing, LimitEndsWork, busy, abroad, launching
<1>2. Held /\ LimitHolds /\ [RunNext]_runVars => LimitHolds'
  BY LimitStep
<1>3. RunIInv => Held
  BY BooksInParts DEF RunIInv
<1>4. LimitHolds /\ [RunNext]_runVars => [called]_runVars
  BY DEF LimitHolds, LimitStartsNothing, abroad
<1> HIDE DEF Held, called
<1>5. RunSpec => [][called]_runVars
  BY <1>1, <1>2, <1>3, <1>4, RunInvariant, PTL DEF RunSpec
<1> QED BY <1>5 DEF OneLiveWorker, called

-----------------------------------------------------------------------------
(* The run's own task.                                                      *)

\* completeTree ends the root only when no wake is owed to its worker: every
\* child has landed, so what needsWake still asks is whether one that is work has
\* not been reported, and the composite flag tells truly whether there are any.
THEOREM RootIsIntegrated == ASSUME FreshIds PROVE RunSpec => RootIntegrates
<1> DEFINE whole == (CompleteTree /\ tasks' # tasks) => integrated(Root)
<1>1. ASSUME LoadIInv, RunTypeOK, CompleteTree, tasks' # tasks PROVE integrated(Root)
  <2>1. /\ Root \in Open(tasks) /\ Root \notin cancels /\ ~needsWake(tasks, Root, cancels)
        /\ \A t \in DOMAIN tasks \ {Root} : landed(tasks, t, cancels)
    BY <1>1 DEF CompleteTree, rootAwaitingWake, treeTerminal, Open, planVars
  <2>2. CASE Children(tasks, Root) = {}
    BY <2>2 DEF integrated
  <2>3. CASE Children(tasks, Root) # {} /\ ~(wakes[Root] >= MaxWakes)
    <3>1. Root \in DOMAIN tasks /\ ~terminal(tasks[Root].status)
      BY <2>1 DEF Open
    <3>2. tasks[Root].composite /\ Root \notin Children(tasks, Root)
      BY <1>1, <2>3, <3>1, ConstantsAssumption
         DEF LoadIInv, Sound, Shape, Lines, line, Children, AllIds
    <3>3. childrenAllLanded(tasks, Root, cancels)
      BY <2>1, <2>3, <3>2 DEF childrenAllLanded, Children
    <3>4. wakes[Root] < MaxWakes
      <4>1. wakes[Root] \in Nat
        BY <1>1 DEF RunTypeOK, AllIds
      <4>2. MaxWakes \in Nat
        BY RunAssumption
      <4> QED BY <2>3, <4>1, <4>2
    <3>5. \A c \in Children(tasks, Root) : seat[c] = "check" \/ c \in reported[Root]
      BY <2>1, <3>1, <3>2, <3>3, <3>4 DEF needsWake
    <3> QED BY <3>5 DEF integrated
  <2> QED BY <2>2, <2>3 DEF integrated
<1>2. LoadIInv /\ RunTypeOK /\ [RunNext]_runVars => [whole]_runVars
  BY <1>1
<1> HIDE DEF whole
<1>3. RunSpec => [][whole]_runVars
  BY <1>2, PlanStaysSound, RunIsACaller, RunTypeCorrect, PTL DEF RunSpec
<1> QED BY <1>3 DEF RootIntegrates, whole

\* In a run nothing is hung on the root, and once it is done all its children
\* have ended: then its worker has nothing to wait for, and cannot park it.
RootWhole(T) ==
  Root \in DOMAIN T =>
    /\ T[Root].hard = {} /\ T[Root].soft = {}
    /\ T[Root].status = "done" => \A c \in Children(T, Root) : terminal(T[c].status)
DoneOrGone(T) == Root \in DOMAIN T => T[Root].status = "done"
ShutOrGone(T) == Root \in DOMAIN T => terminal(T[Root].status)

\* A change that adds no row, reopens none, and does not end the root well.
quietRow(row, new) ==
  /\ new.hard \subseteq row.hard /\ new.soft \subseteq row.soft
  /\ new.status = "done" => row.status = "done"
QuietRoot(T, U) ==
  /\ Kept(T, U, {}) /\ DOMAIN U \subseteq DOMAIN T
  /\ Root \in DOMAIN U => quietRow(T[Root], U[Root])

\* Two quiet changes make one.
LEMMA QuietThenQuiet ==
  ASSUME NEW T, NEW U, NEW V, QuietRoot(T, U), QuietRoot(U, V) PROVE QuietRoot(T, V)
BY KeptThenKept DEF QuietRoot, quietRow

\* A quiet change leaves a done root done, and what is under it ended.
LEMMA QuietKeepsRoot ==
  ASSUME NEW T, NEW U, QuietRoot(T, U)
  PROVE  /\ RootWhole(T) => RootWhole(U)
         /\ DoneOrGone(T) => DoneOrGone(U)
         /\ ShutOrGone(T) => ShutOrGone(U)
<1>1. /\ Root \in DOMAIN U => Root \in DOMAIN T /\ quietRow(T[Root], U[Root])
      /\ \A c \in DOMAIN U : c \in DOMAIN T /\ sameTree(T[c], U[c]) /\ settledRow(T[c], U[c])
  BY DEF QuietRoot, Kept
<1> QED BY <1>1 DEF RootWhole, DoneOrGone, ShutOrGone, quietRow, Children, sameTree,
                    settledRow, terminal

\* Promotion is quiet: the root is not the store's to close.
LEMMA PromoteQuiet == ASSUME NEW T, isPlan(T) PROVE QuietRoot(T, promote(T))
<1>1. Root \notin Closing(T)
  BY DEF Closing, Closable
<1>2. Root \in DOMAIN T => quietRow(T[Root], promote(T)[Root])
  BY <1>1, PromoteRow DEF quietRow
<1> QED BY <1>2, PromoteKept, PromoteType DEF QuietRoot

\* So are the cascades.
LEMMA CancelRowsQuiet ==
  ASSUME NEW T, isPlan(T), NEW ids \in SUBSET Open(T) PROVE QuietRoot(T, cancelRows(T, ids))
<1>1. Root \in DOMAIN T => quietRow(T[Root], cancelRows(T, ids)[Root])
  BY DEF isPlan, cancelRows, quietRow, Task
<1> QED BY <1>1, CancelRowsKept, CancelRowsType DEF QuietRoot

\* One row rewritten: what is true of the root before promotion stays true.
LEMMA OneRow ==
  ASSUME TypeOK, NEW id \in DOMAIN tasks, NEW row \in Task,
         changeTask(id, row) \/ changeTaskAndPromote(id, row),
         sameTree(tasks[id], row), row.hard = tasks[id].hard, row.soft = tasks[id].soft
  PROVE  \E T : /\ DOMAIN T = DOMAIN tasks /\ QuietRoot(T, tasks')
                /\ \A t \in DOMAIN T : T[t] = IF t = id THEN row ELSE tasks[t]
<1> DEFINE T == [tasks EXCEPT ![id] = row]
<1>1. isPlan(T) /\ DOMAIN T = DOMAIN tasks
  BY ExceptType DEF TypeOK
<1>2. \A t \in DOMAIN T : T[t] = IF t = id THEN row ELSE tasks[t]
  BY DEF TypeOK, isPlan
<1>3. tasks' = T \/ tasks' = promote(T)
  BY DEF changeTask, changeTaskAndPromote
<1> HIDE DEF T
<1>4. QuietRoot(T, T)
  BY DEF QuietRoot, quietRow, Kept, sameTree, settledRow, heldStatus
<1> QED BY <1>1, <1>2, <1>3, <1>4, PromoteQuiet

\* A row that is not the root's own, or is not ended well, and takes no ending
\* back, is a quiet change.
LEMMA OneRowQuiet ==
  ASSUME TypeOK, NEW id \in DOMAIN tasks, NEW row \in Task,
         changeTask(id, row) \/ changeTaskAndPromote(id, row),
         sameTree(tasks[id], row), row.hard = tasks[id].hard, row.soft = tasks[id].soft,
         settledRow(tasks[id], row), id = Root /\ row.status = "done" => tasks[id].status = "done"
  PROVE  QuietRoot(tasks, tasks')
<1>1. PICK T : /\ DOMAIN T = DOMAIN tasks /\ QuietRoot(T, tasks')
               /\ \A t \in DOMAIN T : T[t] = IF t = id THEN row ELSE tasks[t]
  BY OneRow
<1>2. QuietRoot(tasks, T)
  BY <1>1 DEF QuietRoot, quietRow, Kept, sameTree, settledRow, heldStatus
<1> QED BY <1>1, <1>2, QuietThenQuiet

\* A row that ends well, or that somebody held, takes no child of the root back:
\* the root stays as it was, or is done with its children ended.
LEMMA OneRowWhole ==
  ASSUME TypeOK, NEW id \in DOMAIN tasks, NEW row \in Task,
         changeTask(id, row) \/ changeTaskAndPromote(id, row),
         sameTree(tasks[id], row), row.hard = tasks[id].hard, row.soft = tasks[id].soft,
         row.status = "done" \/ heldStatus(tasks[id].status) \/ id = Root,
         id = Root =>
           \/ row.status = "done"
                /\ (tasks[Root].status = "done"
                      \/ \A c \in Children(tasks, Root) \ {Root} : terminal(tasks[c].status))
           \/ row.status # "done" /\ ~DoneOrGone(tasks),
         RootWhole(tasks)
  PROVE  RootWhole(tasks') /\ (DoneOrGone(tasks) => DoneOrGone(tasks'))
<1>1. PICK T : /\ DOMAIN T = DOMAIN tasks /\ QuietRoot(T, tasks')
               /\ \A t \in DOMAIN T : T[t] = IF t = id THEN row ELSE tasks[t]
  BY OneRow
<1>2. Children(T, Root) = Children(tasks, Root)
  BY <1>1 DEF Children, sameTree
<1>3. /\ RootWhole(T) /\ (DoneOrGone(tasks) => DoneOrGone(T))
  <2>1. CASE id = Root
    BY <1>1, <1>2, <2>1 DEF RootWhole, DoneOrGone, Children, terminal
  <2>2. CASE id # Root
    BY <1>1, <1>2, <2>2 DEF RootWhole, DoneOrGone, Children, terminal, heldStatus
  <2> QED BY <2>1, <2>2
<1> QED BY <1>1, <1>3, QuietKeepsRoot
\* A batch adds nothing under a root that has ended.
LEMMA AddsKeepRoot ==
  ASSUME TypeOK, RootWhole(tasks),
         NEW B \in SUBSET (Ids \ DOMAIN tasks), NEW specs \in Batches(B), AddMany(specs)
  PROVE  RootWhole(tasks') /\ (DoneOrGone(tasks) => DoneOrGone(tasks'))
<1> USE ConstantsAssumption
<1>1. /\ Kept(tasks, tasks', {}) /\ DOMAIN tasks' = DOMAIN tasks \cup B
      /\ \A b \in B : tasks'[b].parent = specs[b].parent
      /\ Root \in DOMAIN tasks =>
           /\ tasks'[Root].hard = tasks[Root].hard /\ tasks'[Root].soft = tasks[Root].soft
           /\ IsDone(tasks', Root) => IsDone(tasks, Root)
  BY AddManyKept
<1>2. Root \notin B /\ DOMAIN specs = B
  BY DEF Batches
<1>3. \A b \in B : specs[b].parent \in DOMAIN tasks => ~terminal(tasks[specs[b].parent].status)
  BY <1>2 DEF AddMany
<1>4. DoneOrGone(tasks) => DoneOrGone(tasks')
  BY <1>1, <1>2 DEF Kept, DoneOrGone, settledRow, terminal
<1>5. ASSUME Root \in DOMAIN tasks, tasks'[Root].status = "done", NEW c \in Children(tasks', Root)
      PROVE  terminal(tasks'[c].status)
  <2>1. tasks[Root].status = "done"
    BY <1>1, <1>5 DEF IsDone
  <2>2. c \notin B /\ c \in DOMAIN tasks
    BY <1>1, <1>3, <1>5, <2>1 DEF Children, terminal
  <2>3. c \in Children(tasks, Root)
    BY <1>1, <1>5, <2>2 DEF Children, Kept, sameTree
  <2>4. terminal(tasks[c].status)
    BY <1>5, <2>1, <2>3 DEF RootWhole
  <2> QED BY <1>1, <2>2, <2>4 DEF Kept, settledRow
<1>6. RootWhole(tasks')
  BY <1>1, <1>2, <1>5 DEF RootWhole
<1> QED BY <1>4, <1>6

\* A review check is seated under the root, whatever its parent, and opens it.
LEMMA ReviewOpensRoot ==
  ASSUME TypeOK, Lines(tasks), RootWhole(tasks), NEW id \in Ids, NEW parent \in DOMAIN tasks,
         AddReviewCheck(id, parent)
  PROVE  RootWhole(tasks')
<1> USE ConstantsAssumption
<1> DEFINE above == Lineage(tasks, parent)
           st(t) == IF tasks[t].status = "done" THEN "pending" ELSE tasks[t].status
           row(t) == IF t = id THEN newRow(parent, above, {}, {})
                     ELSE IF t \notin above THEN tasks[t]
                     ELSE [tasks[t] EXCEPT !.composite = TRUE,
                             !.status = IF @ = "done" THEN "pending" ELSE @]
           seated == [t \in DOMAIN tasks \cup {id} |-> row(t)]
<1>1. above \in SUBSET AllIds /\ Root \in above
  <2>1. parent = Root \/ Root \in tasks[parent].above
    BY DEF Lines, line
  <2> QED BY <2>1 DEF Lineage, TypeOK, isPlan, Task
<1>2. row(id) \in Task
  <2>1. newRow(parent, above, {}, {}) \in Task
    BY <1>1, NewRowType DEF TypeOK, isPlan
  <2> QED BY <2>1
<1>3. ASSUME NEW t \in DOMAIN tasks, t # id
      PROVE  /\ row(t) \in Task /\ row(t).hard = tasks[t].hard /\ row(t).soft = tasks[t].soft
             /\ t \in above => row(t).status # "done"
  <2>1. tasks[t] \in Task /\ st(t) \in Status
    BY DEF TypeOK, isPlan, Task, Status
  <2>2. \/ t \notin above /\ row(t) = tasks[t]
        \/ t \in above /\ row(t) = [[tasks[t] EXCEPT !.composite = TRUE] EXCEPT !.status = st(t)]
    BY <1>3, <2>1 DEF Task
  <2>3. st(t) # "done"
    OBVIOUS
  <2> HIDE DEF row, st
  <2> DEFINE mark == [tasks[t] EXCEPT !.composite = TRUE]
             new == [mark EXCEPT !.status = st(t)]
  <2>4. mark \in Task /\ mark.hard = tasks[t].hard /\ mark.soft = tasks[t].soft
    BY <2>1 DEF Task
  <2>5. \/ t \notin above /\ row(t) = tasks[t]
        \/ t \in above /\ row(t) = new
    BY <2>2
  <2> HIDE DEF mark
  <2>6. new \in Task /\ new.hard = mark.hard /\ new.soft = mark.soft /\ new.status = st(t)
    BY <2>1, <2>4, RowStatus DEF Task
  <2> HIDE DEF new
  <2> QED BY <2>1, <2>3, <2>4, <2>5, <2>6
<1>4. tasks' = promote(seated) /\ Root # id
  BY DEF AddReviewCheck
<1> HIDE DEF row
<1>5. isPlan(seated)
  BY <1>2, <1>3 DEF isPlan, TypeOK, AllIds
<1>6. RootWhole(seated)
  BY <1>1, <1>3, <1>4 DEF RootWhole
<1> HIDE DEF seated
<1> QED BY <1>4, <1>5, <1>6, PromoteQuiet, QuietKeepsRoot

\* What a task's worker or the loop writes of one row.
LEMMA OwnCallsKeepRoot ==
  ASSUME TypeOK, RootWhole(tasks), NEW id \in DOMAIN tasks,
         ownCall(id) \/ \E a \in Agents : Release(id, a)
  PROVE  RootWhole(tasks') /\ (DoneOrGone(tasks) => DoneOrGone(tasks'))
<1> USE ConstantsAssumption
<1> DEFINE old == tasks[id]
           kept == RootWhole(tasks') /\ (DoneOrGone(tasks) => DoneOrGone(tasks'))
<1>1. /\ old \in Task /\ {"pending", "done", "failed"} \subseteq Status
      /\ TRUE \in BOOLEAN /\ \A t \in AllIds : t \in Agents \cup {Root} => t \in Names
  BY DEF TypeOK, isPlan, Status, Names
<1>2. id \in Names
  BY <1>1, RunAssumption DEF TypeOK, isPlan, AllIds, Names
<1>3. QuietRoot(tasks, tasks') => kept
  BY QuietKeepsRoot
<1>4. CASE Claim(id, id) \/ ClaimWake(id, id)
  <2> DEFINE row == claimedRow(old, id)
  <2>1. /\ row \in Task /\ sameTree(old, row) /\ row.hard = old.hard /\ row.soft = old.soft
        /\ row.status = "running"
    BY <1>1, <1>2, ClaimedRow DEF sameTree
  <2>2. changeTask(id, row) /\ old.status = "ready"
    BY <1>4 DEF Claim, ClaimWake
  <2> HIDE DEF row
  <2>3. settledRow(old, row)
    BY <2>1, <2>2 DEF settledRow, terminal, heldStatus
  <2> QED BY <1>3, <2>1, <2>2, <2>3, OneRowQuiet
<1>5. CASE Wake(id)
  <2> DEFINE row == [old EXCEPT !.waiting = FALSE]
  <2>1. row \in Task
    BY <1>1, RowFlags
  <2>2. row.status = old.status /\ sameTree(old, row) /\ row.hard = old.hard /\ row.soft = old.soft
    BY <1>1 DEF Task, sameTree
  <2>3. changeTask(id, row)
    BY <1>5 DEF Wake
  <2> HIDE DEF row
  <2>4. settledRow(old, row)
    BY <2>2 DEF settledRow, heldStatus
  <2> QED BY <1>3, <2>1, <2>2, <2>3, <2>4, OneRowQuiet
<1>6. CASE Fail(id, id)
  <2> DEFINE row == [old EXCEPT !.status = "failed"]
  <2>1. row \in Task
    BY <1>1, RowStatus
  <2>2. row.status = "failed" /\ sameTree(old, row) /\ row.hard = old.hard /\ row.soft = old.soft
    BY <1>1 DEF Task, sameTree
  <2>3. changeTaskAndPromote(id, row) /\ ~terminal(old.status)
    BY <1>6 DEF Fail, mayFail
  <2> HIDE DEF row
  <2>4. settledRow(old, row)
    BY <2>2, <2>3 DEF settledRow
  <2> QED BY <1>3, <2>1, <2>2, <2>3, <2>4, OneRowQuiet
<1>7. CASE Done(id, id, TRUE)
  <2> DEFINE row == [old EXCEPT !.status = "done", !.result = TRUE, !.claimedBy = id]
  <2>1. row \in Task
    BY <1>1, <1>2, RowsOfOperations
  <2>2. row.status = "done" /\ sameTree(old, row) /\ row.hard = old.hard /\ row.soft = old.soft
    BY <1>1 DEF Task, sameTree
  <2>3. changeTaskAndPromote(id, row)
    BY <1>7 DEF Done
  <2>4. id = Root => \/ tasks[Root].status = "done"
                     \/ \A c \in Children(tasks, Root) \ {Root} : terminal(tasks[c].status)
    BY <1>7 DEF Done, mayFinish, placeholder, canFinish
  <2> HIDE DEF row
  <2> QED BY <2>1, <2>2, <2>3, <2>4, OneRowWhole
<1>8. CASE Wait(id, id) \/ \E a \in Agents : Release(id, a)
  <2> DEFINE parks == [unclaimed(old) EXCEPT !.waiting = TRUE, !.status = "pending"]
             drops == [unclaimed(old) EXCEPT !.status = "pending"]
  <2>1. PICK row \in {parks, drops} : changeTaskAndPromote(id, row)
    BY <1>8 DEF Wait, Release
  <2>2. parks \in Task /\ drops \in Task
    BY <1>1, UnclaimedType
  <2>3. /\ parks.status = "pending" /\ parks.hard = old.hard /\ parks.soft = old.soft
        /\ drops.status = "pending" /\ drops.hard = old.hard /\ drops.soft = old.soft
        /\ sameTree(old, parks) /\ sameTree(old, drops)
    BY <1>1 DEF unclaimed, Task, sameTree
  <2>4. heldStatus(old.status) \/ (id = Root /\ Wait(Root, Root))
    BY <1>8 DEF Wait, Release, rootWorker
  <2>5. id = Root => ~DoneOrGone(tasks)
    <3>1. CASE Wait(id, id) /\ id = Root
      <4>1. openWaits(tasks, Root) # {}
        BY <3>1 DEF Wait
      <4> QED BY <3>1, <4>1 DEF openWaits, RootWhole, DoneOrGone
    <3>2. CASE id # Root
      BY <3>2
    <3>3. (\E a \in Agents : Release(id, a)) => id # Root
      BY DEF Release
    <3> QED BY <1>8, <3>1, <3>2, <3>3
  <2> HIDE DEF parks, drops
  <2>6. row.status # "done"
    BY <2>3
  <2> QED BY <2>1, <2>2, <2>3, <2>4, <2>5, <2>6, OneRowWhole
<1> QED BY <1>4, <1>5, <1>6, <1>7, <1>8 DEF ownCall
\* A cancel is quiet.
LEMMA CancelQuiet ==
  ASSUME TypeOK, NEW id \in DOMAIN tasks, Cancel(id) PROVE QuietRoot(tasks, tasks')
<1> DEFINE row == [unclaimed(tasks[id]) EXCEPT !.status = "cancelled"]
           cut == [tasks EXCEPT ![id] = row]
           below == cancelDescendants(cut, id)
           swept == cancelBlockedDependents(below, {id})
<1>1. /\ row \in Task /\ row.status = "cancelled" /\ sameTree(tasks[id], row)
      /\ row.hard = tasks[id].hard /\ row.soft = tasks[id].soft
  <2>1. tasks[id] \in Task /\ "cancelled" \in Status
    BY DEF TypeOK, isPlan, Status
  <2> QED BY <2>1, UnclaimedType DEF unclaimed, Task, sameTree
<1>2. tasks' = promote(swept) /\ ~terminal(tasks[id].status)
  BY DEF Cancel
<1> HIDE DEF row
<1>3. isPlan(cut) /\ DOMAIN cut = DOMAIN tasks
  BY <1>1, ExceptType DEF TypeOK
<1>4. \A t \in DOMAIN cut : cut[t] = IF t = id THEN row ELSE tasks[t]
  BY DEF TypeOK, isPlan
<1> HIDE DEF cut
<1>5. QuietRoot(tasks, cut)
  BY <1>1, <1>2, <1>3, <1>4 DEF QuietRoot, quietRow, Kept, sameTree, settledRow, heldStatus
<1>6. isPlan(below) /\ QuietRoot(cut, below)
  BY <1>3, CancelRowsType, CancelRowsQuiet DEF cancelDescendants, OpenBelow
<1> HIDE DEF below
<1>7. isPlan(swept) /\ QuietRoot(below, swept)
  BY <1>6, CancelRowsType, CancelRowsQuiet DEF cancelBlockedDependents, Blocked
<1> HIDE DEF swept
<1>8. QuietRoot(tasks, below)
  BY <1>5, <1>6, QuietThenQuiet
<1>9. QuietRoot(tasks, swept)
  BY <1>7, <1>8, QuietThenQuiet
<1> QED BY <1>2, <1>7, <1>9, PromoteQuiet, QuietThenQuiet

\* StopRoot and EndRoot are quiet, and end the root.
LEMMA CloseQuiet ==
  ASSUME TypeOK, NEW rs \in {"failed", "cancelled"}, closeRoot(rs)
  PROVE  QuietRoot(tasks, tasks') /\ ShutOrGone(tasks')
<1> DEFINE st(t) == IF t = Root THEN rs ELSE "cancelled"
           row(t) == IF terminal(tasks[t].status) THEN tasks[t]
                     ELSE [unclaimed(tasks[t]) EXCEPT !.status = st(t)]
           cut == [t \in DOMAIN tasks |-> row(t)]
<1>1. ASSUME NEW t \in DOMAIN tasks
      PROVE  /\ row(t) \in Task /\ sameTree(tasks[t], row(t)) /\ terminal(row(t).status)
             /\ settledRow(tasks[t], row(t)) /\ quietRow(tasks[t], row(t))
  <2>1. tasks[t] \in Task
    BY DEF TypeOK, isPlan
  <2>2. st(t) \in {"failed", "cancelled"} /\ st(t) \in Status
    BY DEF Status
  <2> HIDE DEF st
  <2>3. CASE terminal(tasks[t].status)
    BY <2>1, <2>3 DEF sameTree, settledRow, terminal, heldStatus, quietRow
  <2>4. CASE ~terminal(tasks[t].status)
    BY <2>1, <2>2, <2>4, UnclaimedType DEF unclaimed, Task, sameTree, settledRow, quietRow, terminal
  <2> QED BY <2>3, <2>4
<1>2. tasks' = promote(cut)
  BY DEF closeRoot
<1> HIDE DEF row
<1>3. isPlan(cut)
  BY <1>1 DEF isPlan, TypeOK
<1>4. QuietRoot(tasks, cut) /\ ShutOrGone(cut)
  BY <1>1 DEF QuietRoot, Kept, ShutOrGone
<1> HIDE DEF cut
<1> QED BY <1>2, <1>3, <1>4, PromoteQuiet, QuietThenQuiet, QuietKeepsRoot

\* A delete is quiet.
LEMMA DeleteQuiet ==
  ASSUME TypeOK, NEW id, DeleteSubtree(id) PROVE QuietRoot(tasks, tasks')
<1> DEFINE gone == doomed(id)
           kept == Keep(tasks, gone)
           cut == cancelBlockedDependents(kept, gone)
           dropped(t) == [cut[t] EXCEPT !.hard = @ \ gone, !.soft = @ \ gone]
           row(t) == IF cut[t].hard \cap gone # {} /\ ~terminal(cut[t].status)
                     THEN [dropped(t) EXCEPT !.status = "cancelled", !.claimedBy = None]
                     ELSE dropped(t)
           cleaned == [t \in DOMAIN cut |-> row(t)]
<1>1. tasks' = recomputeComposite(cleaned)
  BY DEF DeleteSubtree
<1> HIDE DEF gone
<1>2. isPlan(kept) /\ QuietRoot(tasks, kept)
  <2>1. DOMAIN kept = DOMAIN tasks \ gone /\ \A t \in DOMAIN kept : kept[t] = tasks[t]
    BY DEF Keep
  <2> QED BY <2>1, KeepType, KeepKept DEF TypeOK, QuietRoot, quietRow
<1> HIDE DEF kept
<1>3. isPlan(cut) /\ QuietRoot(kept, cut)
  BY <1>2, CancelRowsType, CancelRowsQuiet DEF cancelBlockedDependents, Blocked
<1> HIDE DEF cut
<1>4. ASSUME NEW t \in DOMAIN cut
      PROVE  row(t) \in Task /\ sameTree(cut[t], row(t)) /\ settledRow(cut[t], row(t))
               /\ quietRow(cut[t], row(t))
  <2>1. cut[t] \in Task
    BY <1>3 DEF isPlan
  <2>2. /\ dropped(t) \in Task /\ sameTree(cut[t], dropped(t)) /\ quietRow(cut[t], dropped(t))
        /\ dropped(t).status = cut[t].status
    <3>1. cut[t].hard \ gone \in SUBSET AllIds /\ cut[t].soft \ gone \in SUBSET AllIds
      BY <2>1 DEF Task
    <3>2. dropped(t) = [cut[t] EXCEPT !.hard = cut[t].hard \ gone, !.soft = cut[t].soft \ gone]
      BY <2>1 DEF Task
    <3> QED BY <2>1, <3>1, <3>2 DEF Task, sameTree, quietRow
  <2> HIDE DEF dropped
  <2> QED BY <2>2, ZenonT(40) DEF Task, Status, Names, sameTree, settledRow, quietRow, heldStatus
<1> HIDE DEF row
<1>5. isPlan(cleaned)
  BY <1>3, <1>4 DEF isPlan
<1>6. QuietRoot(cut, cleaned)
  BY <1>4 DEF QuietRoot, Kept
<1> HIDE DEF cleaned
<1>7. QuietRoot(cleaned, recomputeComposite(cleaned))
  <2>1. Root \in DOMAIN cleaned => quietRow(cleaned[Root], recomputeComposite(cleaned)[Root])
    BY <1>5 DEF isPlan, recomputeComposite, quietRow, Task
  <2> QED BY <1>5, <2>1, RecomputeKept, RecomputeType DEF QuietRoot
<1>8. QuietRoot(tasks, cut)
  BY <1>2, <1>3, QuietThenQuiet
<1>9. QuietRoot(tasks, cleaned)
  BY <1>6, <1>8, QuietThenQuiet
<1> QED BY <1>1, <1>7, <1>9, QuietThenQuiet

\* The run ends its root well only when nothing else is open.
LEMMA EndRunKeepsRoot ==
  ASSUME TypeOK, RootWhole(tasks), EndRun
  PROVE  RootWhole(tasks') /\ (DoneOrGone(tasks) => DoneOrGone(tasks'))
<1>1. ASSUME NEW res \in BOOLEAN, CompleteRoot(res)
      PROVE  RootWhole(tasks') /\ (DoneOrGone(tasks) => DoneOrGone(tasks'))
  <2> DEFINE s == IF \A t \in DOMAIN tasks \ {Root} : tasks[t].status = "done"
                  THEN "done" ELSE "failed"
             row == [tasks[Root] EXCEPT !.result = res, !.status = s]
  <2>1. /\ Root \in DOMAIN tasks /\ tasks[Root] \in Task /\ s \in {"done", "failed"}
        /\ ~terminal(tasks[Root].status)
    BY <1>1 DEF CompleteRoot, Open, TypeOK, isPlan
  <2>2. changeTask(Root, row)
    BY <1>1 DEF CompleteRoot
  <2>3. \A c \in Children(tasks, Root) \ {Root} : terminal(tasks[c].status)
    BY <1>1 DEF CompleteRoot, hasOpenDescendants, Open, Children
  <2> HIDE DEF s
  <2>4. row \in Task
    BY <2>1, RowFlags, RowStatus DEF Status
  <2>5. /\ row.status = s /\ sameTree(tasks[Root], row)
        /\ row.hard = tasks[Root].hard /\ row.soft = tasks[Root].soft
    BY <2>1 DEF Task, sameTree
  <2>6. ~DoneOrGone(tasks)
    BY <2>1 DEF DoneOrGone, terminal
  <2> HIDE DEF row
  <2> QED BY <2>1, <2>2, <2>3, <2>4, <2>5, <2>6, OneRowWhole
<1> QED BY <1>1, CloseQuiet, QuietKeepsRoot, ConstantsAssumption DEF EndRun, StopRoot, EndRoot

\* Whatever the run asks of the store: a done root has its children ended, and
\* only a review seated under it opens it.
LEMMA CallsKeepRoot ==
  ASSUME TypeOK, Lines(tasks), RootWhole(tasks), runCall \/ UNCHANGED planVars
  PROVE  /\ RootWhole(tasks')
         /\ at # "review" /\ DoneOrGone(tasks) => DoneOrGone(tasks')
<1>1. CASE UNCHANGED planVars
  BY <1>1 DEF planVars, RootWhole, DoneOrGone, Children
<1>2. ASSUME NEW t \in DOMAIN tasks, Cancel(t)
      PROVE  RootWhole(tasks') /\ (DoneOrGone(tasks) => DoneOrGone(tasks'))
  BY <1>2, CancelQuiet, QuietKeepsRoot
<1>3. ASSUME NEW id, DeleteSubtree(id)
      PROVE  RootWhole(tasks') /\ (DoneOrGone(tasks) => DoneOrGone(tasks'))
  BY <1>3, DeleteQuiet, QuietKeepsRoot
<1> QED BY <1>1, <1>2, <1>3, AddsKeepRoot, ReviewOpensRoot, OwnCallsKeepRoot, EndRunKeepsRoot
        DEF runCall

\* The word `done' is said of a root that is done, by a loop that is on its way
\* out and can take no ending back.
SaidDone ==
  outcome = "done" =>
    /\ at \in {"drain", "draining", "end", "over"} \/ (at = "stale" /\ then = "drain")
    /\ DoneOrGone(tasks)
EndingIInv == RootWhole(tasks) /\ SaidDone /\ EndingWritten

\* Every step keeps it.
LEMMA EndingStep ==
  ASSUME TypeOK, HeldByAgents, Lines(tasks), RunIInv, EndingIInv, [RunNext]_runVars
  PROVE  EndingIInv'
<1> USE DEF locals, workers, fate, wakeBook, rows, goTo
<1>1. /\ RootWhole(tasks')
      /\ at # "review" /\ DoneOrGone(tasks) => DoneOrGone(tasks')
  BY RunStepCalls, CallsKeepRoot DEF EndingIInv
<1>2. SaidDone'
  <2>1. CASE ReadRoot
    BY <1>1, <2>1 DEF ReadRoot, outcomeForRoot, EndingIInv, SaidDone, DoneOrGone, planVars
  <2>2. CASE Begin \/ PassBegins \/ RootGone \/ AllHome \/ Restart
    BY <2>2 DEF Begin, PassBegins, letGo, RootGone, AllHome, Restart, EndingIInv, SaidDone
  <2>3. CASE ReleaseStale \/ ReleasedAll \/ DrainBegins \/ DrainOne \/ Drained \/ EndRootOn
    BY <1>1, <2>3 DEF ReleaseStale, ReleasedAll, DrainBegins, letGo, DrainOne, Drained, EndRootOn,
                      EndingIInv, SaidDone
  <2>4. CASE \/ FailTheRoot \/ LaunchRoot \/ ReadFrontier \/ ClaimReady \/ FrontierDone
             \/ WakeParked \/ ClearPark \/ SeatParked \/ WaitsDone \/ WakeParent \/ CloseAtCap \/ WakesDone
    BY <2>4 DEF FailTheRoot, LaunchRoot, ReadFrontier, ClaimReady, FrontierDone, WakeParked,
                ClearPark, SeatParked, WaitsDone, WakeParent, CloseAtCap, WakesDone,
                EndingIInv, SaidDone
  <2>5. CASE Absorb
    BY <2>5 DEF Absorb, TakeReturn, LandNothing, LandRoot, LandWell, LandBadly, settle,
                addReviewCheck, WriteDone, WriteFail, RecordFinding, CompleteTree,
                EndingIInv, SaidDone
  <2>6. CASE Tick \/ LiveLimit \/ Elapsed \/ Wall
    BY <2>6 DEF Tick, LiveLimit, Elapsed, Wall, EndingIInv, SaidDone
  <2>7. ASSUME NEW t \in AllIds, Worker(t) PROVE SaidDone'
    BY <1>1, <2>7 DEF Worker, WorkerAdds, WorkerDone, WorkerWaits, WorkerReturns, loopState,
                      EndingIInv, SaidDone
  <2>8. CASE WallFalls \/ PersonCancels \/ PersonStops \/ PersonDeletes \/ Over \/ UNCHANGED runVars
    BY <1>1, <2>8 DEF WallFalls, PersonCancels, PersonStops, PersonDeletes, Over, runVars,
                      loopState, EndingIInv, SaidDone
  <2> QED BY <2>1, <2>2, <2>3, <2>4, <2>5, <2>6, <2>7, <2>8
             DEF RunNext, Loop, Pass, WaysOut, Befalls
<1>3. EndingWritten <=>
        ((at = "over" /\ outcome \in {"done", "limit", "incomplete"} /\ wall # "cancelled")
           => ShutOrGone(tasks))
  BY DEF EndingWritten, ShutOrGone, Open
<1>4. EndingWritten' <=>
        ((at' = "over" /\ outcome' \in {"done", "limit", "incomplete"} /\ wall' # "cancelled")
           => ShutOrGone(tasks'))
  BY DEF EndingWritten, ShutOrGone, Open
<1>5. EndingWritten'
  <2>1. CASE EndRootOn
    <3>1. UNCHANGED <<wall, outcome>>
      BY <2>1 DEF EndRootOn
    <3>2. CASE outcome = "done"
      BY <1>2, <1>4, <3>1, <3>2 DEF SaidDone, DoneOrGone, ShutOrGone, terminal
    <3>3. CASE /\ outcome = "limit" \/ (outcome = "incomplete" /\ wall # "cancelled")
               /\ Root \in Open(tasks)
      BY <1>4, <2>1, <3>3, CloseQuiet DEF EndRootOn, EndRoot
    <3>4. CASE Root \notin Open(tasks)
      BY <1>4, <2>1, <3>4 DEF EndRootOn, ShutOrGone, Open, planVars
    <3> QED BY <1>4, <3>1, <3>2, <3>3, <3>4
  <2>2. CASE Begin
    BY <1>4, <2>2 DEF Begin
  <2>3. CASE PersonCancels \/ PersonStops \/ PersonDeletes \/ Over \/ UNCHANGED runVars
    <3>1. QuietRoot(tasks, tasks') \/ UNCHANGED tasks
      <4>1. ASSUME NEW id, Cancel(id) PROVE QuietRoot(tasks, tasks')
        <5>1. id \in DOMAIN tasks
          BY <4>1 DEF Cancel
        <5> QED BY <4>1, <5>1, CancelQuiet
      <4> QED BY <2>3, <4>1, CloseQuiet, DeleteQuiet
              DEF PersonCancels, PersonStops, StopRoot, PersonDeletes, Over, runVars, planVars
    <3>2. UNCHANGED <<at, outcome, wall>>
      BY <2>3 DEF PersonCancels, PersonStops, PersonDeletes, Over, runVars, loopState
    <3>3. ShutOrGone(tasks) => ShutOrGone(tasks')
      BY <3>1, QuietKeepsRoot
    <3> QED BY <1>3, <1>4, <3>2, <3>3 DEF EndingIInv
  <2>4. ASSUME NEW t \in AllIds, Worker(t) PROVE at' # "over"
    <3>1. at' = at /\ out[t] = "busy"
      BY <2>4 DEF Worker, WorkerAdds, WorkerDone, WorkerWaits, WorkerReturns, loopState
    <3> QED BY <3>1 DEF RunIInv, WorkersComeHome, abroad
  <2>5. CASE Pass /\ ~Begin
    <3>1. then # "over"
      BY DEF RunIInv, ReturnOK
    <3>2. at' # "over"
      BY <2>5, <3>1 DEF Pass, ReleaseStale, ReleasedAll, PassBegins, letGo, ReadRoot, RootGone,
           FailTheRoot, LaunchRoot, ReadFrontier, ClaimReady, FrontierDone, WakeParked,
           ClearPark, SeatParked, WaitsDone, WakeParent, CloseAtCap, WakesDone
    <3> QED BY <1>4, <3>2
  <2>6. CASE Absorb
    <3>1. then # "over" /\ (at = "review" => ret.next # "over")
      BY DEF RunIInv, ReturnOK
    <3>2. at' # "over"
      BY <2>6, <3>1 DEF Absorb, TakeReturn, LandNothing, LandRoot, LandWell, LandBadly, settle,
           reading, addReviewCheck, WriteDone, WriteFail, RecordFinding, CompleteTree
    <3> QED BY <1>4, <3>2
  <2>7. CASE (WaysOut /\ ~EndRootOn) \/ WallFalls \/ Restart
    <3>1. at' # "over"
      BY <2>7 DEF WaysOut, Tick, LiveLimit, Elapsed, Wall, AllHome, DrainBegins, letGo, DrainOne,
                  Drained, WallFalls, Restart
    <3> QED BY <1>4, <3>1
  <2> QED BY <1>4, <2>1, <2>2, <2>3, <2>4, <2>5, <2>6, <2>7 DEF RunNext, Loop, Befalls
<1> QED BY <1>1, <1>2, <1>5 DEF EndingIInv

\* A root that is done has its children ended, all through a run, and `done' is
\* only ever said of a root that is done or deleted: the one write that reopens a
\* root that was read done, its worker's park, finds nothing to wait for.
THEOREM DoneRootStays == ASSUME FreshIds PROVE RunSpec => []EndingIInv
<1>1. RunInit => EndingIInv
  <2>1. ASSUME PlanInit PROVE RootWhole(tasks)
    <3>1. /\ rootRow.hard = {} /\ rootRow.soft = {} /\ rootRow.status = "running"
      BY DEF rootRow, newRow
    <3> QED BY <2>1, <3>1 DEF PlanInit, RootWhole
  <2> QED BY <2>1 DEF RunInit, EndingIInv, SaidDone, EndingWritten
<1>2. (TypeOK /\ HeldByAgents /\ LoadIInv /\ RunIInv /\ EndingIInv /\ [RunNext]_runVars)
        => EndingIInv'
  BY EndingStep DEF LoadIInv, Sound
<1> QED BY <1>1, <1>2, AgentsHold, TypeCorrect, PlanStaysSound, RunIsACaller, RunInvariant, PTL
        DEF RunSpec

\* However a run ends, the run's own task has its ending in the store, unless
\* somebody cancelled the context or the run could not begin.  Nobody undoes it:
\* the workers are home when it is written.
THEOREM EndingsAreWritten == ASSUME FreshIds PROVE RunSpec => []EndingWritten
<1>1. EndingIInv => EndingWritten
  BY DEF EndingIInv
<1> QED BY <1>1, DoneRootStays, PTL
=============================================================================
