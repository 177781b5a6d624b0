------------------------------ MODULE Supervisor ------------------------------
(***************************************************************************)
(* The launch loop of internal/run over one plan store: it claims ready     *)
(* leaves, runs one worker goroutine per claim, absorbs every return, seats *)
(* the review round, wakes parents and parked tasks, and ends the run.      *)
(*                                                                         *)
(* Every action is one store transaction of the loop, one write of a worker *)
(* or of a person, or one move of the loop between them.  The reads a loop  *)
(* step makes before its write are taken with it; the two sweeps that act   *)
(* on a snapshot (launchWaits, launchWakes) keep it in `seen', and the      *)
(* frontier read by a pass is kept in `todo' while its claims are made.     *)
(* The machine's admission gate is the nil gate, dollars are kept only as   *)
(* far as reaching the limit, and the words of a report as its kind.        *)
(***************************************************************************)
EXTENDS PlanStore

CONSTANTS
  Slots,        \* workers at once; 0 is no bound
  MaxWakes,     \* the wake cap (4 in the code)
  ReviewRound,  \* Limits.ReviewRound
  Planned,      \* input: ids workers give the tasks they add (the run mints the others)
  DepKinds,     \* input: how a task a worker adds may hang on the others
  World,        \* input: what may befall the run
  Cancellable   \* input: ids a person may cancel

ASSUME RunAssumption ==
  /\ Slots \in Nat /\ MaxWakes \in Nat /\ ReviewRound \in BOOLEAN
  /\ Ids \subseteq Agents /\ Planned \subseteq Ids /\ Cancellable \subseteq Ids
  /\ DepKinds \subseteq {"free", "hard", "suggests"} /\ DepKinds \ {"free"} \subseteq EdgeKinds
  /\ MaxBatch >= 1 /\ MaxEdges >= 1 /\ TRUE \in Results    \* what the run itself asks of the store
  /\ World \subseteq {"limit", "cancelled", "deadline", "stop", "crash", "error", "park", "finding"}

VARIABLES
  at,          \* where the loop goroutine is
  then,        \* where it goes after the absorption or the sweep under way
  todo, seen,  \* what a sweep has still to visit, and the plan it reads
  ret,         \* the return being absorbed, or the parked task being woken
  out,         \* the worker goroutine of each task: "none", "busy", or its return
  cancels,     \* keys of s.cancels
  stopped,     \* tasks whose worker's context has ended
  wall,        \* the caller's context: "", "cancelled" or "deadline"
  limitHit, dispatchedRoot, rootEnd, outcome,
  wakes, reported, checkOf,
  seat,        \* the role and the `fix' title of each row: "work", "check", "fix"
  before,      \* what had ended badly when the task parked (its WaitedAt)
  owned        \* rows whose Owner is this process

locals  == <<then, todo, seen, ret>>
workers == <<out, cancels, stopped>>
fate    == <<limitHit, dispatchedRoot, rootEnd, outcome>>
wakeBook == <<wakes, reported>>
rows    == <<checkOf, seat, before, owned>>
runVars == <<planVars, at, locals, workers, wall, fate, wakeBook, rows>>

Kinds == {"ok", "finding", "waiting", "error", "cut"}
NoPlan == [t \in {} |-> None]
NoReturn == [task |-> None, kind |-> "ok", parent |-> None, next |-> "complete", news |-> {}]

inFlight == Cardinality({t \in AllIds : out[t] # "none"})
full == Slots > 0 /\ inFlight >= Slots

RunInit ==
  /\ PlanInit
  /\ at = "start" /\ then = "pass" /\ todo = {} /\ seen = NoPlan /\ ret = NoReturn
  /\ out = [t \in AllIds |-> "none"] /\ cancels = {} /\ stopped = {} /\ wall = ""
  /\ limitHit = "" /\ dispatchedRoot = FALSE /\ rootEnd = "" /\ outcome = ""
  /\ wakes = [t \in AllIds |-> 0] /\ reported = [t \in AllIds |-> {}]
  /\ checkOf = NoPlan /\ seat = [t \in AllIds |-> "work"]
  /\ before = [t \in AllIds |-> {}] /\ owned = {}

-----------------------------------------------------------------------------
(* Readings of a plan T by the run; `held' are the keys of s.cancels.       *)

\* A landing is a return the run has absorbed, not a store row.
landed(T, t, held) ==
  /\ t \in DOMAIN T /\ terminal(T[t].status)
  /\ T[t].status # "done" \/ t \notin held
\* Variant: the stored ending is taken at its word.
nothingUnlanded == FALSE

hasUnlandedDone == \E t \in cancels : IsDone(tasks, t)

childrenAllLanded(T, t, held) ==
  Children(T, t) # {} /\ \A c \in Children(T, t) : landed(T, c, held)

needsWake(T, t, held) ==
  /\ T[t].composite /\ ~terminal(T[t].status)
  /\ t \notin held /\ wakes[t] < MaxWakes
  /\ childrenAllLanded(T, t, held)
  /\ \E c \in Children(T, t) : seat[c] # "check" /\ c \notin reported[t]
\* Variant: a parent waits only for children that are still open.
waitsForOpen(t, held) ==
  /\ t \in Open(tasks) /\ tasks[t].composite
  /\ \E c \in Children(tasks, t) : ~terminal(tasks[c].status)

waitsForWake(t, held) ==
  /\ t \in Open(tasks) /\ tasks[t].composite
  /\ \/ \E c \in Children(tasks, t) : ~terminal(tasks[c].status)
     \/ needsWake(tasks, t, held)
\* Variant: only a root worker still out keeps the root open.
rootWorkerOut == Root \in cancels

rootAwaitingWake ==
  Root \in cancels \/ (Root \in DOMAIN tasks /\ needsWake(tasks, Root, cancels))
\* Variant: the root counted among its own descendants.
wholeTreeTerminal == \A t \in DOMAIN tasks : landed(tasks, t, cancels)

treeTerminal == \A t \in DOMAIN tasks \ {Root} : landed(tasks, t, cancels)

hasCancelledAncestor(t) ==
  \E a \in tasks[t].above \cap DOMAIN tasks : tasks[a].status = "cancelled"

\* What a parked task's wake would carry: nothing it waited on is open, or
\* something it waited on ended badly since it parked.
badEnding(T, t) == t \in DOMAIN T /\ T[t].status \in {"failed", "cancelled"}
waitMoved(T, t) ==
  LET waited == (T[t].hard \cup T[t].soft \cup Children(T, t)) \cap DOMAIN T
  IN IF t \in DOMAIN tasks /\ openWaits(tasks, t) = {} THEN waited
     ELSE {w \in waited \ before[t] : badEnding(T, w)}

-----------------------------------------------------------------------------
(* Pieces of the loop's steps.                                              *)

goTo(where) == at' = where

\* launch: a task gone or ended since it was chosen gets no worker.
launch(t) ==
  IF t \in DOMAIN tasks' /\ ~terminal(tasks'[t].status)
  THEN /\ out' = [out EXCEPT ![t] = "busy"]
       /\ cancels' = cancels \cup {t}
       /\ stopped' = IF wall = "" THEN stopped \ {t} ELSE stopped \cup {t}
  ELSE UNCHANGED workers
\* Variant: a limit that starts nothing more and ends nothing.
reachLimitSoftly(name, held, reached) ==
  /\ limitHit' = IF reached /\ limitHit = "" THEN name ELSE limitHit
  /\ UNCHANGED stopped

\* reachCostLimit, over the workers whose cancels are still held.
reachLimit(name, held, reached) ==
  IF reached /\ limitHit = ""
  THEN limitHit' = name /\ stopped' = stopped \cup held
  ELSE UNCHANGED <<limitHit, stopped>>

\* Variant: the cancel is forgotten and not called.
forget(held) == cancels' = cancels \ held /\ UNCHANGED stopped

\* A cancel is called, which ends the worker's context, and taken off the map.
letGo(held) == cancels' = cancels \ held /\ stopped' = stopped \cup held

failRun == rootEnd' = IF rootEnd = "cut" THEN "cut" ELSE "failed"

\* A spec that names no parent hangs under the root (normalizeSpec).
beside(parent) == IF parent = None THEN Root ELSE parent

-----------------------------------------------------------------------------
(* The start of a run and of a pass.                                        *)

\* Run: a context already over, or a store with no root, runs nothing; nor does
\* a run whose dollar limit was spent before it began.
Begin ==
  /\ at = "start"
  /\ IF wall # "" \/ Root \notin DOMAIN tasks
     THEN outcome' = "cannot run" /\ goTo("over") /\ UNCHANGED <<then, limitHit, stopped>>
     ELSE /\ goTo("stale") /\ then' = "pass" /\ UNCHANGED outcome
          /\ \E spent \in {FALSE, "limit" \in World} : reachLimit("cost", {}, spent)
  /\ UNCHANGED <<planVars, todo, seen, ret, out, cancels, wall, dispatchedRoot,
                 rootEnd, wakeBook, rows>>
\* Variant: a pass touches every claim, so none is ever stale.
StaleNever == {}

\* releaseStale, one claim at a time.  This process's own claims were touched;
\* a claim of a process that is gone may have gone untouched long enough.
StaleClaims == {t \in DOMAIN tasks \ (owned \cup cancels \cup {Root}) : heldStatus(tasks[t].status)}

ReleaseStale ==
  /\ at = "stale"
  /\ \E t \in StaleClaims : Release(t, tasks[t].claimedBy)
  /\ UNCHANGED <<at, locals, workers, wall, fate, wakeBook, rows>>

ReleasedAll ==
  /\ at = "stale" /\ goTo(then)
  /\ UNCHANGED <<planVars, locals, workers, wall, fate, wakeBook, rows>>
\* endCancelledWorkers, at the top of a pass.
PassBegins ==
  LET ended == {t \in cancels : \/ t \notin DOMAIN tasks
                                \/ tasks[t].status \in {"cancelled", "failed"}
                                \/ hasCancelledAncestor(t)}
  IN /\ at = "pass"
     /\ IF Root \in DOMAIN tasks
        THEN goTo("absorb") /\ UNCHANGED outcome /\ letGo(ended)
        ELSE goTo("drain") /\ outcome' = "cannot run" /\ UNCHANGED <<cancels, stopped>>
     /\ UNCHANGED <<planVars, locals, out, wall, limitHit, dispatchedRoot, rootEnd,
                    wakeBook, rows>>
\* Variant: the store's own word answered.
storeWord(s) == s

outcomeForRoot(s) ==
  IF s = "done" THEN IF rootEnd # "" THEN "incomplete" ELSE "done"
  ELSE IF s = "cancelled" /\ ~dispatchedRoot /\ inFlight = 0 THEN "cannot run"
  ELSE "incomplete"

\* The pass reads the root once its queued returns are absorbed, and judges.
ReadRoot ==
  LET s == tasks[Root].status
      over == terminal(s) /\ (s # "done" \/ ~hasUnlandedDone)
      spent == inFlight = 0 /\ (rootEnd # "" \/ limitHit # "")
  IN /\ at = "absorb" /\ \A t \in AllIds : out[t] \notin Kinds
     /\ Root \in DOMAIN tasks
     /\ goTo("stale")
     /\ CASE over -> then' = "drain" /\ outcome' = outcomeForRoot(s)
          [] ~over /\ spent ->
               /\ outcome' = IF limitHit # "" THEN "limit" ELSE "incomplete"
               /\ then' = IF limitHit = "" /\ rootEnd = "failed" /\ wall = ""
                          THEN "failRoot" ELSE "drain"
          [] ~over /\ ~spent -> then' = "launch" /\ UNCHANGED outcome
     /\ UNCHANGED <<planVars, todo, seen, ret, workers, wall, limitHit, dispatchedRoot,
                    rootEnd, wakeBook, rows>>

\* The root went while the pass absorbed.
RootGone ==
  /\ at = "absorb" /\ Root \notin DOMAIN tasks
  /\ goTo("drain") /\ outcome' = "cannot run"
  /\ UNCHANGED <<planVars, locals, workers, wall, limitHit, dispatchedRoot, rootEnd,
                 wakeBook, rows>>

\* The run's own task failed: FailRoot, a refusal of which is dropped.
FailTheRoot ==
  /\ at = "failRoot" /\ goTo("drain")
  /\ IF Root \in Open(tasks) THEN FailRoot ELSE UNCHANGED planVars
  /\ UNCHANGED <<locals, workers, wall, fate, wakeBook, rows>>

-----------------------------------------------------------------------------
(* The launches of a pass.                                                  *)

\* The root is the run's first worker and needs no claim; then the frontier is
\* read once for the whole pass.
LaunchRoot ==
  /\ at = "launch" /\ goTo("frontier")
  /\ UNCHANGED planVars
  /\ IF ~full /\ ~dispatchedRoot
     THEN dispatchedRoot' = TRUE /\ launch(Root)
     ELSE UNCHANGED <<dispatchedRoot, workers>>
  /\ UNCHANGED <<locals, wall, limitHit, rootEnd, outcome, wakeBook, rows>>

ReadFrontier ==
  /\ at = "frontier" /\ goTo("claim")
  /\ todo' = IF limitHit = "" THEN Runnable \ {Root} ELSE {}
  /\ UNCHANGED <<planVars, then, seen, ret, workers, wall, fate, wakeBook, rows>>

\* Each task of the frontier is claimed under its own id; a claim the store
\* refuses is passed over.
claimable(t) == t \in DOMAIN tasks /\ tasks[t].status = "ready" /\ ~tasks[t].composite

ClaimReady ==
  /\ at = "claim" /\ ~full
  /\ \E t \in todo :
       /\ todo' = todo \ {t}
       /\ IF claimable(t) /\ ~hasCancelledAncestor(t)
          THEN Claim(t, t) /\ launch(t) /\ owned' = owned \cup {t}
          ELSE UNCHANGED <<planVars, workers, owned>>
  /\ UNCHANGED <<at, then, seen, ret, wall, fate, wakeBook, checkOf, seat, before>>

\* A sweep over one snapshot of the plan begins.
snapshot == seen' = tasks /\ todo' = DOMAIN tasks

FrontierDone ==
  /\ at = "claim" /\ (todo = {} \/ full)
  /\ goTo("waits")
  /\ IF limitHit = "" THEN snapshot ELSE todo' = {} /\ UNCHANGED seen
  /\ UNCHANGED <<planVars, then, ret, workers, wall, fate, wakeBook, rows>>

\* launchWaits: a parked task whose wait is over on landings.
waitOver(t) ==
  /\ seen[t].waiting /\ t \notin cancels
  /\ waitMoved(seen, t) # {} /\ \A w \in waitMoved(seen, t) : landed(seen, w, cancels)

\* A parked leaf is claimed first; a composite goes straight to its wake.
WakeParked ==
  /\ at = "waits"
  /\ \E t \in todo :
       /\ waitOver(t) /\ ~full
       /\ todo' = todo \ {t}
       /\ ret' = [NoReturn EXCEPT !.task = t, !.news = waitMoved(seen, t) \cap Children(seen, t)]
       /\ IF seen[t].composite THEN goTo("wake") /\ UNCHANGED <<planVars, owned>>
          ELSE IF claimable(t) THEN Claim(t, t) /\ goTo("wake") /\ owned' = owned \cup {t}
          ELSE UNCHANGED <<planVars, at, owned>>
  /\ UNCHANGED <<then, seen, workers, wall, fate, wakeBook, checkOf, seat, before>>

\* The park flag is cleared in the store before the launch.
ClearPark ==
  LET t == ret.task
  IN /\ at = "wake"
     /\ IF t \in DOMAIN tasks /\ tasks[t].waiting
        THEN Wake(t) /\ goTo("seat")
        ELSE UNCHANGED planVars /\ goTo("waits")
     /\ UNCHANGED <<locals, workers, wall, fate, wakeBook, rows>>

wakeable(t) == t \in DOMAIN tasks /\ tasks[t].status = "ready" /\ tasks[t].composite

\* A woken composite is claimed again if the store lets it, counted and run.
SeatParked ==
  LET t == ret.task
  IN /\ at = "seat" /\ goTo("waits")
     /\ IF seen[t].composite /\ t # Root /\ wakeable(t)
        THEN ClaimWake(t, t) /\ owned' = owned \cup {t}
        ELSE UNCHANGED <<planVars, owned>>
     /\ IF seen[t].composite
        THEN /\ wakes' = [wakes EXCEPT ![t] = @ + 1]
             /\ reported' = [reported EXCEPT ![t] = @ \cup ret.news]
        ELSE UNCHANGED wakeBook
     /\ launch(t)
     /\ UNCHANGED <<locals, wall, fate, checkOf, seat, before>>

WaitsDone ==
  /\ at = "waits"
  /\ full \/ \A t \in todo : ~waitOver(t)
  /\ goTo("wakes")
  /\ IF limitHit = "" THEN snapshot ELSE todo' = {} /\ UNCHANGED seen
  /\ UNCHANGED <<planVars, then, ret, workers, wall, fate, wakeBook, rows>>

\* launchWakes: composites whose children have landed.
integrates(t) ==
  /\ seen[t].composite /\ ~terminal(seen[t].status)
  /\ t \notin cancels /\ childrenAllLanded(seen, t, cancels)
atCap(t) == integrates(t) /\ wakes[t] >= MaxWakes
owedWake(t) == integrates(t) /\ needsWake(seen, t, cancels)

WakeParent ==
  /\ at = "wakes" /\ ~full
  /\ \E t \in todo :
       /\ owedWake(t)
       /\ todo' = todo \ {t}
       /\ IF t # Root /\ seen[t].claimedBy = None /\ wakeable(t)
          THEN ClaimWake(t, t) /\ owned' = owned \cup {t}
          ELSE UNCHANGED <<planVars, owned>>
       /\ wakes' = [wakes EXCEPT ![t] = @ + 1]
       /\ reported' = [reported EXCEPT ![t] = Children(seen, t)]
       /\ launch(t)
  /\ UNCHANGED <<at, then, seen, ret, wall, fate, checkOf, seat, before>>

\* The proof the run's own Done carries: no evidence, and behind a check's word
\* that the work holds whatever runs are on record.  A fix requires none.
proofs(t, holds) == IF seat[t] = "check" /\ holds THEN BOOLEAN ELSE {seat[t] # "work"}

\* closeAtCap: the children are read fresh; a refused write is dropped.
CloseAtCap ==
  /\ at = "wakes"
  /\ \E t \in todo \ {Root} :
       /\ atCap(t)
       /\ todo' = todo \ {t}
       /\ IF \A c \in Children(tasks, t) : tasks[c].status = "done"
          THEN \E proven \in proofs(t, TRUE) :
                 IF mayFinish(t, t, proven) THEN Done(t, t, TRUE) ELSE UNCHANGED planVars
          ELSE IF mayFail(t, t) THEN Fail(t, t) ELSE UNCHANGED planVars
  /\ UNCHANGED <<at, then, seen, ret, workers, wall, fate, wakeBook, rows>>

WakesDone ==
  /\ at = "wakes"
  /\ \/ \A t \in todo : ~owedWake(t) /\ (t = Root \/ ~atCap(t))
     \/ full /\ \E t \in todo : owedWake(t)
  /\ goTo("select") /\ todo' = {} /\ seen' = NoPlan /\ ret' = NoReturn
  /\ UNCHANGED <<planVars, then, workers, wall, fate, wakeBook, rows>>

-----------------------------------------------------------------------------
(* Absorption of a return.                                                  *)

TakeReturn ==
  /\ at \in {"absorb", "select", "elapsed", "wall"}
  /\ \E t \in AllIds :
       /\ out[t] \in Kinds
       /\ ret' = [NoReturn EXCEPT !.task = t, !.kind = out[t]]
       /\ out' = [out EXCEPT ![t] = "none"]
       /\ stopped' = stopped \ {t}
  /\ then' = IF at = "select" THEN "pass" ELSE at
  /\ goTo("land")
  /\ UNCHANGED <<planVars, todo, seen, cancels, wall, fate, wakeBook, rows>>

\* The return's cancel is dropped and its receipt settled, which may reach the
\* limit and end the workers still out.
settle ==
  /\ at = "land"
  /\ cancels' = cancels \ {ret.task}
  /\ \E reached \in {FALSE, "limit" \in World} :
       reachLimit("cost", cancels \ {ret.task}, reached)

came(kinds) == ret.kind \in kinds
speaksOver ==
  came({"waiting"})
    \/ ~(ret.task \in DOMAIN tasks /\ tasks[ret.task].status # "cancelled")

\* A parked return, or one for a task the store cancelled, writes nothing.
LandNothing ==
  /\ settle /\ speaksOver /\ goTo("complete")
  /\ UNCHANGED <<planVars, locals, out, wall, dispatchedRoot, rootEnd, outcome, wakeBook, rows>>

\* What is read of the return's task, and where the absorption goes from there.
reading(next) ==
  /\ ret' = [ret EXCEPT !.parent = tasks[ret.task].parent, !.next = next]
  /\ goTo("review")

LandRoot ==
  /\ settle /\ ~speaksOver /\ ret.task = Root
  /\ IF came({"error", "cut"}) /\ tasks[Root].status # "done"
     THEN /\ rootEnd' = IF came({"cut"}) THEN "cut" ELSE "failed"
          /\ goTo("complete") /\ UNCHANGED ret
     ELSE reading("complete") /\ UNCHANGED rootEnd
  /\ UNCHANGED <<planVars, then, todo, seen, out, wall, dispatchedRoot, outcome, wakeBook, rows>>

\* A worker that came home well: its ending is in the store already, or waits
\* for a wake, or is the run's to write once the review is seated.
LandWell ==
  LET t == ret.task
      ended == IsDone(tasks, t)
  IN /\ settle /\ ~speaksOver /\ t # Root /\ came({"ok", "finding"})
     /\ IF ~ended /\ waitsForWake(t, cancels \ {t}) THEN goTo("complete") /\ UNCHANGED ret
        ELSE reading(IF ended THEN "finding" ELSE "write")
     /\ UNCHANGED <<planVars, then, todo, seen, out, wall, dispatchedRoot, rootEnd, outcome,
                    wakeBook, rows>>

\* NextID draws an id the plan does not have; that the draw is one the archive has
\* is ruled out.  Which it is, is all the same.
Minted ==
  LET free == (Ids \ Planned) \ (DOMAIN tasks \cup DOMAIN archived)
  IN IF free = {} THEN {} ELSE {CHOOSE id \in free : TRUE}

\* addReviewCheck: one check beside a finished work leaf, which fails the run if
\* the store will not seat it.
addReviewCheck ==
  LET t == ret.task
      wanted == ReviewRound /\ seat[t] # "check" /\ Children(tasks, t) = {}
      seatable == beside(ret.parent) \in DOMAIN tasks
  IN /\ at = "review" /\ goTo(ret.next)
     /\ \/ ~wanted /\ UNCHANGED <<planVars, seat, checkOf, rootEnd>>
        \/ wanted /\ ~seatable /\ failRun /\ UNCHANGED <<planVars, seat, checkOf>>
        \/ /\ wanted
           /\ \E id \in Minted :
                /\ AddReviewCheck(id, beside(ret.parent))
                /\ seat' = [seat EXCEPT ![id] = "check"]
                /\ checkOf' = [c \in DOMAIN checkOf \cup {id} |-> IF c = id THEN t ELSE checkOf[c]]
           /\ UNCHANGED rootEnd
     /\ UNCHANGED <<locals, workers, wall, limitHit, dispatchedRoot, outcome, wakeBook,
                    before, owned>>

LandBadly ==
  /\ settle /\ ~speaksOver /\ ret.task # Root /\ came({"error", "cut"}) /\ goTo("fail")
  /\ UNCHANGED <<planVars, locals, out, wall, dispatchedRoot, rootEnd, outcome, wakeBook, rows>>

WriteDone ==
  LET t == ret.task
  IN /\ at = "write"
     /\ \E proven \in proofs(t, came({"ok"})) :
          IF mayFinish(t, t, proven) THEN Done(t, t, TRUE) /\ goTo("finding")
          ELSE UNCHANGED planVars /\ goTo("fail")
     /\ UNCHANGED <<locals, workers, wall, fate, wakeBook, rows>>

\* The ending that stands is the store's; an ending it cannot record leaves the
\* task open and the tree unread.
WriteFail ==
  LET t == ret.task
  IN /\ at = "fail"
     /\ IF mayFail(t, t) THEN Fail(t, t) /\ goTo("complete")
        ELSE UNCHANGED planVars /\ goTo(IF t \in Open(tasks) \/ t \notin DOMAIN tasks
                                        THEN then ELSE "complete")
     /\ UNCHANGED <<locals, workers, wall, fate, wakeBook, rows>>

\* recordCheckFinding: `does not hold' is a fix task beside the checked leaf,
\* unless that leaf is a fix or the finding names a file nothing makes.
actionable ==
  /\ came({"finding"}) /\ seat[ret.task] = "check" /\ ret.task \in DOMAIN checkOf
  /\ checkOf[ret.task] \in DOMAIN tasks /\ seat[checkOf[ret.task]] # "fix"

RecordFinding ==
  LET parent == beside(tasks[checkOf[ret.task]].parent)
  IN /\ at = "finding" /\ goTo("complete")
     /\ \/ UNCHANGED <<planVars, seat>>
        \/ /\ actionable
           /\ \E id \in Minted :
                /\ AddMany([x \in {id} |-> [parent |-> parent, hard |-> {}, soft |-> {}]])
                /\ seat' = [seat EXCEPT ![id] = "fix"]
     /\ UNCHANGED <<locals, workers, wall, fate, wakeBook, checkOf, before, owned>>

\* completeTree; a refusal of CompleteRoot is dropped.
CompleteTree ==
  /\ at = "complete" /\ goTo(then)
  /\ IF /\ rootEnd = "" /\ ~rootAwaitingWake /\ treeTerminal
        /\ Root \in Open(tasks) /\ refuseParked(tasks[Root])
     THEN CompleteRoot(TRUE) ELSE UNCHANGED planVars
  /\ ret' = NoReturn /\ then' = "pass"
  /\ UNCHANGED <<todo, seen, workers, wall, fate, wakeBook, rows>>

-----------------------------------------------------------------------------
(* Between passes, and the ways out.                                        *)

Tick ==
  /\ at = "select" /\ goTo("pass")
  /\ UNCHANGED <<planVars, locals, workers, wall, fate, wakeBook, rows>>

\* countLiveSpend reaches the dollar limit: every worker's context ends.
LiveLimit ==
  /\ at = "select" /\ "limit" \in World /\ limitHit = "" /\ goTo("pass")
  /\ reachLimit("cost", cancels, TRUE)
  /\ UNCHANGED <<planVars, locals, out, cancels, wall, dispatchedRoot, rootEnd, outcome,
                 wakeBook, rows>>

\* The elapsed limit: the workers' contexts end and their returns are absorbed.
Elapsed ==
  /\ at = "select" /\ "limit" \in World /\ limitHit # "time" /\ goTo("elapsed")
  /\ limitHit' = IF limitHit = "" THEN "time" ELSE limitHit
  /\ stopped' = stopped \cup cancels
  /\ UNCHANGED <<planVars, locals, out, cancels, wall, dispatchedRoot, rootEnd, outcome,
                 wakeBook, rows>>

Wall ==
  /\ at = "select" /\ wall # "" /\ goTo("wall")
  /\ UNCHANGED <<planVars, locals, workers, wall, fate, wakeBook, rows>>

AllHome ==
  /\ at \in {"elapsed", "wall"} /\ inFlight = 0
  /\ IF at = "wall" THEN goTo("drain") /\ outcome' = "incomplete"
     ELSE goTo("pass") /\ UNCHANGED outcome
  /\ UNCHANGED <<planVars, locals, workers, wall, limitHit, dispatchedRoot, rootEnd,
                 wakeBook, rows>>

\* drain: contexts first, then exactly the returns still owed; an ending is
\* dropped, its receipt is not.
DrainBegins ==
  /\ at = "drain" /\ goTo("draining") /\ letGo(cancels)
  /\ UNCHANGED <<planVars, locals, out, wall, fate, wakeBook, rows>>

DrainOne ==
  /\ at = "draining"
  /\ \E t \in AllIds : out[t] \in Kinds /\ out' = [out EXCEPT ![t] = "none"]
  /\ \E reached \in {FALSE, "limit" \in World} : reachLimit("cost", {}, reached)
  /\ UNCHANGED <<planVars, at, locals, cancels, wall, dispatchedRoot, rootEnd, outcome,
                 wakeBook, rows>>
\* Variant: the contexts are ended and nobody is waited for.
DrainedAtOnce ==
  /\ at = "draining" /\ goTo("end")
  /\ UNCHANGED <<planVars, locals, workers, wall, fate, wakeBook, rows>>

Drained ==
  /\ at = "draining" /\ inFlight = 0 /\ goTo("end")
  /\ UNCHANGED <<planVars, locals, workers, wall, fate, wakeBook, rows>>
\* Variant: only a limit writes the root's ending.
EndRootOnLimit ==
  /\ at = "end" /\ goTo("over")
  /\ IF outcome = "limit" /\ Root \in Open(tasks) THEN EndRoot ELSE UNCHANGED planVars
  /\ UNCHANGED <<locals, workers, wall, fate, wakeBook, rows>>

\* endRootOn, in Start: every ending of the run's own is written on its root,
\* but for a context somebody cancelled.
EndRootOn ==
  LET writes == outcome = "limit" \/ (outcome = "incomplete" /\ wall # "cancelled")
  IN /\ at = "end" /\ goTo("over")
     /\ IF writes /\ Root \in Open(tasks) THEN EndRoot ELSE UNCHANGED planVars
     /\ UNCHANGED <<locals, workers, wall, fate, wakeBook, rows>>

-----------------------------------------------------------------------------
(* The workers: external seats, seen through the store writes they make     *)
(* under their own id and the return they leave.                            *)

loopState == <<at, locals, wall, fate, wakeBook, checkOf, seat, owned>>

busy == {t \in AllIds : out[t] = "busy"}

WorkerAdds(t) ==
  /\ out[t] = "busy" /\ t \in DOMAIN tasks /\ ~tasks[t].waiting
  /\ \E id \in Planned \ DOMAIN tasks, kind \in DepKinds :
       \E up \in IF kind = "free" THEN {None} ELSE DOMAIN tasks \ Lineage(tasks, t) :
         AddMany([x \in {id} |-> [parent |-> t,
                   hard |-> IF kind = "hard" THEN {up} ELSE {},
                   soft |-> IF kind = "suggests" THEN {up} ELSE {}]])
  /\ UNCHANGED <<loopState, workers, before>>

WorkerDone(t) ==
  /\ out[t] = "busy" /\ Done(t, t, TRUE)
  /\ UNCHANGED <<loopState, workers, before>>

WorkerWaits(t) ==
  /\ out[t] = "busy" /\ "park" \in World /\ Wait(t, t)
  /\ before' = [before EXCEPT ![t] = {u \in AllIds : badEnding(tasks, u)}]
  /\ UNCHANGED <<loopState, workers>>

\* A parked row comes home as a wait; otherwise the worker answers in words, a
\* check perhaps with a finding, or with an error, its context's if that ended.
WorkerReturns(t) ==
  /\ out[t] = "busy"
  /\ \E kind \in Kinds :
       /\ IF t \in DOMAIN tasks /\ tasks[t].waiting
          THEN kind # "ok" /\ kind # "finding" ELSE kind # "waiting"
       /\ kind = "finding" => seat[t] = "check" /\ "finding" \in World
       /\ kind = "error" => "error" \in World
       /\ kind = "cut" => t \in stopped
       /\ out' = [out EXCEPT ![t] = kind]
  /\ UNCHANGED <<planVars, loopState, cancels, stopped, before>>

(* The world around the run.                                                *)

WallFalls ==
  /\ wall = "" /\ at \notin {"start", "over"}
  /\ wall' \in {"cancelled", "deadline"} \cap World
  /\ stopped' = stopped \cup busy
  /\ UNCHANGED <<planVars, at, locals, out, cancels, fate, wakeBook, rows>>

PersonCancels ==
  /\ \E id \in Cancellable : Cancel(id)
  /\ UNCHANGED <<loopState, workers, before>>

PersonStops ==
  /\ "stop" \in World /\ StopRoot
  /\ UNCHANGED <<loopState, workers, before>>

\* Another process deletes a part of the plan, or the plan whole.
PersonDeletes ==
  /\ \E id \in Removable : DeleteSubtree(id)
  /\ UNCHANGED <<loopState, workers, before>>

\* The process dies, or has ended with its run open, and another runs the plan:
\* the rows are all that is left.
Restart ==
  /\ "crash" \in World /\ at # "start"
  /\ at' = "start" /\ then' = "pass" /\ todo' = {} /\ seen' = NoPlan /\ ret' = NoReturn
  /\ out' = [t \in AllIds |-> "none"] /\ cancels' = {} /\ stopped' = {} /\ wall' = ""
  /\ limitHit' = "" /\ dispatchedRoot' = FALSE /\ rootEnd' = "" /\ outcome' = ""
  /\ wakes' = [t \in AllIds |-> 0] /\ reported' = [t \in AllIds |-> {}]
  /\ checkOf' = NoPlan /\ owned' = {}
  /\ UNCHANGED <<planVars, seat, before>>

-----------------------------------------------------------------------------
Pass == \/ Begin \/ ReleaseStale \/ ReleasedAll \/ PassBegins \/ ReadRoot \/ RootGone
        \/ FailTheRoot \/ LaunchRoot \/ ReadFrontier \/ ClaimReady \/ FrontierDone
        \/ WakeParked \/ ClearPark \/ SeatParked \/ WaitsDone
        \/ WakeParent \/ CloseAtCap \/ WakesDone

Absorb == \/ TakeReturn \/ LandNothing \/ LandRoot \/ LandWell \/ LandBadly \/ addReviewCheck
          \/ WriteDone \/ WriteFail \/ RecordFinding \/ CompleteTree

WaysOut == \/ Tick \/ LiveLimit \/ Elapsed \/ Wall \/ AllHome
           \/ DrainBegins \/ DrainOne \/ Drained \/ EndRootOn

Loop == Pass \/ Absorb \/ WaysOut

Worker(t) == WorkerAdds(t) \/ WorkerDone(t) \/ WorkerWaits(t) \/ WorkerReturns(t)

Befalls == WallFalls \/ PersonCancels \/ PersonStops \/ PersonDeletes \/ Restart

Over == at = "over" /\ UNCHANGED runVars

RunNext == Loop \/ (\E t \in AllIds : Worker(t)) \/ Befalls \/ Over
RunSpec == RunInit /\ [][RunNext]_runVars

\* The loop goroutine runs; a worker comes home in the end, whatever it does; a
\* claim nobody touches is stale in the end, and every pass looks.
FairRunSpec == /\ RunSpec /\ WF_runVars(Loop)
               /\ \A t \in AllIds : WF_runVars(WorkerReturns(t))
               /\ SF_runVars(ReleaseStale)

-----------------------------------------------------------------------------
(* Properties.                                                              *)

\* The run's own books hold what they are declared to hold.
RunTypeOK ==
  /\ out \in [AllIds -> {"none", "busy"} \cup Kinds]
  /\ cancels \cup stopped \cup todo \cup owned \subseteq AllIds
  /\ wall \in {"", "cancelled", "deadline"} /\ limitHit \in {"", "cost", "time"}
  /\ rootEnd \in {"", "failed", "cut"} /\ dispatchedRoot \in BOOLEAN
  /\ outcome \in {"", "done", "incomplete", "limit", "cannot run"}
  /\ wakes \in [AllIds -> Nat] /\ reported \in [AllIds -> SUBSET AllIds]
  /\ DOMAIN checkOf \subseteq Ids /\ checkOf \in [DOMAIN checkOf -> AllIds]
  /\ seat \in [AllIds -> {"work", "check", "fix"}]
  /\ before \in [AllIds -> SUBSET AllIds] /\ isPlan(seen)

\* Every ending writes the root's ending, or the next request over the store
\* adopts the run: only a context somebody cancelled, and a run that could not
\* begin, may leave the run's own task open.
EndingWritten ==
  (at = "over" /\ outcome \in {"done", "limit", "incomplete"} /\ wall # "cancelled")
     => Root \notin Open(tasks)

\* The word `done' is said of a finished plan: the run's own task did not end badly,
\* and work is left open only below a task that did (a parent may fail over open
\* children, and canFinish looks one level down).
DoneMeansDone ==
  (at = "over" /\ outcome = "done") =>
    /\ ~badEnding(tasks, Root)
    /\ \A t \in Open(tasks) : \E a \in tasks[t].above : badEnding(tasks, a)

\* No worker outlives its run: the word answered is the caller's licence to
\* close the store, so nobody is out and no return is unread once it is said.
NoWorkerOutlivesRun == at \in {"end", "over"} => inFlight = 0 /\ cancels = {}

\* The run ends: every road through claims, parks, wakes, reviews and failures
\* reaches an outcome word.
RunEnds == <>(at = "over")

\* A second worker of a task is only ever started beside one whose context has
\* been ended: no road forgets a cancel of a worker still out without calling it
\* (endCancelledWorkers, reachCostLimit, drain).
OneLiveWorker ==
  [][\A t \in AllIds : (t \notin cancels /\ t \in cancels' /\ out[t] # "none")
        => t \in stopped]_runVars

\* No task has two workers.  The code does not keep this where a task reopens
\* under its own worker.
OneWorkerPerTask ==
  [][\A t \in AllIds : (t \notin cancels /\ t \in cancels') => out[t] = "none"]_runVars

\* A limit ends the work in flight: once it is reached, every worker the run
\* still holds has had its context ended, whichever road reached it.
LimitEndsWork == limitHit # "" => busy \subseteq stopped

\* No run answers done while a finished piece of work has had no review round:
\* every leaf that ended done was read by a check, and the check has ended, unless
\* something above it ended badly.
ReviewedBeforeDone ==
  (ReviewRound /\ outcome = "done") =>
    \A t \in DOMAIN tasks :
      (IsDone(tasks, t) /\ seat[t] # "check" /\ Children(tasks, t) = {}) =>
         \E c \in DOMAIN checkOf \cap DOMAIN tasks :
            /\ checkOf[c] = t
            /\ c \in Open(tasks) => \E a \in tasks[c].above : badEnding(tasks, a)

\* What a parent's worker has been woken with: every child that is work, unless
\* it was woken its fill.
integrated(t) ==
  \/ wakes[t] >= MaxWakes
  \/ \A c \in Children(tasks, t) : seat[c] = "check" \/ c \in reported[t]

\* The woken-parent law for the run's own task: completeTree ends it only after
\* its worker was run again with what its children did.
RootIntegrates == [][(CompleteTree /\ tasks' # tasks) => integrated(Root)]_runVars

\* The same law for every other parent (waitsForWake): the run writes its result
\* only after its worker was run again with what its children did, unless a child
\* that wrote its own ending has not come home yet.
ParentsIntegrate ==
  [][(WriteDone /\ tasks' # tasks) =>
        \/ integrated(ret.task)
        \/ \E c \in Children(tasks, ret.task) : c \in cancels]_runVars

\* Where a run may stand for good.  A parent whose wakes are spent and whose children
\* have all landed is looked at only when a return is absorbed (completeTree), or asked
\* for a proof closeAtCap does not have; a parked task is not woken by an ending it
\* had before it parked; and tasks nobody works on may wait in a circle, as only hard
\* edges are searched for one.
standsAtCap(t) ==
  /\ tasks[t].composite /\ ~terminal(tasks[t].status) /\ t \notin cancels
  /\ childrenAllLanded(tasks, t, cancels) /\ wakes[t] >= MaxWakes
standsParked(t) ==
  /\ tasks[t].waiting /\ t \notin cancels
  /\ openWaits(tasks, t) \cap Open(tasks) = {} /\ waitMoved(tasks, t) = {}
standsInCircle(W) ==
  W # {} /\ \A t \in W : (IF tasks[t].waiting THEN openWaits(tasks, t) ELSE Children(tasks, t)) \cap W # {}

stands ==
  \/ \E t \in DOMAIN tasks : standsAtCap(t) \/ standsParked(t)
  \/ \E W \in SUBSET (Open(tasks) \ cancels) : standsInCircle(W)

\* A run another process takes up ends too, once processes stop dying, or stands for
\* good in one of these three places.
TakenOverRunEnds == ~([]<><<Restart>>_runVars) => (<>(at = "over") \/ <>[]stands)
=============================================================================
