------------------------------ MODULE Handoff ------------------------------
(***************************************************************************)
(* One conversation moving between a person's devices                      *)
(* (internal/cellsync, handoff, syncsetup/drive.go and take.go, with the   *)
(* upload boundary of cellstore/published.go).                             *)
(*                                                                         *)
(* A window on a device drives the conversation: it seals turns on the     *)
(* local disk, uploads them, and moves the head in the directory under the *)
(* fence it holds.  A window that lost its lease keeps the turns it had    *)
(* not published as a branch, a cell of its own.  Another device takes the *)
(* conversation: it keeps its own unpublished turns as a branch, fetches   *)
(* the head, takes the lease and replaces its tree.  Requests are made one *)
(* after the other and any answer may be lost; processes die anywhere.     *)
(*                                                                         *)
(* A turn is a number; past records its ancestors.  Every sealed turn is   *)
(* taken to carry work (bookkeeping saves, which LocalWork drops, are not  *)
(* turns here), and the edits a take seals before it keeps a tree are part *)
(* of that tree's tip.  The directory's time is a lease that is live (1)   *)
(* or has run out (0): TTL is 1 and now is 0.                              *)
(***************************************************************************)
EXTENDS LeaseRules, Sequences, FiniteSets

CONSTANTS
    Devices,
    Origin,         \* the device that starts the conversation
    Main,           \* its cell
    Branches,       \* ids a kept branch may get
    MaxTurns,       \* bound: turns sealed
    MaxFaults       \* bound: answers lost, takes that fail, crashes

ASSUME HandoffAssumption ==
    /\ Origin \in Devices /\ Main \notin Branches /\ TTL = 1
    /\ {MaxTurns, MaxFaults} \subseteq Nat

VARIABLES
    row,        \* the directory: the row of each cell
    past,       \* past[t]: turn t and its ancestors
    stored,     \* turns whose objects are all in the blob store
    disk,       \* per device: local head, published.json, branches.json
    proc,       \* per device: the process that drives or takes
    faults,     \* answers lost, takes failed, processes dead
    overwritten \* history: turns a late retry took out of a head (guards no step)

vars == <<row, past, stored, disk, proc, faults, overwritten>>

Blank == 0
Cells == {Main} \cup Branches
Turns == 1..Len(past)

\* A turn with everything it was sealed on.
Hist(t) == IF t = Blank THEN {} ELSE past[t]

\* What the directory keeps of turns, over all cells.
Shared == UNION {Hist(row[c].head) : c \in Cells}

NoCall == [device |-> NoDevice, fence |-> 0, head |-> Blank, live |-> FALSE]

\* A lease and head as a reading of the directory shows it.
Reading(r) == [device |-> r.device, fence |-> r.fence, head |-> r.head, live |-> Live(r, 0)]

\* mode: off, opening, driving or taking.  pc: the request the process makes
\* next.  id, fence, head are Driving; noted, stale, closing the Batcher's;
\* lost, sealing and asked (the fence a failed lease check was made under) the
\* Drive's; up is the turn being published, call the fence and head it is
\* published under, or what a take has seen.
Off == [mode |-> "off", pc |-> "idle", id |-> Main, fence |-> 0, head |-> Blank,
        noted |-> <<>>, stale |-> FALSE, lost |-> FALSE, sealing |-> FALSE,
        asked |-> {}, closing |-> FALSE, up |-> Blank, call |-> NoCall]

Driving(c, f, head, noted) ==
    [Off EXCEPT !.mode = "driving", !.id = c, !.fence = f, !.head = head, !.noted = noted]

Init ==
    /\ row = [c \in Cells |-> NoRow(Blank)]
    /\ past = <<>> /\ stored = {}
    /\ disk = [d \in Devices |-> [tip |-> Blank, mark |-> Blank, alias |-> Main]]
    /\ proc = [d \in Devices |-> IF d = Origin THEN Driving(Main, 0, Blank, <<>>) ELSE Off]
    /\ faults = 0
    /\ overwritten = {}

-----------------------------------------------------------------------------
\* Requests.

Becomes(d, p) == proc' = [proc EXCEPT ![d] = p]
Rows(c, r) == row' = [row EXCEPT ![c] = r]

Fault == faults < MaxFaults /\ faults' = faults + 1

\* The answer of a request that was carried out arrives, or is lost.
Answered == UNCHANGED faults
Unanswered == Fault

\* A request that failed: the flush rests and tries again, Close gives up.
Failed(p) == IF p.closing THEN Off ELSE [p EXCEPT !.pc = "idle", !.up = Blank, !.call = NoCall]

Newest(noted) == noted[Len(noted)]

\* Variant: new work is refused only once the orphans are kept.
DisplacingLater(p) == [p EXCEPT !.stale = TRUE, !.asked = {}]

\* lost: the window is a viewer and what it has noted are orphans (setStale).
Displacing(p) == [p EXCEPT !.stale = TRUE, !.lost = TRUE, !.asked = {}]

\* Variant: a publish forgets every noted turn, those sealed meanwhile too.
DurableAll(noted, head) == <<>>

\* durable: forget the noted turns up to and including head.
Durable(noted, head) ==
    IF \E i \in 1..Len(noted) : noted[i] = head
    THEN SubSeq(noted, (CHOOSE i \in 1..Len(noted) : noted[i] = head) + 1, Len(noted))
    ELSE noted

\* KnowsHead, Extends: the head is one this tree was sealed on.
KnowsHead(d, head) == head = Blank \/ head \in Hist(disk[d].tip)

\* Variant: only a tree that is behind nothing is asked about.
UnpublishedHere(d) == disk[d].tip # Blank /\ disk[d].mark = Blank

\* Unpublished, LocalWork: the tree holds work beyond the upload boundary.
Unpublished(d) == disk[d].tip # Blank /\ disk[d].tip # disk[d].mark

-----------------------------------------------------------------------------
\* Sealing.

SealSlots == MaxTurns - Len(past) - Cardinality({e \in Devices : proc[e].sealing})

\* A seal passes the gate under sealMu.
StartSeal(d) ==
    /\ proc[d].mode = "driving" /\ ~proc[d].lost /\ ~proc[d].closing /\ ~proc[d].sealing
    /\ SealSlots > 0
    /\ Becomes(d, [proc[d] EXCEPT !.sealing = TRUE])
    /\ UNCHANGED <<row, past, stored, disk, faults, overwritten>>

Sealed(d) ==
    /\ past' = Append(past, Hist(disk[d].tip) \cup {Len(past) + 1})
    /\ disk' = [disk EXCEPT ![d].tip = Len(past) + 1]

\* stamping.Seal, then Note.
EndSeal(d) ==
    /\ proc[d].sealing
    /\ Sealed(d)
    /\ Becomes(d, [proc[d] EXCEPT !.sealing = FALSE, !.noted = Append(@, Len(past) + 1)])
    /\ UNCHANGED <<row, stored, faults, overwritten>>

\* A window whose drive could not start carries on unsynced.
SealAlone(d) ==
    /\ proc[d].mode = "off" /\ disk[d].tip # Blank /\ SealSlots > 0
    /\ Sealed(d)
    /\ UNCHANGED <<row, stored, proc, faults, overwritten>>

-----------------------------------------------------------------------------
\* Publishing (Batcher.drain, Publisher.publish).

\* Variant: the head is named before its objects are in the store.
UploadLater(head) == UNCHANGED stored

Upload(head) == stored' = stored \cup Hist(head)

\* drain: the newest turn, under the fence and over the head Driving has.
Flush(d) ==
    LET p == proc[d] IN
    /\ p.mode = "driving" /\ p.pc = "idle" /\ p.noted # <<>> /\ ~p.stale
    /\ Upload(Newest(p.noted))
    /\ Becomes(d, [p EXCEPT !.pc = "send", !.up = Newest(p.noted),
                      !.call = [NoCall EXCEPT !.fence = p.fence, !.head = p.head]])
    /\ UNCHANGED <<row, past, disk, faults, overwritten>>

\* The publish succeeded: adopt, durable, OnFlush.
Published(d, f) ==
    /\ Becomes(d, [Failed([proc[d] EXCEPT !.closing = FALSE])
                     EXCEPT !.closing = proc[d].closing, !.fence = f, !.head = proc[d].up,
                            !.noted = Durable(proc[d].noted, proc[d].up)])
    /\ disk' = [disk EXCEPT ![d].mark = proc[d].up]
    /\ Answered

Unheard(d) == Becomes(d, Failed(proc[d])) /\ Unanswered /\ UNCHANGED disk
Refused(d) == Becomes(d, Failed(proc[d])) /\ Answered /\ UNCHANGED <<row, disk>>

Create(d) ==
    LET p == proc[d] IN
    /\ p.pc = "send" /\ p.call.fence = 0 /\ ~Exists(row[p.id])
    /\ Rows(p.id, Created(d, p.up, 0))
    /\ Published(d, 1) \/ Unheard(d)
    /\ UNCHANGED <<past, stored, overwritten>>

\* resume: the cell is there already; take its lease back and carry on.
Resume(d) ==
    LET p == proc[d]
        r == Acquire(row[p.id], d, 0) IN
    /\ p.pc = "send" /\ p.call.fence = 0 /\ Exists(row[p.id])
    /\ \/ /\ AcquireAllowed(row[p.id], d, 0, FALSE, {})
          /\ Rows(p.id, r)
          /\ \/ r.head = p.up /\ Published(d, r.fence)
             \/ /\ r.head # p.up
                /\ Becomes(d, [p EXCEPT !.call = [NoCall EXCEPT !.fence = r.fence, !.head = r.head]])
                /\ UNCHANGED <<disk, faults>>
             \/ Unheard(d)
       \/ ~AcquireAllowed(row[p.id], d, 0, FALSE, {}) /\ Refused(d)
    /\ UNCHANGED <<past, stored, overwritten>>

\* A first publish that was retried (resume), meets a head its turns were not
\* sealed on and moves it all the same: no road asks KnowsHead here.
LateRetry(d) ==
    LET p == proc[d] IN
    p.fence = 0 /\ p.call.fence # 0 /\ p.call.head \notin Hist(p.up)

\* The directory's check of a publish (PublishTo).
MoveAllowed(r, d, call) == holder(r, d, call.fence) /\ r.head = call.head

Move(d) ==
    LET p == proc[d] IN
    /\ p.pc = "send" /\ p.call.fence # 0
    /\ \/ /\ MoveAllowed(row[p.id], d, p.call)
          /\ Rows(p.id, PublishTo(row[p.id], p.up, 0))
          /\ Published(d, p.call.fence) \/ Unheard(d)
          /\ overwritten' = IF LateRetry(d) THEN overwritten \cup Hist(p.call.head) ELSE overwritten
       \/ /\ holder(row[p.id], d, p.call.fence) /\ ~MoveAllowed(row[p.id], d, p.call)
          /\ Refused(d)
          /\ UNCHANGED overwritten
       \/ /\ ~holder(row[p.id], d, p.call.fence)    \* ErrSuperseded
          /\ Becomes(d, [Displacing(p) EXCEPT !.pc = "idle", !.up = Blank, !.call = NoCall])
          /\ UNCHANGED <<row, disk, faults, overwritten>>
    /\ UNCHANGED <<past, stored>>

-----------------------------------------------------------------------------
\* Losing the lease.

\* beat: renew, or learn that the lease is gone.
Beat(d) ==
    LET p == proc[d] IN
    /\ p.mode = "driving" /\ ~p.closing /\ ~p.stale /\ p.fence # 0
    /\ \/ /\ holder(row[p.id], d, p.fence) /\ ~Live(row[p.id], 0)
          /\ Rows(p.id, Heartbeat(row[p.id], 0))
          /\ UNCHANGED proc
       \/ /\ ~holder(row[p.id], d, p.fence) /\ p.pc = "idle"
          /\ Becomes(d, Displacing(p))
          /\ UNCHANGED row
    /\ UNCHANGED <<past, stored, disk, faults, overwritten>>

\* CheckLease: before every tool call, and on news of the directory.
CheckLease(d) ==
    LET p == proc[d]
        r == row[p.id] IN
    /\ p.mode = "driving" /\ ~p.closing /\ ~p.lost
    /\ Exists(r) /\ (~Live(r, 0) \/ ~holder(r, d, p.fence))
    /\ Becomes(d, [p EXCEPT !.lost = TRUE, !.asked = {p.fence}])
    /\ UNCHANGED <<row, past, stored, disk, faults, overwritten>>

\* Displaced, once no seal and no flush runs: the pending turns are orphans.
\* A flush that changed the fence in between may leave nothing to do.
Displaced(d) ==
    LET p == proc[d] IN
    /\ p.asked # {} /\ ~p.sealing /\ ~p.stale /\ ~p.closing
    /\ \/ p.pc = "idle" /\ Becomes(d, Displacing(p))
       \/ p.fence \notin p.asked /\ Becomes(d, [p EXCEPT !.asked = {}])
    /\ UNCHANGED <<row, past, stored, disk, faults, overwritten>>

\* BranchMap.Set: once the branch was created, the chat opens as it.
BranchMap(d, b, ok) == disk' = IF ok THEN [disk EXCEPT ![d].alias = b] ELSE disk

\* cell.NewID: an id no cell has had.
NewID == CHOOSE b \in Branches : ~Exists(row[b])

\* Brancher.Branch: upload, then a new cell with the orphaned head.  A branch
\* whose answer is lost is made again under another id.
Branch(d, head) ==
    /\ \E b \in Branches : ~Exists(row[b])
    /\ Upload(head)
    /\ Rows(NewID, Created(d, head, 0))

\* resolve, by the loss itself, the next flush or Close: the orphans become a
\* branch this window publishes to.  With none there is only a viewer.
KeepOrphans(d) ==
    LET p == proc[d]
        head == Newest(p.noted) IN
    /\ p.mode = "driving" /\ p.pc = "idle" /\ p.stale /\ p.noted # <<>>
    /\ Branch(d, head)
    /\ \E ok \in BOOLEAN :
         /\ BranchMap(d, NewID, ok)
         /\ IF ok
            THEN /\ Becomes(d, [p EXCEPT !.id = NewID, !.fence = 1, !.head = head, !.stale = FALSE,
                                  !.asked = {}, !.noted = Durable(@, head)])
                 /\ Answered
            ELSE Becomes(d, Failed(p)) /\ Unanswered
    /\ UNCHANGED <<past, overwritten>>

-----------------------------------------------------------------------------
\* Closing.

\* Variant: the lease is given back before the last publish.
DrainedNever(p) == TRUE

\* Close's loop: publish until nothing is pending.
Drained(p) == p.noted = <<>>

\* Drive.Close with turns to publish: no seal is under way and none starts,
\* no flush runs, and a failure from here on ends the window.
Close(d) ==
    LET p == proc[d] IN
    /\ p.mode = "driving" /\ ~p.closing /\ ~p.sealing /\ p.pc = "idle" /\ ~Drained(p)
    /\ Becomes(d, [p EXCEPT !.closing = TRUE])
    /\ UNCHANGED <<row, past, stored, disk, faults, overwritten>>

\* release: a lease already lost has nothing to release.
Quit(d) ==
    LET p == proc[d] IN
    /\ p.mode = "driving" /\ ~p.sealing /\ p.pc = "idle" /\ Drained(p)
    /\ IF p.fence # 0 /\ ~p.stale /\ holder(row[p.id], d, p.fence)
       THEN Rows(p.id, ReleaseOf(row[p.id], 0))
       ELSE UNCHANGED row
    /\ Becomes(d, Off)
    /\ UNCHANGED <<past, stored, disk, faults, overwritten>>

-----------------------------------------------------------------------------
\* Opening (Sync.driving): read, then take a lease that is free or one's own.

\* Variant: an unfamiliar head does not stop a window from driving.
MayDriveAny(d, head) == TRUE

\* The head is in this tree's ancestry; else the window only shows its copy.
MayDrive(d, head) == KnowsHead(d, head)

CatchUp(d, head) == IF disk[d].tip = head THEN <<>> ELSE <<disk[d].tip>>

OpenRead(d) ==
    LET c == disk[d].alias IN
    /\ proc[d].mode = "off" /\ disk[d].tip # Blank
    /\ \/ ~Exists(row[c]) /\ Becomes(d, Driving(c, 0, Blank, CatchUp(d, Blank)))
       \/ /\ Exists(row[c]) /\ MayDrive(d, row[c].head)
          /\ Becomes(d, [Off EXCEPT !.mode = "opening", !.id = c, !.call = Reading(row[c])])
    /\ UNCHANGED <<row, past, stored, disk, faults, overwritten>>

OpenAcquire(d) ==
    LET p == proc[d]
        r == Acquire(row[p.id], d, 0) IN
    /\ p.mode = "opening"
    /\ \/ /\ AcquireAllowed(row[p.id], d, 0, FALSE, {p.call})
          /\ \/ /\ Answered
                /\ IF MayDrive(d, r.head) /\ (p.call.live \/ r.head = p.call.head)
                   THEN /\ Rows(p.id, r)
                        /\ Becomes(d, Driving(p.id, r.fence, r.head, CatchUp(d, r.head)))
                   ELSE Rows(p.id, ReleaseOf(r, 0)) /\ Becomes(d, Off)
             \/ Unanswered /\ Rows(p.id, r) /\ Becomes(d, Off)
       \/ /\ ~AcquireAllowed(row[p.id], d, 0, FALSE, {p.call})
          /\ Becomes(d, Off)
          /\ UNCHANGED <<row, faults>>
    /\ UNCHANGED <<past, stored, disk, overwritten>>

-----------------------------------------------------------------------------
\* Taking (Taker.TakeSeen): read, keep, fetch and acquire, install, hooks.

TakeRead(d) ==
    LET r == row[Main] IN
    /\ proc[d].mode = "off" /\ Exists(r)
    /\ ~(KnowsHead(d, r.head) /\ r.device = d /\ Live(r, 0))    \* AlreadyHere
    /\ Becomes(d, [Off EXCEPT !.mode = "taking", !.call = Reading(r),
                              !.pc = IF Unpublished(d) THEN "keep" ELSE "claim"])
    /\ UNCHANGED <<row, past, stored, disk, faults, overwritten>>

\* keepLocal: the branch is made with no mapping, the chat keeps its id.
TakeKeep(d) ==
    /\ proc[d].mode = "taking" /\ proc[d].pc = "keep"
    /\ Branch(d, disk[d].tip)
    /\ \/ Answered /\ Becomes(d, [proc[d] EXCEPT !.pc = "claim"])
       \/ Unanswered /\ Becomes(d, Off)
    /\ UNCHANGED <<past, disk, overwritten>>

\* fetchAndAcquire: everything the head needs is here before the lease is
\* asked for, from the holder that was seen and no other.
TakeClaim(d) ==
    LET p == proc[d]
        r == Acquire(row[Main], d, 0) IN
    /\ p.mode = "taking" /\ p.pc = "claim" /\ Hist(p.call.head) \subseteq stored
    /\ \/ /\ AcquireAllowed(row[Main], d, 0, p.call.live, {p.call})
          /\ Rows(Main, r)
          /\ \/ Answered /\ Becomes(d, [p EXCEPT !.pc = "place", !.fence = r.fence, !.head = r.head])
             \/ Unanswered /\ Becomes(d, Off)
       \/ /\ ~AcquireAllowed(row[Main], d, 0, p.call.live, {p.call})
          /\ Becomes(d, Off)
          /\ UNCHANGED <<row, faults>>
    /\ UNCHANGED <<past, stored, disk, overwritten>>

\* install: the fetched tree replaces the local one.  The boundary the tree
\* arrives with is the old note or the head just adopted.
TakePlace(d) ==
    LET p == proc[d] IN
    /\ p.mode = "taking" /\ p.pc = "place" /\ Hist(p.head) \subseteq stored
    /\ \E m \in {disk[d].mark, p.head} :
         disk' = [disk EXCEPT ![d].tip = p.head, ![d].mark = m]
    /\ Becomes(d, [p EXCEPT !.pc = "hooks"])
    /\ UNCHANGED <<row, past, stored, faults, overwritten>>

\* The hooks ran and the arrival is noted; the chat opens with the lease held.
TakeDone(d) ==
    /\ proc[d].mode = "taking" /\ proc[d].pc = "hooks"
    /\ disk' = [disk EXCEPT ![d].mark = proc[d].head]
    /\ Becomes(d, Off)
    /\ UNCHANGED <<row, past, stored, faults, overwritten>>

\* giveBack: a fetch, a move into place or a hook failed under the lease.
GiveBack(d) ==
    /\ proc[d].mode = "taking" /\ proc[d].pc \in {"place", "hooks"} /\ Fault
    /\ IF holder(row[Main], d, proc[d].fence)
       THEN Rows(Main, ReleaseOf(row[Main], 0))
       ELSE UNCHANGED row
    /\ Becomes(d, Off)
    /\ UNCHANGED <<past, stored, disk, overwritten>>

-----------------------------------------------------------------------------
\* The world.

\* The lease of the conversation runs out.  (That of a branch nobody else
\* takes here, so its clock is left out.)
Lapse ==
    /\ Live(row[Main], 0)
    /\ Rows(Main, [row[Main] EXCEPT !.expires = 0])
    /\ UNCHANGED <<past, stored, disk, proc, faults, overwritten>>

\* The process dies; in the middle of swap the tree is at neither place.
Crash(d) ==
    /\ proc[d].mode # "off" /\ Fault
    /\ Becomes(d, Off)
    /\ \/ UNCHANGED disk
       \/ /\ proc[d].pc = "place"
          /\ disk' = [disk EXCEPT ![d].tip = Blank, ![d].mark = Blank]
    /\ UNCHANGED <<row, past, stored, overwritten>>

Next ==
    \/ \E d \in Devices :
         \/ StartSeal(d) \/ EndSeal(d) \/ SealAlone(d)
         \/ Flush(d) \/ Create(d) \/ Resume(d) \/ Move(d)
         \/ Beat(d) \/ CheckLease(d) \/ Displaced(d) \/ KeepOrphans(d)
         \/ Close(d) \/ Quit(d) \/ OpenRead(d) \/ OpenAcquire(d)
         \/ TakeRead(d) \/ TakeKeep(d) \/ TakeClaim(d) \/ TakePlace(d)
         \/ TakeDone(d) \/ GiveBack(d) \/ Crash(d)
    \/ Lapse

Spec == Init /\ [][Next]_vars

-----------------------------------------------------------------------------
\* Properties.

\* The shape of the state; a mapping names a branch that exists, and a window
\* that has orphans to keep refuses new work (OnLost comes before resolve).
HandoffTypeOK ==
    /\ row \in [Cells -> RowType(Devices, 0..MaxTurns, 0..1)]
    /\ stored \subseteq Turns
    /\ \A t \in Turns : t \in past[t] /\ past[t] \subseteq 1..t
    /\ \A d \in Devices :
         /\ {disk[d].tip, disk[d].mark} \subseteq Turns \cup {Blank}
         /\ proc[d].stale => proc[d].lost
         /\ disk[d].alias = Main \/ Exists(row[disk[d].alias])
         /\ \A i \in 1..Len(proc[d].noted) : proc[d].noted[i] \in Hist(disk[d].tip)

\* "A takeover never destroys work" (handoff.go:2): every turn ever sealed is
\* below the head of a cell or in the tree of a device, through every take,
\* branch, lost answer and crash.  The code does not keep it: see WorkIsKept.
NoWorkLost ==
    \A t \in Turns : t \in Shared \/ \E d \in Devices : t \in Hist(disk[d].tip)

\* What is in the directory, or was until a late retry moved the head off it.
Reached == Shared \cup overwritten

\* What the code does keep: through every take, branch, lost answer and crash a
\* sealed turn is below a head or in a tree, unless it was published and a
\* retry of a first publish (Publisher.resume) then sent an older tree over it.
WorkIsKept ==
    \A t \in Turns : t \in Reached \/ \E d \in Devices : t \in Hist(disk[d].tip)

\* A head never moves before every object it names is in the store
\* (Publisher.Publish), so whoever reads a head can fetch it.
HeadsAreStored == Shared \subseteq stored

\* A published head replaces only heads it was sealed on: no window sends an
\* older tree over a newer one (Drive.catchUp).  The code does not keep it:
\* see HeadsMoveUp.
NothingOverwritten ==
    [][\A c \in Cells : Hist(row[c].head) \subseteq Hist(row'[c].head)]_row

\* What the code does keep: a head moves only to a turn sealed on it, but for the
\* retry of a first publish; no flush, take, branch, reopening or release lets
\* another road move it back.
HeadsMoveUp ==
    [][\A c \in Cells :
         \/ Hist(row[c].head) \subseteq Hist(row'[c].head)
         \/ \E d \in Devices :
              LateRetry(d) /\ proc[d].id = c /\ row'[c].head = proc[d].up]_row

\* A release is the clean-quit signal: the closing window's every turn has
\* reached the directory when it gives the lease back (Batcher.Close).
CleanQuit ==
    [][\A d \in Devices : Quit(d) => Hist(disk[d].tip) \subseteq Reached]_row

\* A window that drives and has nothing noted has nothing unpublished: no
\* publish, take or reopening forgets a turn sealed beside it.
NothingForgotten ==
    \A d \in Devices :
      proc[d].mode = "driving" /\ proc[d].noted = <<>> => Hist(disk[d].tip) \subseteq Reached
=============================================================================
