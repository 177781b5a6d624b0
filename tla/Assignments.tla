---------------------------- MODULE Assignments ----------------------------
(***************************************************************************)
(* Delegated workers in the directory (internal/clusterstate, worker.go and *)
(* assignment.go): a person assigns the work on one cell to a worker, the  *)
(* worker's process claims it, publishes and finishes.  A worker device    *)
(* runs one process after another (incarnations); an old process may go on *)
(* sending.                                                                *)
(*                                                                         *)
(* A command is accepted only when the reference, the expectation and the  *)
(* fence it carries match the rows it meets, so a late command is one that *)
(* is refused and changes nothing: the parameters of an accepted command   *)
(* are read from the rows, and which process sent it is kept.  What a      *)
(* refusal does leave behind is the answer saved for a claim, and that is  *)
(* modelled.  Signatures, grants, labels, the worker registry's size and   *)
(* the cells a certificate names (there is one cell) are left out.         *)
(***************************************************************************)
EXTENDS LeaseRules, FiniteSets, Sequences

CONSTANTS
    Workers,        \* delegated worker devices
    Person,         \* the person's devices, taken together
    Assigns,        \* assignment ids
    NoAssign,       \* an absent assignment row, an absent saved claim
    Window,         \* EvidenceWindowMillis
    CertUntil,      \* the expiry of the workers' certificates
    Leaving,        \* input: workers that may be drained or revoked
    Restarting,     \* input: workers that start a second process
    MaxFence, MaxClock, MaxIncarnation, MaxRevision, MaxBeats, MaxVersions, MaxTries

ASSUME AssignmentsAssumption ==
    /\ Person \notin Workers /\ NoDevice \notin Workers \cup {Person}
    /\ Leaving \subseteq Workers /\ Restarting \subseteq Workers
    /\ Window \in Nat /\ CertUntil \in Nat
    /\ MaxFence \in Nat \ {0} /\ MaxClock \in Nat \ {0}
    /\ MaxIncarnation \in Nat \ {0} /\ MaxRevision \in Nat \ {0} /\ MaxBeats \in Nat
    /\ MaxVersions \in Nat /\ MaxTries \in Nat

VARIABLES
    now,        \* committed directory time
    cell,       \* the cell row
    worker,     \* WorkerRecord per worker, with its device row's Revoked
    beats,      \* heartbeats signed by worker processes
    asg,        \* assignment rows
    slot,       \* the cell's assignment slot: which attempt, and is it active
    hold,       \* WorkerHold per worker: the process and the fence of its claim
    claims,     \* the answer saved for an assignment's claim
    answers,    \* history: claims told "OK", with the fence they were told
    granted,    \* history: which process was given which fence, and for what
    chain       \* history: the versions accepted and the process that wrote them

workRows == <<worker, asg, slot, hold, claims>>
workVars == <<now, cell, worker, beats, asg, slot, hold, claims, answers, granted, chain>>

Time == 0 .. MaxClock
Incarnations == 0 .. MaxIncarnation
Blank == 0
Heads == 0 .. MaxVersions
Processes == (Workers \X Incarnations) \cup {<<Person, 0>>}

\* AssignmentRef; the slot of a cell nobody ever assigned refers to nothing.
Ref == [id : Assigns, rev : 1 .. MaxRevision, target : Workers, inc : Incarnations]
NoRef == NoAssign

Statuses == {"pending", "claimed", "finished", "cancelled"}
NoClaim == [ref |-> NoAssign, seq |-> 0, fence |-> 0]
SavedClaim == [ref : Ref, seq : 1 .. MaxTries, fence : 0 .. MaxFence]
Attempt == [ref : Ref, status : Statuses, until : Time, fence : 0 .. MaxFence, head : Heads,
            expect : [device : Workers \cup {Person, NoDevice}, fence : 0 .. MaxFence],
            receipt : SavedClaim \cup {NoClaim}]

\* An absent row is told apart from every row.
ASSUME AbsentAssumption == NoAssign \notin Ref \cup SavedClaim \cup Attempt

WorkTypeOK ==
    /\ now \in Time
    /\ cell \in RowType(Workers \cup {Person}, Heads, 0 .. MaxClock + TTL)
    /\ cell.fence <= MaxFence
    /\ worker \in [Workers -> [inc : Incarnations, beat : 0 .. MaxBeats, seen : Time,
                               until : 0 .. MaxClock + TTL, draining : BOOLEAN, revoked : BOOLEAN]]
    /\ beats \subseteq [w : Workers, inc : Incarnations, seq : 1 .. MaxBeats, seen : Time,
                        work : 0 .. MaxFence]
    /\ asg \in [Assigns -> Attempt \cup {NoAssign}]
    /\ slot \in [ref : Ref \cup {NoRef}, active : BOOLEAN]
    /\ hold \in [Workers -> [inc : Incarnations, fence : 0 .. MaxFence]]
    /\ claims \in [Assigns -> SavedClaim \cup {NoAssign}]

Init ==
    /\ now = 1
    /\ cell = NoRow(Blank)
    /\ worker = [w \in Workers |-> [inc |-> 0, beat |-> 0, seen |-> 0, until |-> 0,
                                    draining |-> FALSE, revoked |-> FALSE]]
    /\ beats = {}
    /\ asg = [a \in Assigns |-> NoAssign]
    /\ slot = [ref |-> NoRef, active |-> FALSE]
    /\ hold = [w \in Workers |-> [inc |-> 0, fence |-> 0]]
    /\ claims = [a \in Assigns |-> NoAssign]
    /\ answers = {} /\ granted = <<>> /\ chain = <<>>

-----------------------------------------------------------------------------
(* The lease, as the person and a claim move it.                           *)

Give(by, for) == granted' = Append(granted, [by |-> by, for |-> for])
Extend(by, f) ==
    chain' = Append(chain, [by |-> by, fence |-> f, old |-> cell.head, head |-> Len(chain) + 1])

Tick ==
    /\ now < MaxClock
    /\ now' = now + 1
    /\ UNCHANGED <<cell, beats, workRows, answers, granted, chain>>

CreateCell ==
    /\ ~Exists(cell) /\ MaxVersions > 0
    /\ cell' = Created(Person, 1, now)
    /\ Give(<<Person, 0>>, NoRef)
    /\ chain' = <<[by |-> <<Person, 0>>, fence |-> 1, old |-> Blank, head |-> 1]>>
    /\ UNCHANGED <<now, beats, workRows, answers>>

\* The person opens the conversation: politely, or over a live holder.
PersonAcquire(force) ==
    /\ Exists(cell) /\ cell.fence < MaxFence
    /\ AcquireAllowed(cell, Person, now, force, {[device |-> cell.device, fence |-> cell.fence]})
    /\ cell' = Acquire(cell, Person, now)
    /\ Give(<<Person, 0>>, NoRef)
    /\ UNCHANGED <<now, beats, workRows, answers, chain>>

PersonPublish ==
    /\ Exists(cell) /\ holder(cell, Person, cell.fence) /\ Len(chain) < MaxVersions
    /\ cell' = PublishTo(cell, Len(chain) + 1, now)
    /\ Extend(<<Person, 0>>, cell.fence)
    /\ UNCHANGED <<now, beats, workRows, answers, granted>>

-----------------------------------------------------------------------------
(* Workers and their processes.                                            *)

\* workerAuthority: not revoked, certificate still good.
workerAuthority(w) == ~worker[w].revoked /\ now < CertUntil

\* RegisterWorker: the next process; heartbeats and availability start again,
\* a drained worker stays drained.
RegisterWorker(w) ==
    /\ workerAuthority(w) /\ worker[w].inc < (IF w \in Restarting THEN MaxIncarnation ELSE 1)
    /\ worker' = [worker EXCEPT ![w].inc = @ + 1, ![w].beat = 0, ![w].seen = 0, ![w].until = 0]
    /\ UNCHANGED <<now, cell, beats, asg, slot, hold, claims, answers, granted, chain>>

\* A process signs that it is alive, with the lease it works under if any.
SignBeat(w, i, busy) ==
    LET mine == {b \in beats : b.w = w /\ b.inc = i} IN
    /\ i \in 1 .. worker[w].inc /\ Cardinality(mine) < MaxBeats
    /\ busy => cell.device = w
    /\ beats' = beats \cup {[w |-> w, inc |-> i, seq |-> Cardinality(mine) + 1, seen |-> now,
                             work |-> IF busy THEN cell.fence ELSE 0]}
    /\ UNCHANGED <<now, cell, workRows, answers, granted, chain>>

\* checkWorkerHeartbeat: evidence once taken is taken again with its old
\* deadline; new evidence must be fresh and name only leases still held.
checkWorkerHeartbeat(b) ==
    /\ b.inc = worker[b.w].inc
    /\ \/ b.seq = worker[b.w].beat
       \/ /\ b.seq > worker[b.w].beat
          /\ now - b.seen <= Window /\ b.seen >= worker[b.w].seen
          /\ b.work # 0 => holder(cell, b.w, b.work)

Earlier(x, y) == IF x < y THEN x ELSE y

WorkerBeat(b) ==
    /\ workerAuthority(b.w) /\ checkWorkerHeartbeat(b)
    /\ worker' = [worker EXCEPT ![b.w] =
           [@ EXCEPT !.beat = b.seq, !.seen = b.seen, !.until = Earlier(b.seen + TTL, CertUntil)]]
    /\ UNCHANGED <<now, cell, beats, asg, slot, hold, claims, answers, granted, chain>>

DrainWorker(w) ==
    /\ workerAuthority(w) /\ worker[w].inc # 0
    /\ worker' = [worker EXCEPT ![w].draining = TRUE]
    /\ UNCHANGED <<now, cell, beats, asg, slot, hold, claims, answers, granted, chain>>

RevokeWorker(w) ==
    /\ worker' = [worker EXCEPT ![w].revoked = TRUE]
    /\ UNCHANGED <<now, cell, beats, asg, slot, hold, claims, answers, granted, chain>>

\* Variant: the process is not compared with the one that claimed.
authorizeAnyProcess(w, i) == workerAuthority(w) /\ i # 0

\* authorizeWorkerCommand for a write under a lease: the current process, and
\* the one whose claim gave the lease.
authorizeWorkerCommand(w, i) ==
    /\ workerAuthority(w) /\ i # 0
    /\ i = worker[w].inc
    /\ hold[w].inc # 0 => hold[w].inc = i

WorkerPublish(w, i) ==
    /\ Exists(cell) /\ Len(chain) < MaxVersions
    /\ i <= worker[w].inc /\ authorizeWorkerCommand(w, i) /\ holder(cell, w, cell.fence)
    /\ cell' = PublishTo(cell, Len(chain) + 1, now)
    /\ Extend(<<w, i>>, cell.fence)
    /\ UNCHANGED <<now, beats, workRows, answers, granted>>

WorkerRelease(w, i) ==
    /\ Exists(cell)
    /\ i <= worker[w].inc /\ authorizeWorkerCommand(w, i) /\ holder(cell, w, cell.fence)
    /\ cell' = ReleaseOf(cell, now)
    /\ UNCHANGED <<now, beats, workRows, answers, granted, chain>>

\* WorkerCanClaim.
WorkerCanClaim(w, i) ==
    /\ workerAuthority(w)
    /\ i # 0 /\ i = worker[w].inc /\ ~worker[w].draining /\ worker[w].until > now

-----------------------------------------------------------------------------
(* Assignments.                                                            *)

RefOf(a, rev, w) == [id |-> a, rev |-> rev, target |-> w, inc |-> worker[w].inc]
Open(a) == asg[a] # NoAssign /\ asg[a].status \in {"pending", "claimed"}
Lease == [device |-> cell.device, fence |-> cell.fence]

Pending(ref, until) ==
    [ref |-> ref, status |-> "pending", expect |-> Lease, until |-> until, fence |-> 0,
     head |-> Blank, receipt |-> NoClaim]

\* Assign: a new id for a cell with nothing under way.
Assign(a, w, until) ==
    /\ Exists(cell) /\ asg[a] = NoAssign /\ ~slot.active
    /\ until > now /\ WorkerCanClaim(w, worker[w].inc)
    /\ asg' = [asg EXCEPT ![a] = Pending(RefOf(a, 1, w), until)]
    /\ slot' = [ref |-> RefOf(a, 1, w), active |-> TRUE]
    /\ UNCHANGED <<now, cell, worker, beats, hold, claims, answers, granted, chain>>

\* Variant: the claim saved for the last attempt stays.
ReassignKeepsClaim(a, w, until) ==
    /\ Open(a) /\ asg[a].ref.rev < MaxRevision
    /\ slot.active => slot.ref.id = a /\ slot.ref.rev = asg[a].ref.rev
    /\ until > now /\ WorkerCanClaim(w, worker[w].inc)
    /\ LET r == RefOf(a, asg[a].ref.rev + 1, w) IN
         asg' = [asg EXCEPT ![a] = Pending(r, until)] /\ slot' = [ref |-> r, active |-> TRUE]
    /\ UNCHANGED <<now, cell, worker, beats, hold, claims, answers, granted, chain>>

\* Reassign: the next revision of an open assignment, under way or not; the
\* previous claimant's saved answer goes.
Reassign(a, w, until) ==
    /\ Open(a) /\ asg[a].ref.rev < MaxRevision
    /\ slot.active => slot.ref.id = a /\ slot.ref.rev = asg[a].ref.rev
    /\ until > now /\ WorkerCanClaim(w, worker[w].inc)
    /\ LET r == RefOf(a, asg[a].ref.rev + 1, w) IN
         asg' = [asg EXCEPT ![a] = Pending(r, until)] /\ slot' = [ref |-> r, active |-> TRUE]
    /\ claims' = [claims EXCEPT ![a] = NoAssign]
    /\ UNCHANGED <<now, cell, worker, beats, hold, answers, granted, chain>>

\* Variant: a cancel that looks at the assignment and not at the slot.
CancelAnySlot(a) ==
    /\ asg[a] # NoAssign /\ asg[a].status # "finished"
    /\ asg' = [asg EXCEPT ![a].status = "cancelled"]
    /\ slot' = [slot EXCEPT !.active = FALSE]
    /\ claims' = [claims EXCEPT ![a] = NoAssign]
    /\ UNCHANGED <<now, cell, worker, beats, hold, answers, granted, chain>>

\* CancelAssignment: the slot is free; the lease stays with who has it.
CancelAssignment(a) ==
    /\ asg[a] # NoAssign /\ slot.ref = asg[a].ref /\ asg[a].status # "finished"
    /\ asg' = [asg EXCEPT ![a].status = "cancelled"]
    /\ slot' = [slot EXCEPT !.active = FALSE]
    /\ claims' = [claims EXCEPT ![a] = NoAssign]
    /\ UNCHANGED <<now, cell, worker, beats, hold, answers, granted, chain>>

\* The number of the next claim request; one number answers one request.
NextTry(a) == IF claims[a] = NoAssign THEN 1 ELSE claims[a].seq + 1

\* A claim reaches evaluation: sent by the attempt's own process, and either
\* no answer is saved for the assignment or it is the answer before this one.
ClaimSent(a) ==
    /\ asg[a] # NoAssign
    /\ LET r == asg[a].ref IN workerAuthority(r.target) /\ r.inc = worker[r.target].inc
    /\ claims[a] # NoAssign => claims[a].ref = asg[a].ref
    /\ NextTry(a) <= MaxTries

\* Variant: an attempt that was claimed may be claimed again.
ClaimAllowedAgain(a) ==
    /\ slot.ref = asg[a].ref /\ slot.active /\ asg[a].status \in {"pending", "claimed"}
    /\ asg[a].until > now /\ WorkerCanClaim(asg[a].ref.target, asg[a].ref.inc)
    /\ cell.fence < MaxFence

\* Variant: a claim is not refused at the last fence.
ClaimUncapped(a) ==
    /\ slot.ref = asg[a].ref /\ slot.active /\ asg[a].status = "pending"
    /\ asg[a].until > now /\ WorkerCanClaim(asg[a].ref.target, asg[a].ref.inc)

ClaimAllowed(a) ==
    /\ slot.ref = asg[a].ref /\ slot.active /\ asg[a].status = "pending"
    /\ asg[a].until > now /\ WorkerCanClaim(asg[a].ref.target, asg[a].ref.inc)
    /\ cell.fence < MaxFence
    /\ AcquireAllowed(cell, asg[a].ref.target, now, TRUE, {asg[a].expect})

Saved(a, fence) == [ref |-> asg[a].ref, seq |-> NextTry(a), fence |-> fence]
ToldOf(c) == {[ref |-> c.ref, seq |-> c.seq, fence |-> c.fence]}

\* ClaimAssignment, accepted: the lease is taken over whoever holds it.
Claim(a) ==
    LET w == asg[a].ref.target
        taken == Acquire(cell, w, now) IN
    /\ ClaimSent(a) /\ ClaimAllowed(a)
    /\ cell' = taken
    /\ asg' = [asg EXCEPT ![a] = [@ EXCEPT !.status = "claimed", !.fence = taken.fence, !.head = cell.head]]
    /\ hold' = [hold EXCEPT ![w] = [inc |-> asg[a].ref.inc, fence |-> taken.fence]]
    /\ claims' = [claims EXCEPT ![a] = Saved(a, taken.fence)]
    /\ Give(<<w, asg[a].ref.inc>>, asg[a].ref)
    /\ answers' = answers \cup ToldOf(Saved(a, taken.fence))
    /\ UNCHANGED <<now, worker, beats, slot, chain>>

\* ClaimAssignment, refused: while the attempt is open the refusal is saved.
ClaimRefused(a) ==
    /\ ClaimSent(a) /\ ~ClaimAllowed(a) /\ Open(a)
    /\ claims' = [claims EXCEPT ![a] = Saved(a, 0)]
    /\ UNCHANGED <<now, cell, worker, beats, asg, slot, hold, answers, granted, chain>>

\* A claim delivered again: the saved answer, or the receipt once finished.
ClaimAgain(a) ==
    /\ asg[a] # NoAssign
    /\ LET r == asg[a].ref
           kept == IF asg[a].status = "finished" THEN asg[a].receipt ELSE claims[a] IN
         /\ workerAuthority(r.target) /\ r.inc = worker[r.target].inc
         /\ kept \notin {NoAssign, NoClaim} /\ kept.ref = r /\ kept.fence # 0
         /\ answers' = answers \cup ToldOf(kept)
    /\ UNCHANGED <<now, cell, worker, beats, asg, slot, hold, claims, granted, chain>>

\* Variant: the claim, once made, is enough to finish.
FinishAnyHolder(a) == asg[a].fence # 0
FinishFence(a) == holder(cell, asg[a].ref.target, asg[a].fence)

\* FinishAssignment: by the claiming process, while it still holds the lease
\* its claim gave, at the head it names; the saved claim becomes a receipt.
FinishAssignment(a) ==
    /\ asg[a] # NoAssign
    /\ LET r == asg[a].ref IN
         /\ workerAuthority(r.target) /\ r.inc = worker[r.target].inc
         /\ slot = [ref |-> r, active |-> TRUE] /\ asg[a].status = "claimed"
         /\ FinishFence(a) /\ cell.head # Blank
    /\ asg' = [asg EXCEPT ![a] = [@ EXCEPT !.status = "finished", !.head = cell.head,
                 !.receipt = IF claims[a] # NoAssign /\ claims[a].fence # 0 THEN claims[a]
                            ELSE asg[a].receipt]]
    /\ slot' = [slot EXCEPT !.active = FALSE]
    /\ claims' = [claims EXCEPT ![a] = NoAssign]
    /\ UNCHANGED <<now, cell, worker, beats, hold, answers, granted, chain>>

Next ==
    \/ Tick \/ CreateCell \/ PersonPublish
    \/ \E f \in BOOLEAN : PersonAcquire(f)
    \/ \E w \in Workers : RegisterWorker(w)
    \/ \E w \in Leaving : DrainWorker(w) \/ RevokeWorker(w)
    \/ \E w \in Workers, i \in Incarnations :
         (\E busy \in BOOLEAN : SignBeat(w, i, busy)) \/ WorkerPublish(w, i) \/ WorkerRelease(w, i)
    \/ \E b \in beats : WorkerBeat(b)
    \/ \E a \in Assigns, w \in Workers, u \in Time : Assign(a, w, u) \/ Reassign(a, w, u)
    \/ \E a \in Assigns : CancelAssignment(a) \/ Claim(a) \/ ClaimRefused(a)
                          \/ ClaimAgain(a) \/ FinishAssignment(a)

Spec == Init /\ [][Next]_workVars

-----------------------------------------------------------------------------
(* Properties.                                                             *)

\* Delegated work keeps the fenced cell, process by process: a version is
\* written by the very process whose claim was given the fence, never by one
\* that replaced it or that it replaced.
Fenced == INSTANCE FencedCell WITH
    Owners <- Processes, Versions <- Heads,
    granted <- [i \in DOMAIN granted |-> granted[i].by]
FencedByProcess == Fenced!Spec

\* At most one attempt is open on a cell, and the slot names it; the slot is
\* free exactly when none is.
OneOpenAttempt ==
    /\ \A a \in Assigns : asg[a] # NoAssign => (Open(a) <=> slot.active /\ slot.ref = asg[a].ref)
    /\ slot.active => \E a \in Assigns : Open(a)

\* An attempt is granted one fence, and every time its claim is answered "OK",
\* at once, again or after the finish, it is told that fence.
ClaimOnce ==
    /\ \A i, j \in DOMAIN granted :
         granted[i].for = granted[j].for /\ granted[i].for # NoRef => i = j
    /\ \A t \in answers :
         t.fence \in DOMAIN granted /\ granted[t.fence].for = t.ref

\* The answer saved for an assignment belongs to its present attempt: what an
\* earlier claimant was told never stands in the way of the next one.
SavedClaimIsCurrent ==
    \A a \in Assigns : claims[a] # NoAssign => Open(a) /\ claims[a].ref = asg[a].ref

\* A finished assignment names work done under its own claim: its fence was
\* given to the attempt, and its head is a version no later fence wrote.
FinishedUnderItsClaim ==
    \A a \in Assigns : asg[a] # NoAssign /\ asg[a].status = "finished" =>
        /\ granted[asg[a].fence].for = asg[a].ref
        /\ \E i \in DOMAIN chain : chain[i].head = asg[a].head /\ chain[i].fence <= asg[a].fence
=============================================================================
