-------------------------- MODULE AssignmentsProofs --------------------------
(* Theorems about delegated work, for every set of workers, every number of *)
(* assignments and every bound.                                             *)
EXTENDS Assignments, FiniteSetTheorems, SequenceTheorems, TLAPS

GivenFence == [by : Processes, for : Ref \cup {NoRef}]
Version == [by : Processes, fence : 1 .. MaxFence, old : Heads, head : Heads]
Rows == {r \in RowType(Workers \cup {Person}, Heads, 0 .. MaxClock + TTL) : r.fence <= MaxFence}

\* The rows WorkTypeOK speaks of, named.
WorkerRow == [inc : Incarnations, beat : 0 .. MaxBeats, seen : Time,
              until : 0 .. MaxClock + TTL, draining : BOOLEAN, revoked : BOOLEAN]
Beat == [w : Workers, inc : Incarnations, seq : 1 .. MaxBeats, seen : Time, work : 0 .. MaxFence]
Hold == [inc : Incarnations, fence : 0 .. MaxFence]
Slot == [ref : Ref \cup {NoRef}, active : BOOLEAN]

\* What the histories are made of; every assignment row refers to its own id.
Shapes ==
    /\ IsFiniteSet(beats)
    /\ answers \subseteq SavedClaim
    /\ granted \in Seq(GivenFence) /\ chain \in Seq(Version)
    /\ \A a \in Assigns : asg[a] # NoAssign => asg[a].ref.id = a

\* The row is the last grant and the last version, and no version carries a
\* later fence than the row.
RowIsLast ==
    /\ Len(granted) = cell.fence /\ Len(chain) = cell.head
    /\ Exists(cell) <=> chain # <<>>
    /\ \A i \in 1 .. Len(chain) : chain[i].head = i /\ chain[i].fence <= cell.fence

\* The process that was given the present fence: the person, or the worker's
\* process whose claim the worker's hold remembers.
HoldIsGrant ==
    Exists(cell) =>
      \/ cell.device = Person /\ granted[Len(granted)].by = <<Person, 0>>
      \/ /\ cell.device \in Workers /\ hold[cell.device].inc # 0
         /\ granted[Len(granted)].by = <<cell.device, hold[cell.device].inc>>

\* Only a cell that exists is assigned.
AssignedExists == \A a \in Assigns : asg[a] # NoAssign => Exists(cell)

Given(log, f, ref) == f \in 1 .. Len(log) /\ log[f].for = ref
GivenTo(f, ref) == Given(granted, f, ref)

\* A fence given for an attempt names an attempt that is or was: an older one
\* of its assignment, or the present one, which is then no longer pending and
\* holds that fence.
GrantsAreClaims ==
    \A i \in 1 .. Len(granted) : granted[i].for # NoRef =>
      LET r == granted[i].for
          a == asg[r.id] IN
      /\ r \in Ref /\ r.id \in Assigns /\ a # NoAssign /\ r.rev <= a.ref.rev
      /\ r.rev = a.ref.rev => a.status # "pending" /\ a.fence = i

\* A claimed or finished attempt holds the fence it was given, and so do the
\* answers and receipts saved for it.
ClaimsAreGrants ==
    /\ \A a \in Assigns : asg[a] # NoAssign =>
         /\ asg[a].status \in {"claimed", "finished"} => GivenTo(asg[a].fence, asg[a].ref)
         /\ asg[a].receipt # NoClaim => GivenTo(asg[a].receipt.fence, asg[a].receipt.ref)
    /\ \A a \in Assigns : claims[a] # NoAssign /\ claims[a].fence # 0 =>
         GivenTo(claims[a].fence, claims[a].ref)
    /\ \A t \in answers : GivenTo(t.fence, t.ref)

IInv == /\ WorkTypeOK /\ Shapes /\ RowIsLast /\ AssignedExists /\ HoldIsGrant /\ OneOpenAttempt
        /\ SavedClaimIsCurrent /\ GrantsAreClaims /\ ClaimsAreGrants /\ FinishedUnderItsClaim

-----------------------------------------------------------------------------
(* Histories only grow.                                                     *)

Grows(old, new) == /\ Len(old) \in Nat /\ Len(new) \in Nat /\ Len(old) <= Len(new)
                   /\ DOMAIN old = 1 .. Len(old) /\ DOMAIN new = 1 .. Len(new)
                   /\ \A i \in 1 .. Len(old) : new[i] = old[i]

\* One entry more, and the rest as before.
LEMMA AppendGrows ==
  ASSUME NEW S, NEW log \in Seq(S), NEW e \in S
  PROVE  /\ Append(log, e) \in Seq(S) /\ Grows(log, Append(log, e)) /\ Append(log, e) # <<>>
         /\ Len(Append(log, e)) = Len(log) + 1 /\ Append(log, e)[Len(log) + 1] = e
<1>1. /\ Append(log, e) \in Seq(S) /\ Len(Append(log, e)) = Len(log) + 1
      /\ Append(log, e)[Len(log) + 1] = e /\ Len(log) \in Nat
  OBVIOUS
<1>2. DOMAIN log = 1 .. Len(log) /\ DOMAIN Append(log, e) = 1 .. Len(log) + 1
  BY <1>1, LenProperties
<1>3. \A i \in 1 .. Len(log) : Append(log, e)[i] = log[i]
  OBVIOUS
<1>4. Append(log, e) # <<>>
  BY <1>1
<1> QED BY <1>1, <1>2, <1>3, <1>4 DEF Grows

\* No entry more is no loss either.
LEMMA SameGrows ==
  ASSUME NEW S, NEW log \in Seq(S)
  PROVE  Grows(log, log)
BY DEF Grows

\* What was granted stays granted.
LEMMA GivenStays ==
  ASSUME Grows(granted, granted'), NEW f, NEW r, GivenTo(f, r)
  PROVE  Given(granted', f, r)
BY DEF Grows, GivenTo, Given

\* Moves of the lease that are no claim leave the attempts as they were.
LEMMA AttemptsKept ==
  ASSUME IInv, UNCHANGED <<asg, slot, claims, answers>>,
         Grows(granted, granted'), Grows(chain, chain'),
         \A i \in 1 .. Len(granted') : i > Len(granted) => granted'[i].for = NoRef
  PROVE  (OneOpenAttempt /\ SavedClaimIsCurrent /\ GrantsAreClaims /\ ClaimsAreGrants
            /\ FinishedUnderItsClaim)'
<1>1. (OneOpenAttempt /\ SavedClaimIsCurrent)'
  BY DEF IInv, OneOpenAttempt, SavedClaimIsCurrent, Open
<1>2. GrantsAreClaims'
  BY DEF IInv, GrantsAreClaims, Grows
<1>3. ClaimsAreGrants'
  BY GivenStays DEF IInv, ClaimsAreGrants, GivenTo
<1>4. FinishedUnderItsClaim'
  <2> SUFFICES ASSUME NEW a \in Assigns, asg[a] # NoAssign, asg[a].status = "finished"
               PROVE  /\ granted'[asg[a].fence].for = asg[a].ref
                      /\ \E i \in DOMAIN chain' : chain'[i].head = asg[a].head
                                                 /\ chain'[i].fence <= asg[a].fence
    BY DEF FinishedUnderItsClaim
  <2>1. GivenTo(asg[a].fence, asg[a].ref)
    BY DEF IInv, ClaimsAreGrants
  <2>2. granted'[asg[a].fence].for = asg[a].ref
    BY <2>1, GivenStays DEF Given
  <2>3. PICK i \in DOMAIN chain : chain[i].head = asg[a].head /\ chain[i].fence <= asg[a].fence
    BY DEF IInv, FinishedUnderItsClaim
  <2>4. i \in DOMAIN chain' /\ chain'[i] = chain[i]
    BY <2>3 DEF Grows
  <2> QED BY <2>2, <2>3, <2>4
<1> QED BY <1>1, <1>2, <1>3, <1>4

\* Steps that move neither the lease nor an attempt.
LEMMA RowsKept ==
  ASSUME IInv, UNCHANGED <<cell, asg, slot, hold, claims, answers, granted, chain>>,
         WorkTypeOK', IsFiniteSet(beats')
  PROVE  IInv'
<1>1. Grows(granted, granted') /\ Grows(chain, chain')
  BY SameGrows DEF IInv, Shapes
<1>2. \A i \in 1 .. Len(granted') : i > Len(granted) => granted'[i].for = NoRef
  BY <1>1 DEF Grows
<1>3. (OneOpenAttempt /\ SavedClaimIsCurrent /\ GrantsAreClaims /\ ClaimsAreGrants
         /\ FinishedUnderItsClaim)'
  BY <1>1, <1>2, AttemptsKept
<1>4. (Shapes /\ RowIsLast /\ AssignedExists /\ HoldIsGrant)'
  BY DEF IInv, Shapes, RowIsLast, AssignedExists, HoldIsGrant
<1> QED BY <1>3, <1>4 DEF IInv

-----------------------------------------------------------------------------
(* The invariant, one lemma per kind of step.                               *)

\* WorkTypeOK, with the rows named.
Typed ==
    /\ now \in Time /\ cell \in Rows /\ worker \in [Workers -> WorkerRow] /\ beats \subseteq Beat
    /\ asg \in [Assigns -> Attempt \cup {NoAssign}] /\ slot \in Slot
    /\ hold \in [Workers -> Hold] /\ claims \in [Assigns -> SavedClaim \cup {NoAssign}]

\* The named form is the type invariant itself.
LEMMA TypedRows == WorkTypeOK <=> Typed
BY DEF WorkTypeOK, Typed, Rows, WorkerRow, Beat, Slot, Hold

\* Nothing is assigned and nothing granted at first.
LEMMA InitInv == Init => IInv
<1> SUFFICES ASSUME Init PROVE IInv
  OBVIOUS
<1> USE AssignmentsAssumption, TTLAssumption DEF Init, NoRow
<1>1. WorkTypeOK
  <2>1. now \in Time /\ cell \in RowType(Workers \cup {Person}, Heads, 0 .. MaxClock + TTL)
        /\ cell.fence <= MaxFence
    BY DEF Time, RowType, Heads, Blank
  <2>2. worker \in [Workers -> [inc : Incarnations, beat : 0 .. MaxBeats, seen : Time,
                               until : 0 .. MaxClock + TTL, draining : BOOLEAN, revoked : BOOLEAN]]
    BY DEF Incarnations, Time
  <2>3. /\ slot \in [ref : Ref \cup {NoRef}, active : BOOLEAN]
        /\ hold \in [Workers -> [inc : Incarnations, fence : 0 .. MaxFence]]
    BY DEF Incarnations
  <2> QED BY <2>1, <2>2, <2>3 DEF WorkTypeOK
<1>2. Shapes
  BY FS_EmptySet DEF Shapes
<1>3. RowIsLast /\ AssignedExists /\ HoldIsGrant
  BY DEF RowIsLast, AssignedExists, HoldIsGrant, Exists, Blank
<1>4. OneOpenAttempt /\ SavedClaimIsCurrent /\ GrantsAreClaims /\ ClaimsAreGrants
      /\ FinishedUnderItsClaim
  BY DEF OneOpenAttempt, SavedClaimIsCurrent, GrantsAreClaims, ClaimsAreGrants,
         FinishedUnderItsClaim, Open
<1> QED BY <1>1, <1>2, <1>3, <1>4 DEF IInv

\* Time, registrations, heartbeats and a worker's leaving.
LEMMA WorkersInv ==
  ASSUME IInv,
         \/ Tick
         \/ \E w \in Workers : RegisterWorker(w) \/ DrainWorker(w) \/ RevokeWorker(w)
         \/ \E w \in Workers, i \in Incarnations, busy \in BOOLEAN : SignBeat(w, i, busy)
         \/ \E b \in beats : WorkerBeat(b)
  PROVE  IInv'
<1> USE AssignmentsAssumption, TTLAssumption
<1>0. Typed
  BY TypedRows DEF IInv
<1>1. CASE Tick
  <2>1. now' \in Time
    BY <1>0, <1>1 DEF Tick, Time, Typed
  <2>2. UNCHANGED <<cell, worker, beats, asg, slot, hold, claims, answers, granted, chain>>
    BY <1>1 DEF Tick, workRows
  <2>3. WorkTypeOK' /\ IsFiniteSet(beats')
    BY <2>1, <2>2 DEF IInv, WorkTypeOK, Shapes
  <2> QED BY <2>2, <2>3, RowsKept
<1>2. ASSUME NEW w \in Workers, RegisterWorker(w) \/ DrainWorker(w) \/ RevokeWorker(w) PROVE IInv'
  <2>1. UNCHANGED <<now, cell, beats, asg, slot, hold, claims, answers, granted, chain>>
    BY <1>2 DEF RegisterWorker, DrainWorker, RevokeWorker
  <2>2. worker \in [Workers -> WorkerRow]
    BY <1>0 DEF Typed
  <2>3. PICK r \in WorkerRow : worker' = [worker EXCEPT ![w] = r]
    <3>1. CASE RegisterWorker(w)
      <4>1. worker[w].inc < MaxIncarnation
        <5>1. worker[w].inc < 1 \/ worker[w].inc < MaxIncarnation
          BY <3>1 DEF RegisterWorker
        <5>2. worker[w].inc \in Nat
          BY <2>2 DEF Incarnations, WorkerRow
        <5> QED BY <5>1, <5>2
      <4>2. worker[w].inc + 1 \in Incarnations
        BY <2>2, <4>1 DEF Incarnations, WorkerRow
      <4> DEFINE r == [worker[w] EXCEPT !.inc = @ + 1, !.beat = 0, !.seen = 0, !.until = 0]
      <4>3. 0 \in 0 .. MaxBeats /\ 0 \in Time /\ 0 \in 0 .. MaxClock + TTL
        BY DEF Time
      <4>4. r \in WorkerRow
        BY <2>2, <4>2, <4>3 DEF WorkerRow
      <4>5. worker' = [worker EXCEPT ![w] = r]
        BY <3>1, <2>2, <4>4 DEF RegisterWorker, WorkerRow
      <4> QED BY <4>4, <4>5
    <3>2. CASE DrainWorker(w)
      <4>1. [worker[w] EXCEPT !.draining = TRUE] \in WorkerRow
        BY <2>2 DEF WorkerRow
      <4> QED BY <2>2, <3>2, <4>1 DEF DrainWorker
    <3>3. CASE RevokeWorker(w)
      <4>1. [worker[w] EXCEPT !.revoked = TRUE] \in WorkerRow
        BY <2>2 DEF WorkerRow
      <4> QED BY <2>2, <3>3, <4>1 DEF RevokeWorker
    <3> QED BY <1>2, <3>1, <3>2, <3>3
  <2>4. worker' \in [Workers -> WorkerRow]
    BY <2>2, <2>3
  <2>5. WorkTypeOK' /\ IsFiniteSet(beats')
    BY <2>1, <2>4 DEF IInv, WorkTypeOK, Shapes, WorkerRow
  <2> QED BY <2>1, <2>5, RowsKept
<1>3. ASSUME NEW w \in Workers, NEW i \in Incarnations, NEW busy \in BOOLEAN, SignBeat(w, i, busy)
      PROVE  IInv'
  <2> DEFINE mine == {b \in beats : b.w = w /\ b.inc = i}
             new == [w |-> w, inc |-> i, seq |-> Cardinality(mine) + 1, seen |-> now,
                     work |-> IF busy THEN cell.fence ELSE 0]
  <2>1. /\ UNCHANGED <<now, cell, worker, asg, slot, hold, claims, answers, granted, chain>>
        /\ Cardinality(mine) < MaxBeats /\ beats' = beats \cup {new}
    BY <1>3 DEF SignBeat, workRows
  <2>2. Cardinality(mine) \in Nat
    <3>1. IsFiniteSet(beats) /\ mine \subseteq beats
      BY DEF IInv, Shapes
    <3> QED BY <3>1, FS_Subset, FS_CardinalityType
  <2>3. new \in Beat
    <3> HIDE DEF mine
    <3> QED BY <1>0, <2>1, <2>2 DEF Beat, Typed, Rows, RowType
  <2> HIDE DEF new
  <2>4. beats \subseteq Beat /\ beats' \subseteq Beat /\ IsFiniteSet(beats')
    <3>1. IsFiniteSet(beats)
      BY DEF IInv, Shapes
    <3> QED BY <1>0, <2>1, <2>3, <3>1, FS_AddElement DEF Typed
  <2>5. WorkTypeOK'
    BY <2>1, <2>4 DEF IInv, WorkTypeOK, Beat
  <2> QED BY <2>1, <2>4, <2>5, RowsKept
<1>4. ASSUME NEW b \in beats, WorkerBeat(b) PROVE IInv'
  <2>1. UNCHANGED <<now, cell, beats, asg, slot, hold, claims, answers, granted, chain>>
    BY <1>4 DEF WorkerBeat
  <2>2. b \in Beat /\ worker \in [Workers -> WorkerRow]
    BY <1>0 DEF Typed
  <2>3. /\ b.w \in Workers /\ b.seq \in 0 .. MaxBeats /\ b.seen \in Time
        /\ Earlier(b.seen + TTL, CertUntil) \in 0 .. MaxClock + TTL
    BY <2>2 DEF Earlier, Time, Beat
  <2> DEFINE r == [worker[b.w] EXCEPT !.beat = b.seq, !.seen = b.seen,
                                      !.until = Earlier(b.seen + TTL, CertUntil)]
  <2>4. r \in WorkerRow
    BY <2>2, <2>3, ZenonT(40) DEF WorkerRow
  <2>5. worker' = [worker EXCEPT ![b.w] = r]
    BY <1>4 DEF WorkerBeat
  <2>6. worker' \in [Workers -> WorkerRow]
    BY <2>2, <2>4, <2>5
  <2>7. WorkTypeOK' /\ IsFiniteSet(beats')
    BY <2>1, <2>6 DEF IInv, WorkTypeOK, Shapes, WorkerRow
  <2> QED BY <2>1, <2>7, RowsKept
<1> QED BY <1>1, <1>2, <1>3, <1>4

\* Taking the lease gives the next fence and keeps the head.
LEMMA AcquiredRow ==
  ASSUME cell \in Rows, cell.fence < MaxFence, now + TTL \in 0 .. MaxClock + TTL,
         NEW d \in Workers \cup {Person}
  PROVE  LET r == Acquire(cell, d, now) IN
         /\ r \in Rows /\ r.fence = cell.fence + 1 /\ r.device = d /\ r.head = cell.head
<1>1. cell.fence + 1 \in Nat /\ cell.fence + 1 <= MaxFence
  BY AssignmentsAssumption DEF Rows, RowType
<1>2. 0 \in 0 .. MaxClock + TTL
  BY AssignmentsAssumption, TTLAssumption
<1> QED BY <1>1, <1>2 DEF Acquire, Rows, RowType

\* The person's acquires and publishes, a worker's publishes and releases.
LEMMA LeaseInv ==
  ASSUME IInv,
         \/ CreateCell \/ PersonPublish
         \/ \E f \in BOOLEAN : PersonAcquire(f)
         \/ \E w \in Workers, i \in Incarnations : WorkerPublish(w, i) \/ WorkerRelease(w, i)
  PROVE  IInv'
<1> USE AssignmentsAssumption, TTLAssumption
<1>0. /\ Typed /\ granted \in Seq(GivenFence) /\ chain \in Seq(Version)
      /\ now + TTL \in 0 .. MaxClock + TTL /\ now \in 0 .. MaxClock + TTL
      /\ Person \in Workers \cup {Person} /\ <<Person, 0>> \in Processes
  BY TypedRows DEF IInv, Shapes, Typed, Time, Processes
<1>1. UNCHANGED <<now, worker, beats, asg, slot, hold, claims, answers>>
  BY DEF CreateCell, PersonPublish, PersonAcquire, WorkerPublish, WorkerRelease, workRows
<1>2. SUFFICES /\ cell' \in Rows /\ RowIsLast' /\ HoldIsGrant'
               /\ granted' \in Seq(GivenFence) /\ chain' \in Seq(Version)
               /\ Grows(granted, granted') /\ Grows(chain, chain')
               /\ \A i \in 1 .. Len(granted') : i > Len(granted) => granted'[i].for = NoRef
  <2>1. WorkTypeOK'
    BY <1>0, <1>1, <1>2 DEF Typed, WorkTypeOK, Rows, WorkerRow, Beat, Slot, Hold
  <2>2. Shapes'
    BY <1>1, <1>2 DEF IInv, Shapes
  <2>3. AssignedExists'
    BY <1>1, <1>2 DEF IInv, AssignedExists, RowIsLast, Exists, Grows
  <2> QED BY <1>1, <1>2, <2>1, <2>2, <2>3, AttemptsKept DEF IInv
<1>3. CASE CreateCell
  <2>1. ~Exists(cell) /\ granted = <<>> /\ chain = <<>>
    BY <1>0, <1>3 DEF CreateCell, IInv, RowIsLast, Exists
  <2> DEFINE g == [by |-> <<Person, 0>>, for |-> NoRef]
             v == [by |-> <<Person, 0>>, fence |-> 1, old |-> Blank, head |-> 1]
  <2>2. granted' = Append(granted, g) /\ chain' = Append(chain, v)
    BY <1>3, <2>1 DEF CreateCell, Give
  <2>3. 1 \in Heads /\ Blank \in Heads
    BY <1>3 DEF CreateCell, Heads, Blank
  <2>4. g \in GivenFence /\ v \in Version
    BY <1>0, <2>3 DEF GivenFence, Version
  <2>5. cell' = Created(Person, 1, now)
    BY <1>3 DEF CreateCell
  <2>6. cell' \in Rows /\ cell'.fence = 1 /\ cell'.device = Person /\ cell'.head = 1
    BY <1>0, <2>3, <2>5 DEF Created, Rows, RowType
  <2>7. /\ granted' \in Seq(GivenFence) /\ chain' \in Seq(Version)
        /\ Grows(granted, granted') /\ Grows(chain, chain')
        /\ Len(granted) = 0 /\ Len(chain) = 0
        /\ Len(granted') = 1 /\ granted'[1] = g /\ Len(chain') = 1 /\ chain'[1] = v
        /\ chain' # <<>>
    <3> HIDE DEF g, v
    <3>1. /\ granted' \in Seq(GivenFence) /\ Grows(granted, granted')
          /\ Len(granted') = Len(granted) + 1 /\ granted'[Len(granted) + 1] = g
      BY <1>0, <2>2, <2>4, AppendGrows
    <3>2. /\ chain' \in Seq(Version) /\ Grows(chain, chain') /\ chain' # <<>>
          /\ Len(chain') = Len(chain) + 1 /\ chain'[Len(chain) + 1] = v
      BY <1>0, <2>2, <2>4, AppendGrows
    <3>3. Len(granted) = 0 /\ Len(chain) = 0
      BY <2>1
    <3> QED BY <3>1, <3>2, <3>3
  <2>8. RowIsLast' /\ HoldIsGrant'
    BY <2>6, <2>7 DEF RowIsLast, HoldIsGrant, Exists
  <2> QED BY <2>6, <2>7, <2>8
<1>4. ASSUME NEW f \in BOOLEAN, PersonAcquire(f)
      PROVE /\ cell' \in Rows /\ RowIsLast' /\ HoldIsGrant'
            /\ granted' \in Seq(GivenFence) /\ chain' \in Seq(Version)
            /\ Grows(granted, granted') /\ Grows(chain, chain')
            /\ \A i \in 1 .. Len(granted') : i > Len(granted) => granted'[i].for = NoRef
  <2> DEFINE g == [by |-> <<Person, 0>>, for |-> NoRef]
  <2>1. granted' = Append(granted, g) /\ chain' = chain /\ cell' = Acquire(cell, Person, now)
    BY <1>4 DEF PersonAcquire, Give
  <2>2. g \in GivenFence
    BY <1>0 DEF GivenFence
  <2>3. Exists(cell) /\ cell.fence < MaxFence
    BY <1>4 DEF PersonAcquire
  <2>4. /\ cell' \in Rows /\ cell'.fence = cell.fence + 1 /\ cell'.device = Person
        /\ cell'.head = cell.head
    BY <1>0, <2>1, <2>3, AcquiredRow DEF Typed
  <2>5. /\ granted' \in Seq(GivenFence) /\ Grows(granted, granted') /\ Grows(chain, chain')
        /\ Len(granted') = Len(granted) + 1 /\ granted'[Len(granted) + 1] = g /\ Len(granted) \in Nat
    <3> HIDE DEF g
    <3> QED BY <1>0, <2>1, <2>2, AppendGrows, SameGrows
  <2>6. RowIsLast'
    <3>1. cell.fence \in Nat
      BY <1>0 DEF Typed, Rows, RowType
    <3>2. \A i \in 1 .. Len(chain) : chain[i] \in Version
      BY <1>0, ElementOfSeq
    <3>3. \A i \in 1 .. Len(chain) : chain[i].fence \in Nat
      BY <3>2 DEF Version
    <3> QED BY <3>3, <2>1, <2>3, <2>4, <2>5, <3>1 DEF IInv, RowIsLast, Exists
  <2>7. HoldIsGrant'
    BY <2>4, <2>5 DEF HoldIsGrant
  <2> QED BY <1>0, <2>1, <2>4, <2>5, <2>6, <2>7
<1>5. ASSUME NEW by \in Processes, Extend(by, cell.fence), cell' = PublishTo(cell, Len(chain) + 1, now),
             Exists(cell), Len(chain) < MaxVersions, granted' = granted
      PROVE /\ cell' \in Rows /\ RowIsLast' /\ HoldIsGrant'
            /\ granted' \in Seq(GivenFence) /\ chain' \in Seq(Version)
            /\ Grows(granted, granted') /\ Grows(chain, chain')
            /\ \A i \in 1 .. Len(granted') : i > Len(granted) => granted'[i].for = NoRef
  <2> DEFINE n == Len(chain) + 1
             v == [by |-> by, fence |-> cell.fence, old |-> cell.head, head |-> n]
  <2>1. Len(chain) \in Nat /\ n \in Heads /\ cell.fence \in 1 .. MaxFence /\ cell.head \in Heads
    BY <1>0, <1>5 DEF Heads, Typed, Rows, RowType, Exists
  <2>2. v \in Version
    <3> HIDE DEF n
    <3> QED BY <2>1 DEF Version
  <2>3. cell' \in Rows /\ cell'.fence = cell.fence /\ cell'.device = cell.device /\ cell'.head = n
    <3> HIDE DEF n
    <3>1. cell' = PublishTo(cell, n, now)
      BY <1>5 DEF n
    <3> QED BY <1>0, <2>1, <3>1 DEF PublishTo, Typed, Rows, RowType
  <2>4. chain' = Append(chain, v)
    BY <1>5 DEF Extend
  <2>5. /\ chain' \in Seq(Version) /\ Grows(granted, granted') /\ Grows(chain, chain')
        /\ Len(chain') = n /\ chain'[n] = v /\ chain' # <<>>
    <3> HIDE DEF v
    <3> QED BY <1>0, <1>5, <2>2, <2>4, AppendGrows, SameGrows
  <2>6. RowIsLast'
    <3>1. \A i \in 1 .. n : chain'[i].head = i /\ chain'[i].fence <= cell.fence
      <4> TAKE i \in 1 .. n
      <4>1. CASE i = n
        BY <2>1, <2>5, <4>1
      <4>2. CASE i # n
        BY <2>1, <2>5, <4>2 DEF IInv, RowIsLast, Grows
      <4> QED BY <4>1, <4>2
    <3> HIDE DEF n
    <3> QED BY <1>5, <2>3, <2>5, <3>1 DEF IInv, RowIsLast, Exists
  <2>7. HoldIsGrant'
    BY <1>1, <1>5, <2>3 DEF IInv, HoldIsGrant, Exists
  <2>8. \A i \in 1 .. Len(granted') : i > Len(granted) => granted'[i].for = NoRef
    BY <1>5, <2>5 DEF Grows
  <2> QED BY <1>0, <1>5, <2>3, <2>5, <2>6, <2>7, <2>8
<1>6. CASE PersonPublish
  BY <1>0, <1>5, <1>6 DEF PersonPublish
<1>7. ASSUME NEW w \in Workers, NEW i \in Incarnations, WorkerPublish(w, i)
      PROVE /\ cell' \in Rows /\ RowIsLast' /\ HoldIsGrant'
            /\ granted' \in Seq(GivenFence) /\ chain' \in Seq(Version)
            /\ Grows(granted, granted') /\ Grows(chain, chain')
            /\ \A j \in 1 .. Len(granted') : j > Len(granted) => granted'[j].for = NoRef
  <2>1. <<w, i>> \in Processes
    BY DEF Processes
  <2> QED BY <1>5, <1>7, <2>1 DEF WorkerPublish
<1>8. ASSUME NEW w \in Workers, NEW i \in Incarnations, WorkerRelease(w, i)
      PROVE /\ cell' \in Rows /\ RowIsLast' /\ HoldIsGrant'
            /\ granted' \in Seq(GivenFence) /\ chain' \in Seq(Version)
            /\ Grows(granted, granted') /\ Grows(chain, chain')
            /\ \A j \in 1 .. Len(granted') : j > Len(granted) => granted'[j].for = NoRef
  <2>1. cell' = ReleaseOf(cell, now) /\ granted' = granted /\ chain' = chain
    BY <1>8 DEF WorkerRelease
  <2>2. /\ cell' \in Rows /\ cell'.fence = cell.fence /\ cell'.device = cell.device
        /\ cell'.head = cell.head
    <3>1. 0 \in 0 .. MaxClock + TTL
      OBVIOUS
    <3> QED BY <1>0, <2>1, <3>1 DEF ReleaseOf, Typed, Rows, RowType
  <2>3. Grows(granted, granted') /\ Grows(chain, chain')
    BY <1>0, <2>1, SameGrows
  <2>4. RowIsLast' /\ HoldIsGrant'
    BY <1>1, <2>1, <2>2 DEF IInv, RowIsLast, HoldIsGrant, Exists
  <2>5. \A j \in 1 .. Len(granted') : j > Len(granted) => granted'[j].for = NoRef
    BY <2>1, <2>3 DEF Grows
  <2> QED BY <1>0, <2>1, <2>2, <2>3, <2>4, <2>5
<1> QED BY <1>3, <1>4, <1>6, <1>7, <1>8

-----------------------------------------------------------------------------
(* The attempts.                                                            *)

\* What is saved is of its kind, and told apart from what is absent.
LEMMA RowFacts ==
  ASSUME IInv
  PROVE  /\ Typed /\ NoClaim \notin SavedClaim
         /\ \A a \in Assigns : asg[a] # NoAssign =>
              asg[a] \in Attempt /\ asg[a].ref \in Ref /\ asg[a].ref.id = a
         /\ \A r \in Attempt : r # NoAssign /\ r.ref # NoAssign
         /\ \A c \in SavedClaim : c # NoAssign
<1>1. Typed
  BY TypedRows DEF IInv
<1>2. \A r \in Attempt : r # NoAssign /\ r.ref \in Ref
  BY AbsentAssumption DEF Attempt
<1>3. NoClaim \notin SavedClaim /\ \A c \in SavedClaim : c # NoAssign
  BY AbsentAssumption DEF NoClaim, SavedClaim
<1> QED BY <1>1, <1>2, <1>3, AbsentAssumption DEF Typed, IInv, Shapes

\* A new attempt: the first of an assignment nobody has seen, or the next
\* revision of an open one, whose saved claim goes.
LEMMA OpenedInv ==
  ASSUME IInv, NEW a \in Assigns, NEW w \in Workers, NEW u \in Time, NEW rev \in 1 .. MaxRevision,
         \/ asg[a] = NoAssign /\ ~slot.active /\ Exists(cell)
         \/ Open(a) /\ rev = asg[a].ref.rev + 1,
         asg' = [asg EXCEPT ![a] = Pending(RefOf(a, rev, w), u)],
         slot' = [ref |-> RefOf(a, rev, w), active |-> TRUE],
         claims' = [claims EXCEPT ![a] = NoAssign],
         UNCHANGED <<now, cell, worker, beats, hold, answers, granted, chain>>
  PROVE  IInv'
<1> DEFINE ref == RefOf(a, rev, w)
           row == Pending(ref, u)
<1>0. Typed
  BY RowFacts
<1>1. ref \in Ref /\ ref.id = a /\ ref.rev = rev
  BY <1>0 DEF RefOf, Ref, Typed, WorkerRow
<1>2. /\ row \in Attempt /\ row.ref = ref /\ row.status = "pending" /\ row.receipt = NoClaim
  <2> HIDE DEF ref
  <2>1. Lease \in [device : Workers \cup {Person, NoDevice}, fence : 0 .. MaxFence]
    BY <1>0, AssignmentsAssumption DEF Lease, Typed, Rows, RowType
  <2>2. 0 \in 0 .. MaxFence /\ Blank \in Heads
    BY AssignmentsAssumption DEF Blank, Heads
  <2> QED BY <1>1, <2>1, <2>2 DEF Pending, Attempt, Statuses
<1> HIDE DEF ref, row
<1>3. /\ asg' = [asg EXCEPT ![a] = row] /\ slot' = [ref |-> ref, active |-> TRUE]
      /\ asg'[a] = row /\ (\A b \in Assigns : b # a => asg'[b] = asg[b] /\ claims'[b] = claims[b])
      /\ claims'[a] = NoAssign
  BY <1>0 DEF ref, row, Typed
<1>4. asg[a] # NoAssign => slot.active /\ slot.ref = asg[a].ref
  BY DEF IInv, OneOpenAttempt, Open
<1>5. \A b \in Assigns : b # a => ~Open(b)
  BY <1>4, RowFacts DEF IInv, OneOpenAttempt, Open
<1>6. WorkTypeOK'
  BY <1>0, <1>1, <1>2, <1>3 DEF Typed, WorkTypeOK, Rows, WorkerRow, Beat, Slot, Hold
<1>7. Shapes' /\ RowIsLast' /\ AssignedExists' /\ HoldIsGrant'
  <2>1. Exists(cell)
    BY DEF IInv, AssignedExists, Open
  <2>2. AssignedExists'
    BY <2>1 DEF AssignedExists, Exists
  <2> QED BY <1>1, <1>2, <1>3, <2>2 DEF IInv, Shapes, RowIsLast, HoldIsGrant, Exists
<1>8. OneOpenAttempt'
  <2>1. row # NoAssign
    BY <1>2, RowFacts
  <2>2. Open(a)' /\ slot'.active /\ slot'.ref = asg'[a].ref
    BY <1>2, <1>3, <2>1 DEF Open
  <2>3. ASSUME NEW b \in Assigns, b # a, asg'[b] # NoAssign PROVE ~Open(b)' /\ slot'.ref # asg'[b].ref
    <3>1. asg'[b] = asg[b] /\ asg[b].ref.id = b /\ slot'.ref.id = a
      BY <1>1, <1>3, <2>3, RowFacts
    <3> QED BY <1>5, <2>3, <3>1 DEF Open
  <2> QED BY <2>2, <2>3 DEF OneOpenAttempt
<1>9. SavedClaimIsCurrent'
  BY <1>3 DEF IInv, SavedClaimIsCurrent, Open
<1>10. GrantsAreClaims'
  <2> SUFFICES ASSUME NEW i \in 1 .. Len(granted), granted[i].for # NoRef
               PROVE  LET r == granted[i].for
                          x == asg'[r.id] IN
                      /\ r \in Ref /\ r.id \in Assigns /\ x # NoAssign /\ r.rev <= x.ref.rev
                      /\ r.rev = x.ref.rev => x.status # "pending" /\ x.fence = i
    BY DEF GrantsAreClaims
  <2> DEFINE r == granted[i].for
  <2>1. /\ r \in Ref /\ r.id \in Assigns /\ asg[r.id] # NoAssign /\ r.rev <= asg[r.id].ref.rev
        /\ r.rev = asg[r.id].ref.rev => asg[r.id].status # "pending" /\ asg[r.id].fence = i
    BY DEF IInv, GrantsAreClaims
  <2> HIDE DEF r
  <2>2. CASE r.id # a
    BY <1>3, <2>1, <2>2 DEF r
  <2>3. CASE r.id = a
    <3>1. rev = asg[a].ref.rev + 1 /\ row # NoAssign
      BY <1>2, <2>1, <2>3, RowFacts
    <3>2. asg[a].ref.rev \in Nat /\ r.rev \in Nat
      BY <2>1, <2>3, RowFacts DEF Ref
    <3>3. r.rev < row.ref.rev /\ r.rev <= row.ref.rev
      BY <1>1, <1>2, <2>1, <2>3, <3>1, <3>2
    <3> QED BY <1>3, <2>1, <2>3, <3>1, <3>2, <3>3 DEF r
  <2> QED BY <2>2, <2>3
<1>11. ClaimsAreGrants'
  <2>1. \A b \in Assigns : asg'[b] # NoAssign =>
          /\ asg'[b].status \in {"claimed", "finished"} => GivenTo(asg'[b].fence, asg'[b].ref)
          /\ asg'[b].receipt # NoClaim => GivenTo(asg'[b].receipt.fence, asg'[b].receipt.ref)
    BY <1>2, <1>3 DEF IInv, ClaimsAreGrants
  <2>2. \A b \in Assigns : claims'[b] # NoAssign /\ claims'[b].fence # 0 =>
          GivenTo(claims'[b].fence, claims'[b].ref)
    BY <1>3 DEF IInv, ClaimsAreGrants
  <2>3. \A t \in answers : GivenTo(t.fence, t.ref)
    BY DEF IInv, ClaimsAreGrants
  <2> QED BY <2>1, <2>2, <2>3 DEF ClaimsAreGrants, GivenTo
<1>12. FinishedUnderItsClaim'
  BY <1>2, <1>3 DEF IInv, FinishedUnderItsClaim
<1> QED BY <1>6, <1>7, <1>8, <1>9, <1>10, <1>11, <1>12 DEF IInv

\* An assign and a reassign open an attempt.
LEMMA AssignInv ==
  ASSUME IInv, NEW a \in Assigns, NEW w \in Workers, NEW u \in Time, Assign(a, w, u) \/ Reassign(a, w, u)
  PROVE  IInv'
<1>1. CASE Assign(a, w, u)
  <2>1. claims[a] = NoAssign
    BY <1>1 DEF Assign, IInv, SavedClaimIsCurrent, Open
  <2>2. claims' = [claims EXCEPT ![a] = NoAssign]
    BY <1>1, <2>1, RowFacts DEF Assign, Typed
  <2>3. 1 \in 1 .. MaxRevision
    BY AssignmentsAssumption
  <2> QED BY <1>1, <2>2, <2>3, OpenedInv DEF Assign
<1>2. CASE Reassign(a, w, u)
  <2>1. asg[a].ref \in Ref /\ asg[a].ref.rev < MaxRevision /\ Open(a)
    BY <1>2, RowFacts DEF Reassign, Open
  <2>2. asg[a].ref.rev + 1 \in 1 .. MaxRevision
    BY <2>1, AssignmentsAssumption DEF Ref
  <2> QED BY <1>2, <2>1, <2>2, OpenedInv DEF Reassign
<1> QED BY <1>1, <1>2

\* The slot's attempt ends: cancelled, or finished under the fence it was
\* given; what it answered is gone or kept as its receipt.
LEMMA ClosedInv ==
  ASSUME IInv, NEW a \in Assigns, asg[a] # NoAssign, slot.ref = asg[a].ref, NEW row \in Attempt,
         row.ref = asg[a].ref, row.status \in {"cancelled", "finished"}, row.fence = asg[a].fence,
         \/ row.receipt = asg[a].receipt
         \/ claims[a] # NoAssign /\ claims[a].fence # 0 /\ row.receipt = claims[a],
         row.status = "finished" =>
           /\ GivenTo(row.fence, row.ref)
           /\ \E i \in DOMAIN chain : chain[i].head = row.head /\ chain[i].fence <= row.fence,
         asg' = [asg EXCEPT ![a] = row], slot' = [slot EXCEPT !.active = FALSE],
         claims' = [claims EXCEPT ![a] = NoAssign],
         UNCHANGED <<now, cell, worker, beats, hold, answers, granted, chain>>
  PROVE  IInv'
<1>0. Typed
  BY RowFacts
<1>1. /\ asg'[a] = row /\ slot' \in Slot /\ ~slot'.active /\ claims'[a] = NoAssign
      /\ \A b \in Assigns : b # a => asg'[b] = asg[b] /\ claims'[b] = claims[b]
  BY <1>0 DEF Typed, Slot
<1>2. \A b \in Assigns : b # a => ~Open(b)
  BY RowFacts DEF IInv, OneOpenAttempt, Open
<1>3. WorkTypeOK'
  BY <1>0, <1>1 DEF Typed, WorkTypeOK, Rows, WorkerRow, Beat, Slot, Hold
<1>4. Shapes' /\ RowIsLast' /\ AssignedExists' /\ HoldIsGrant'
  BY <1>1 DEF IInv, Shapes, RowIsLast, AssignedExists, HoldIsGrant, Exists
<1>5. OneOpenAttempt'
  <2>1. \A b \in Assigns : ~Open(b)'
    BY <1>1, <1>2 DEF Open
  <2> QED BY <1>1, <2>1 DEF OneOpenAttempt
<1>6. SavedClaimIsCurrent'
  BY <1>1 DEF IInv, SavedClaimIsCurrent, Open
<1>7. GrantsAreClaims'
  <2> SUFFICES ASSUME NEW i \in 1 .. Len(granted), granted[i].for # NoRef
               PROVE  LET r == granted[i].for
                          c == asg'[r.id] IN
                      /\ r \in Ref /\ r.id \in Assigns /\ c # NoAssign /\ r.rev <= c.ref.rev
                      /\ r.rev = c.ref.rev => c.status # "pending" /\ c.fence = i
    BY DEF GrantsAreClaims
  <2> DEFINE r == granted[i].for
  <2>1. /\ r \in Ref /\ r.id \in Assigns /\ asg[r.id] # NoAssign /\ r.rev <= asg[r.id].ref.rev
        /\ r.rev = asg[r.id].ref.rev => asg[r.id].status # "pending" /\ asg[r.id].fence = i
    BY DEF IInv, GrantsAreClaims
  <2>2. CASE r.id = a
    BY <1>1, <2>1, <2>2, RowFacts
  <2>3. CASE r.id # a
    BY <1>1, <2>1, <2>3
  <2> QED BY <2>2, <2>3
<1>8. ClaimsAreGrants'
  <2>1. /\ row.status \in {"claimed", "finished"} => GivenTo(row.fence, row.ref)
        /\ row.receipt # NoClaim => GivenTo(row.receipt.fence, row.receipt.ref)
    BY DEF IInv, ClaimsAreGrants
  <2>2. \A b \in Assigns : asg'[b] # NoAssign =>
          /\ asg'[b].status \in {"claimed", "finished"} => GivenTo(asg'[b].fence, asg'[b].ref)
          /\ asg'[b].receipt # NoClaim => GivenTo(asg'[b].receipt.fence, asg'[b].receipt.ref)
    BY <1>1, <2>1 DEF IInv, ClaimsAreGrants
  <2>3. \A b \in Assigns : claims'[b] # NoAssign /\ claims'[b].fence # 0 =>
          GivenTo(claims'[b].fence, claims'[b].ref)
    BY <1>1 DEF IInv, ClaimsAreGrants
  <2>4. \A t \in answers : GivenTo(t.fence, t.ref)
    BY DEF IInv, ClaimsAreGrants
  <2> QED BY <2>2, <2>3, <2>4 DEF ClaimsAreGrants, GivenTo
<1>9. FinishedUnderItsClaim'
  <2> SUFFICES ASSUME NEW b \in Assigns, asg'[b] # NoAssign, asg'[b].status = "finished"
               PROVE  /\ granted[asg'[b].fence].for = asg'[b].ref
                      /\ \E i \in DOMAIN chain : chain[i].head = asg'[b].head
                                                 /\ chain[i].fence <= asg'[b].fence
    BY DEF FinishedUnderItsClaim
  <2>1. CASE b = a
    BY <1>1, <2>1 DEF GivenTo, Given
  <2>2. CASE b # a
    BY <1>1, <2>2 DEF IInv, FinishedUnderItsClaim
  <2> QED BY <2>1, <2>2
<1> QED BY <1>3, <1>4, <1>5, <1>6, <1>7, <1>8, <1>9 DEF IInv

\* A cancel closes the slot's attempt and forgets its saved claim.
LEMMA CancelInv == ASSUME IInv, NEW a \in Assigns, CancelAssignment(a) PROVE IInv'
<1> DEFINE row == [asg[a] EXCEPT !.status = "cancelled"]
<1>1. asg[a] # NoAssign /\ asg[a] \in Attempt /\ slot.ref = asg[a].ref
  BY RowFacts DEF CancelAssignment
<1>2. /\ row \in Attempt /\ row.ref = asg[a].ref /\ row.status = "cancelled"
      /\ row.fence = asg[a].fence /\ row.receipt = asg[a].receipt
  BY <1>1 DEF Attempt, Statuses
<1>3. /\ asg' = [asg EXCEPT ![a] = row] /\ slot' = [slot EXCEPT !.active = FALSE]
      /\ claims' = [claims EXCEPT ![a] = NoAssign]
      /\ UNCHANGED <<now, cell, worker, beats, hold, answers, granted, chain>>
  BY DEF CancelAssignment
<1> HIDE DEF row
<1> QED BY <1>1, <1>2, <1>3, ClosedInv

\* A finish is under the fence of the claim, at the head of the row.
LEMMA FinishInv == ASSUME IInv, NEW a \in Assigns, FinishAssignment(a) PROVE IInv'
<1> DEFINE row == [asg[a] EXCEPT !.status = "finished", !.head = cell.head,
                     !.receipt = IF claims[a] # NoAssign /\ claims[a].fence # 0 THEN claims[a]
                                 ELSE asg[a].receipt]
<1>1. /\ asg[a] # NoAssign /\ asg[a] \in Attempt /\ slot.ref = asg[a].ref
      /\ asg[a].status = "claimed" /\ cell.fence = asg[a].fence /\ cell.head # Blank
  BY RowFacts DEF FinishAssignment, FinishFence, holder
<1>2. /\ row \in Attempt /\ row.ref = asg[a].ref /\ row.status = "finished"
      /\ row.fence = asg[a].fence /\ row.head = cell.head
      /\ \/ row.receipt = asg[a].receipt
         \/ claims[a] # NoAssign /\ claims[a].fence # 0 /\ row.receipt = claims[a]
  <2>1. cell.head \in Heads /\ claims[a] \in SavedClaim \cup {NoAssign}
    BY RowFacts DEF Typed, Rows, RowType
  <2> QED BY <1>1, <2>1 DEF Attempt, Statuses
<1>3. /\ asg' = [asg EXCEPT ![a] = row] /\ slot' = [slot EXCEPT !.active = FALSE]
      /\ claims' = [claims EXCEPT ![a] = NoAssign]
      /\ UNCHANGED <<now, cell, worker, beats, hold, answers, granted, chain>>
  BY DEF FinishAssignment
<1>4. GivenTo(asg[a].fence, asg[a].ref)
  BY <1>1 DEF IInv, ClaimsAreGrants
<1>5. \E i \in DOMAIN chain : chain[i].head = cell.head /\ chain[i].fence <= asg[a].fence
  <2>1. chain \in Seq(Version) /\ Len(chain) = cell.head /\ cell.head # 0
    BY <1>1 DEF IInv, Shapes, RowIsLast, Blank
  <2>2. Len(chain) \in DOMAIN chain /\ Len(chain) \in 1 .. Len(chain)
    BY <2>1
  <2> QED BY <1>1, <2>1, <2>2 DEF IInv, RowIsLast
<1> HIDE DEF row
<1> QED BY <1>1, <1>2, <1>3, <1>4, <1>5, ClosedInv

\* What is saved for a claim sent.
LEMMA SavedType ==
  ASSUME IInv, NEW a \in Assigns, ClaimSent(a), NEW f \in 0 .. MaxFence
  PROVE  Saved(a, f) \in SavedClaim /\ Saved(a, f).ref = asg[a].ref /\ Saved(a, f).fence = f
<1>1. asg[a] # NoAssign /\ NextTry(a) <= MaxTries
  BY DEF ClaimSent
<1>2. asg[a].ref \in Ref
  BY <1>1, RowFacts
<1>3. NextTry(a) \in 1 .. MaxTries
  <2>1. claims[a] = NoAssign \/ claims[a].seq \in 1 .. MaxTries
    BY RowFacts DEF Typed, SavedClaim
  <2> QED BY <1>1, <2>1, AssignmentsAssumption DEF NextTry
<1> QED BY <1>2, <1>3 DEF Saved, SavedClaim

\* A refused claim saves its refusal for the open attempt.
LEMMA RefusedInv == ASSUME IInv, NEW a \in Assigns, ClaimRefused(a) PROVE IInv'
<1>1. /\ UNCHANGED <<now, cell, worker, beats, asg, slot, hold, answers, granted, chain>>
      /\ claims' = [claims EXCEPT ![a] = Saved(a, 0)] /\ ClaimSent(a) /\ Open(a)
  BY DEF ClaimRefused
<1>2. Saved(a, 0) \in SavedClaim /\ Saved(a, 0).ref = asg[a].ref /\ Saved(a, 0).fence = 0
  BY <1>1, SavedType, AssignmentsAssumption
<1>3. /\ claims'[a] = Saved(a, 0) /\ \A b \in Assigns : b # a => claims'[b] = claims[b]
      /\ claims' \in [Assigns -> SavedClaim \cup {NoAssign}]
  BY <1>1, <1>2, RowFacts DEF Typed
<1>4. WorkTypeOK'
  BY <1>1, <1>3 DEF IInv, WorkTypeOK
<1>5. Shapes' /\ RowIsLast' /\ AssignedExists' /\ HoldIsGrant' /\ OneOpenAttempt' /\ GrantsAreClaims' /\ FinishedUnderItsClaim'
  BY <1>1 DEF IInv, Shapes, RowIsLast, AssignedExists, HoldIsGrant, OneOpenAttempt, Open,
              GrantsAreClaims, FinishedUnderItsClaim
<1>6. SavedClaimIsCurrent'
  BY <1>1, <1>2, <1>3 DEF IInv, SavedClaimIsCurrent, Open
<1>7. ClaimsAreGrants'
  <2>1. \A b \in Assigns : claims'[b] # NoAssign /\ claims'[b].fence # 0 =>
          GivenTo(claims'[b].fence, claims'[b].ref)
    BY <1>2, <1>3 DEF IInv, ClaimsAreGrants
  <2> QED BY <1>1, <2>1 DEF IInv, ClaimsAreGrants, GivenTo
<1> QED BY <1>4, <1>5, <1>6, <1>7 DEF IInv

\* A claim delivered again repeats a fence the attempt was given.
LEMMA AgainInv == ASSUME IInv, NEW a \in Assigns, ClaimAgain(a) PROVE IInv'
<1>1. UNCHANGED <<now, cell, worker, beats, asg, slot, hold, claims, granted, chain>>
  BY DEF ClaimAgain
<1>2. PICK kept \in {asg[a].receipt, claims[a]} :
        /\ asg[a] # NoAssign /\ kept \notin {NoAssign, NoClaim} /\ kept.fence # 0
        /\ answers' = answers \cup ToldOf(kept)
  BY DEF ClaimAgain
<1>3. kept \in SavedClaim
  BY <1>2, RowFacts DEF Typed, Attempt
<1>4. GivenTo(kept.fence, kept.ref)
  BY <1>2 DEF IInv, ClaimsAreGrants
<1>5. answers' = answers \cup {kept}
  BY <1>2, <1>3 DEF ToldOf, SavedClaim
<1>6. WorkTypeOK' /\ RowIsLast' /\ AssignedExists' /\ HoldIsGrant' /\ OneOpenAttempt' /\ GrantsAreClaims'
      /\ FinishedUnderItsClaim' /\ SavedClaimIsCurrent'
  BY <1>1 DEF IInv, WorkTypeOK, RowIsLast, AssignedExists, HoldIsGrant, OneOpenAttempt, Open, GrantsAreClaims,
              FinishedUnderItsClaim, SavedClaimIsCurrent
<1>7. Shapes'
  BY <1>1, <1>3, <1>5 DEF IInv, Shapes
<1>8. ClaimsAreGrants'
  BY <1>1, <1>4, <1>5 DEF IInv, ClaimsAreGrants, GivenTo
<1> QED BY <1>6, <1>7, <1>8 DEF IInv

\* A claim is given the next fence, under the process it names, and only for
\* an attempt no fence was given to.
LEMMA ClaimInv == ASSUME IInv, NEW a \in Assigns, Claim(a) PROVE IInv'
<1> USE AssignmentsAssumption, TTLAssumption
<1> DEFINE w == asg[a].ref.target
           f == cell.fence + 1
           row == [asg[a] EXCEPT !.status = "claimed", !.fence = f, !.head = cell.head]
           g == [by |-> <<w, asg[a].ref.inc>>, for |-> asg[a].ref]
           saved == Saved(a, f)
<1>0. /\ Typed /\ granted \in Seq(GivenFence) /\ chain \in Seq(Version)
      /\ now + TTL \in 0 .. MaxClock + TTL
  BY RowFacts DEF IInv, Shapes, Typed, Time
<1>1. /\ ClaimSent(a) /\ slot.ref = asg[a].ref /\ slot.active /\ asg[a].status = "pending"
      /\ WorkerCanClaim(w, asg[a].ref.inc) /\ cell.fence < MaxFence
      /\ asg[a] # NoAssign /\ asg[a] \in Attempt /\ asg[a].ref \in Ref /\ asg[a].ref.id = a
  BY RowFacts DEF Claim, ClaimAllowed, ClaimSent
<1>2. /\ w \in Workers /\ asg[a].ref.inc \in Incarnations /\ asg[a].ref.inc # 0
      /\ <<w, asg[a].ref.inc>> \in Processes /\ asg[a].ref # NoRef
  BY <1>1, AbsentAssumption DEF Ref, WorkerCanClaim, Processes, NoRef
<1>3. /\ cell' \in Rows /\ cell'.fence = f /\ cell'.device = w /\ cell'.head = cell.head
  <2>1. cell' = Acquire(cell, w, now)
    BY DEF Claim
  <2> QED BY <1>0, <1>1, <1>2, <2>1, AcquiredRow DEF Typed
<1>4. /\ asg' = [asg EXCEPT ![a] = row]
      /\ hold' = [hold EXCEPT ![w] = [inc |-> asg[a].ref.inc, fence |-> f]]
      /\ claims' = [claims EXCEPT ![a] = saved]
      /\ granted' = Append(granted, g) /\ answers' = answers \cup ToldOf(saved)
      /\ UNCHANGED <<now, worker, beats, slot, chain>>
  BY DEF Claim, Acquire, Give
<1>5. f \in 1 .. MaxFence /\ f \in 0 .. MaxFence /\ f # 0
  BY <1>0, <1>1 DEF Typed, Rows, RowType
<1>6. saved \in SavedClaim /\ saved.ref = asg[a].ref /\ saved.fence = f
  BY <1>1, <1>5, SavedType
<1>7. /\ row \in Attempt /\ row.ref = asg[a].ref /\ row.status = "claimed" /\ row.fence = f
      /\ row.receipt = asg[a].receipt
  <2>1. cell.head \in Heads
    BY <1>0 DEF Typed, Rows, RowType
  <2> HIDE DEF f
  <2> QED BY <1>1, <1>5, <2>1 DEF Attempt, Statuses
<1>8. g \in GivenFence /\ g.for = asg[a].ref /\ g.by = <<w, asg[a].ref.inc>>
  BY <1>1, <1>2 DEF GivenFence
<1>9. answers' = answers \cup {saved}
  BY <1>4, <1>6 DEF ToldOf, SavedClaim
<1> HIDE DEF row, g, saved, w
<1>10. /\ asg'[a] = row /\ claims'[a] = saved /\ hold'[w].inc = asg[a].ref.inc
       /\ \A b \in Assigns : b # a => asg'[b] = asg[b] /\ claims'[b] = claims[b]
  BY <1>0, <1>2, <1>4 DEF Typed
<1>11. /\ granted' \in Seq(GivenFence) /\ Grows(granted, granted')
       /\ Len(granted') = Len(granted) + 1 /\ granted'[Len(granted) + 1] = g
       /\ Len(granted) = cell.fence
  BY <1>0, <1>4, <1>8, AppendGrows DEF IInv, RowIsLast
<1>12. Given(granted', f, asg[a].ref)
  BY <1>5, <1>8, <1>11 DEF Given
<1>13. WorkTypeOK'
  <2>1. hold' \in [Workers -> Hold]
    <3>1. [inc |-> asg[a].ref.inc, fence |-> f] \in Hold
      BY <1>2, <1>5 DEF Hold
    <3> QED BY <1>0, <1>4, <3>1 DEF Typed
  <2>2. asg' \in [Assigns -> Attempt \cup {NoAssign}] /\ claims' \in [Assigns -> SavedClaim \cup {NoAssign}]
    BY <1>0, <1>4, <1>6, <1>7 DEF Typed
  <2> QED BY <1>0, <1>3, <1>4, <2>1, <2>2 DEF Typed, WorkTypeOK, Rows, WorkerRow, Beat, Slot, Hold
<1>14. Shapes'
  BY <1>1, <1>4, <1>6, <1>7, <1>9, <1>10, <1>11 DEF IInv, Shapes
<1>15. RowIsLast'
  <2>1. \A i \in 1 .. Len(chain) : chain[i].head = i /\ chain[i].fence <= cell.fence
    BY DEF IInv, RowIsLast
  <2>2. \A i \in 1 .. Len(chain) : chain[i].fence \in Nat
    <3>1. \A i \in 1 .. Len(chain) : chain[i] \in Version
      BY <1>0, ElementOfSeq
    <3> QED BY <3>1 DEF Version
  <2>3. \A i \in 1 .. Len(chain) : chain[i].head = i /\ chain[i].fence <= f
    BY <1>0, <2>1, <2>2 DEF Typed, Rows, RowType
  <2>4. Exists(cell)
    <3>1. \A x \in Assigns : asg[x] # NoAssign => Exists(cell)
      BY DEF IInv, AssignedExists
    <3> QED BY <1>1, <3>1
  <2> QED BY <1>3, <1>4, <1>5, <1>11, <2>3, <2>4 DEF IInv, RowIsLast, Exists
<1>16. HoldIsGrant'
  BY <1>2, <1>3, <1>8, <1>10, <1>11 DEF HoldIsGrant
<1>17. OneOpenAttempt' /\ SavedClaimIsCurrent'
  <2>1. Open(a) /\ Open(a)' /\ row # NoAssign
    BY <1>1, <1>7, <1>10, RowFacts DEF Open
  <2>2. \A b \in Assigns : b # a => (Open(b)' <=> Open(b))
    BY <1>10 DEF Open
  <2>3. OneOpenAttempt'
    BY <1>1, <1>4, <1>7, <1>10, <2>1, <2>2 DEF IInv, OneOpenAttempt
  <2>4. SavedClaimIsCurrent'
    BY <1>6, <1>7, <1>10, <2>1, <2>2 DEF IInv, SavedClaimIsCurrent
  <2> QED BY <2>3, <2>4
<1>18. GrantsAreClaims'
  <2> SUFFICES ASSUME NEW i \in 1 .. Len(granted'), granted'[i].for # NoRef
               PROVE  LET r == granted'[i].for
                          x == asg'[r.id] IN
                      /\ r \in Ref /\ r.id \in Assigns /\ x # NoAssign /\ r.rev <= x.ref.rev
                      /\ r.rev = x.ref.rev => x.status # "pending" /\ x.fence = i
    BY DEF GrantsAreClaims
  <2> DEFINE r == granted'[i].for
  <2>1. CASE i = f
    <3>1. r = asg[a].ref /\ r.id = a /\ row # NoAssign /\ r.rev \in Nat
      BY <1>1, <1>7, <1>8, <1>11, <2>1, RowFacts DEF Ref
    <3> HIDE DEF r
    <3> QED BY <1>1, <1>7, <1>10, <2>1, <3>1 DEF r
  <2>2. CASE i # f
    <3>1. i \in 1 .. Len(granted) /\ granted'[i] = granted[i]
      BY <1>5, <1>11, <2>2 DEF Grows
    <3>2. /\ r \in Ref /\ r.id \in Assigns /\ asg[r.id] # NoAssign /\ r.rev <= asg[r.id].ref.rev
          /\ r.rev = asg[r.id].ref.rev => asg[r.id].status # "pending" /\ asg[r.id].fence = i
      BY <3>1 DEF IInv, GrantsAreClaims
    <3>3. CASE r.id = a
      <4>1. r.rev # asg[a].ref.rev /\ row # NoAssign
        BY <1>1, <1>7, <3>2, <3>3, RowFacts
      <4> HIDE DEF r
      <4> QED BY <1>7, <1>10, <3>2, <3>3, <4>1 DEF r
    <3>4. CASE r.id # a
      <4> HIDE DEF r
      <4> QED BY <1>10, <3>2, <3>4 DEF r
    <3> QED BY <3>3, <3>4
  <2> QED BY <2>1, <2>2
<1>19. ClaimsAreGrants'
  <2>1. ASSUME NEW b \in Assigns, asg'[b] # NoAssign
        PROVE  /\ asg'[b].status \in {"claimed", "finished"} => Given(granted', asg'[b].fence, asg'[b].ref)
               /\ asg'[b].receipt # NoClaim => Given(granted', asg'[b].receipt.fence, asg'[b].receipt.ref)
    <3>1. CASE b = a
      <4>1. Given(granted', row.fence, row.ref)
        BY <1>7, <1>12
      <4>2. row.receipt # NoClaim => Given(granted', row.receipt.fence, row.receipt.ref)
        BY <1>1, <1>7, <1>11, GivenStays DEF IInv, ClaimsAreGrants
      <4> QED BY <1>10, <3>1, <4>1, <4>2
    <3>2. CASE b # a
      <4>1. asg'[b] = asg[b]
        BY <1>10, <3>2
      <4> QED BY <1>11, <2>1, <4>1, GivenStays DEF IInv, ClaimsAreGrants
    <3> QED BY <3>1, <3>2
  <2>2. ASSUME NEW b \in Assigns, claims'[b] # NoAssign, claims'[b].fence # 0
        PROVE  Given(granted', claims'[b].fence, claims'[b].ref)
    <3>1. CASE b = a
      BY <1>6, <1>10, <1>12, <3>1
    <3>2. CASE b # a
      <4>1. claims'[b] = claims[b]
        BY <1>10, <3>2
      <4> QED BY <1>11, <2>2, <4>1, GivenStays DEF IInv, ClaimsAreGrants
    <3> QED BY <3>1, <3>2
  <2>3. ASSUME NEW t \in answers' PROVE Given(granted', t.fence, t.ref)
    <3>1. CASE t = saved
      BY <1>6, <1>12, <3>1
    <3>2. CASE t \in answers
      BY <1>11, <3>2, GivenStays DEF IInv, ClaimsAreGrants
    <3> QED BY <1>9, <3>1, <3>2
  <2> QED BY <2>1, <2>2, <2>3 DEF ClaimsAreGrants, GivenTo
<1>20. FinishedUnderItsClaim'
  <2> SUFFICES ASSUME NEW b \in Assigns, asg'[b] # NoAssign, asg'[b].status = "finished"
               PROVE  /\ granted'[asg'[b].fence].for = asg'[b].ref
                      /\ \E i \in DOMAIN chain : chain[i].head = asg'[b].head
                                                 /\ chain[i].fence <= asg'[b].fence
    BY <1>4 DEF FinishedUnderItsClaim
  <2>1. b # a /\ asg'[b] = asg[b]
    BY <1>7, <1>10
  <2>2. GivenTo(asg[b].fence, asg[b].ref)
    BY <2>1 DEF IInv, ClaimsAreGrants
  <2>3. granted'[asg[b].fence].for = asg[b].ref
    BY <1>11, <2>2, GivenStays DEF Given
  <2> QED BY <2>1, <2>3 DEF IInv, FinishedUnderItsClaim
<1>21. AssignedExists'
  BY <1>3, <1>5 DEF AssignedExists, Exists
<1> QED BY <1>21, <1>13, <1>14, <1>15, <1>16, <1>17, <1>18, <1>19, <1>20 DEF IInv

\* Every step keeps the invariant.
LEMMA NextInv == IInv /\ [Next]_workVars => IInv'
<1> SUFFICES ASSUME IInv, [Next]_workVars PROVE IInv'
  OBVIOUS
<1>1. CASE UNCHANGED workVars
  <2>1. UNCHANGED <<now, cell, worker, beats, asg, slot, hold, claims, answers, granted, chain>>
    BY <1>1 DEF workVars
  <2>2. WorkTypeOK' /\ IsFiniteSet(beats')
    BY <2>1 DEF IInv, WorkTypeOK, Shapes
  <2> QED BY <2>1, <2>2, RowsKept
<1>2. CASE \/ Tick \/ \E w \in Workers : RegisterWorker(w)
           \/ \E w \in Leaving : DrainWorker(w) \/ RevokeWorker(w)
           \/ \E w \in Workers, i \in Incarnations, busy \in BOOLEAN : SignBeat(w, i, busy)
           \/ \E b \in beats : WorkerBeat(b)
  <2>1. Leaving \subseteq Workers
    BY AssignmentsAssumption
  <2> QED BY <1>2, <2>1, WorkersInv
<1>3. CASE \/ CreateCell \/ PersonPublish \/ \E f \in BOOLEAN : PersonAcquire(f)
           \/ \E w \in Workers, i \in Incarnations : WorkerPublish(w, i) \/ WorkerRelease(w, i)
  BY <1>3, LeaseInv
<1>4. CASE \E a \in Assigns, w \in Workers, u \in Time : Assign(a, w, u) \/ Reassign(a, w, u)
  BY <1>4, AssignInv
<1>5. CASE \E a \in Assigns : CancelAssignment(a) \/ Claim(a) \/ ClaimRefused(a) \/ ClaimAgain(a)
                              \/ FinishAssignment(a)
  BY <1>5, CancelInv, ClaimInv, RefusedInv, AgainInv, FinishInv
<1> QED BY <1>1, <1>2, <1>3, <1>4, <1>5 DEF Next

\* The invariant holds of every behaviour: the row is the last grant and the
\* last version, a worker's hold is the grant of its claim, and what is granted
\* for an attempt, saved for it and answered of it agree.
THEOREM Invariant == Spec => []IInv
BY InitInv, NextInv, PTL DEF Spec

\* Type correctness of delegated work.
THEOREM WorkTypeCorrect == Spec => []WorkTypeOK
<1>1. IInv => WorkTypeOK
  BY DEF IInv
<1> QED BY <1>1, Invariant, PTL

\* Whatever is assigned, reassigned, cancelled and finished, one attempt at most
\* is open on the cell and the slot names it.
THEOREM OneAttemptAtATime == Spec => []OneOpenAttempt
<1>1. IInv => OneOpenAttempt
  BY DEF IInv
<1> QED BY <1>1, Invariant, PTL

\* The answer saved for an assignment is the present attempt's: a reassign or
\* a cancel leaves nothing of what the earlier claimant was told.
THEOREM SavedClaimsAreCurrent == Spec => []SavedClaimIsCurrent
<1>1. IInv => SavedClaimIsCurrent
  BY DEF IInv
<1> QED BY <1>1, Invariant, PTL

\* A finished assignment was finished under the fence its own attempt was
\* given, at a version no later fence wrote.
THEOREM FinishedWorkIsClaimed == Spec => []FinishedUnderItsClaim
<1>1. IInv => FinishedUnderItsClaim
  BY DEF IInv
<1> QED BY <1>1, Invariant, PTL

\* No two fences were given for one attempt.
OneGrantEach ==
    \A i, j \in DOMAIN granted :
      granted[i].for = granted[j].for /\ granted[i].for # NoRef => i = j

\* One more grant, for nothing or for an attempt no fence was given to.
LEMMA OneMoreGrant ==
  ASSUME IInv, OneGrantEach, NEW g \in GivenFence, granted' = Append(granted, g),
         g.for # NoRef => \A i \in 1 .. Len(granted) : granted[i].for # g.for
  PROVE  OneGrantEach'
<1>1. granted \in Seq(GivenFence)
  BY DEF IInv, Shapes
<1>2. /\ Grows(granted, granted') /\ Len(granted') = Len(granted) + 1
      /\ granted'[Len(granted) + 1] = g
  BY <1>1, AppendGrows
<1>3. Len(granted) \in Nat /\ DOMAIN granted = 1 .. Len(granted) /\ DOMAIN granted' = 1 .. Len(granted) + 1
      /\ \A i \in 1 .. Len(granted) : granted'[i] = granted[i]
  BY <1>2 DEF Grows
<1>4. ASSUME NEW i \in 1 .. Len(granted) + 1, NEW j \in 1 .. Len(granted) + 1,
             granted'[i].for = granted'[j].for, granted'[i].for # NoRef
      PROVE  i = j
  <2>1. CASE i \in 1 .. Len(granted) /\ j \in 1 .. Len(granted)
    BY <1>3, <1>4, <2>1 DEF OneGrantEach
  <2>2. CASE i = Len(granted) + 1 \/ j = Len(granted) + 1
    BY <1>2, <1>3, <1>4, <2>2
  <2> QED BY <1>3, <2>1, <2>2
<1> QED BY <1>3, <1>4 DEF OneGrantEach

\* However often a claim is sent, retried or answered from a receipt, its
\* attempt is given one fence and is told that one.
THEOREM ClaimsGrantOnce == Spec => []ClaimOnce
<1>1. Init => OneGrantEach
  BY DEF Init, OneGrantEach
<1>2. IInv /\ OneGrantEach /\ [Next]_workVars => OneGrantEach'
  <2> SUFFICES ASSUME IInv, OneGrantEach, [Next]_workVars PROVE OneGrantEach'
    OBVIOUS
  <2>1. CASE granted' = granted
    BY <2>1 DEF OneGrantEach
  <2>2. CASE CreateCell \/ \E f \in BOOLEAN : PersonAcquire(f)
    <3> DEFINE g == [by |-> <<Person, 0>>, for |-> NoRef]
    <3>1. granted' = Append(granted, g)
      BY <2>2 DEF CreateCell, PersonAcquire, Give
    <3>2. g \in GivenFence /\ g.for = NoRef
      BY DEF GivenFence, Processes
    <3> HIDE DEF g
    <3> QED BY <3>1, <3>2, OneMoreGrant
  <2>3. ASSUME NEW a \in Assigns, Claim(a) PROVE OneGrantEach'
    <3> DEFINE r == asg[a].ref
               g == [by |-> <<r.target, r.inc>>, for |-> r]
    <3>1. granted' = Append(granted, g)
      BY <2>3 DEF Claim, Give
    <3>2. r \in Ref /\ r.id = a /\ asg[a].status = "pending"
      BY <2>3, RowFacts DEF Claim, ClaimSent, ClaimAllowed
    <3>3. g \in GivenFence /\ g.for = r
      BY <3>2 DEF GivenFence, Processes, Ref
    <3>4. \A i \in 1 .. Len(granted) : granted[i].for # r
      BY <3>2, AbsentAssumption DEF IInv, GrantsAreClaims, NoRef
    <3> HIDE DEF g, r
    <3> QED BY <3>1, <3>3, <3>4, OneMoreGrant
  <2> QED BY <2>1, <2>2, <2>3 DEF Next, Tick, PersonPublish, RegisterWorker, DrainWorker, RevokeWorker,
          SignBeat, WorkerPublish, WorkerRelease, WorkerBeat, Assign, Reassign, CancelAssignment,
          ClaimRefused, ClaimAgain, FinishAssignment, workVars
<1>3. IInv /\ OneGrantEach => ClaimOnce
  <2> SUFFICES ASSUME IInv, OneGrantEach PROVE ClaimOnce
    OBVIOUS
  <2>1. DOMAIN granted = 1 .. Len(granted)
    BY LenProperties DEF IInv, Shapes
  <2>2. ASSUME NEW t \in answers PROVE t.fence \in DOMAIN granted /\ granted[t.fence].for = t.ref
    BY <2>1 DEF IInv, ClaimsAreGrants, GivenTo, Given
  <2> QED BY <2>2 DEF ClaimOnce, OneGrantEach
<1> QED BY <1>1, <1>2, <1>3, Invariant, PTL DEF Spec

-----------------------------------------------------------------------------
(* Delegated work implements the fenced cell, process by process.           *)

\* The owners of the fences, as FencedCell sees them.
OwnersIn(log) == [i \in DOMAIN log |-> log[i].by]

\* One owner per grant, in the order of the fences.
LEMMA OwnersOf ==
  ASSUME NEW log \in Seq(GivenFence)
  PROVE  /\ OwnersIn(log) \in Seq(Processes) /\ Len(OwnersIn(log)) = Len(log)
         /\ \A i \in 1 .. Len(log) : OwnersIn(log)[i] = log[i].by
         /\ log = <<>> <=> OwnersIn(log) = <<>>
<1>1. Len(log) \in Nat /\ DOMAIN log = 1 .. Len(log)
  OBVIOUS
<1>2. \A i \in 1 .. Len(log) : log[i].by \in Processes
  <2>1. \A i \in 1 .. Len(log) : log[i] \in GivenFence
    BY ElementOfSeq
  <2> QED BY <2>1 DEF GivenFence
<1>3. OwnersIn(log) \in Seq(Processes) /\ Len(OwnersIn(log)) = Len(log)
  BY <1>1, <1>2 DEF OwnersIn
<1> QED BY <1>1, <1>3 DEF OwnersIn

\* One more grant is one more owner.
LEMMA OwnersGrow ==
  ASSUME NEW log \in Seq(GivenFence), NEW g \in GivenFence
  PROVE  OwnersIn(Append(log, g)) = Append(OwnersIn(log), g.by)
<1> DEFINE longer == Append(log, g)
<1>1. /\ longer \in Seq(GivenFence) /\ Len(longer) = Len(log) + 1 /\ Len(log) \in Nat
      /\ longer[Len(log) + 1] = g /\ \A i \in 1 .. Len(log) : longer[i] = log[i]
  OBVIOUS
<1> HIDE DEF longer
<1>2. /\ OwnersIn(longer) \in Seq(Processes) /\ Len(OwnersIn(longer)) = Len(log) + 1
      /\ \A i \in 1 .. Len(log) + 1 : OwnersIn(longer)[i] = longer[i].by
  BY <1>1, OwnersOf
<1>3. /\ OwnersIn(log) \in Seq(Processes) /\ Len(OwnersIn(log)) = Len(log)
      /\ \A i \in 1 .. Len(log) : OwnersIn(log)[i] = log[i].by
  BY OwnersOf
<1>4. g.by \in Processes
  BY DEF GivenFence
<1>5. /\ Append(OwnersIn(log), g.by) \in Seq(Processes)
      /\ Len(Append(OwnersIn(log), g.by)) = Len(log) + 1
      /\ \A i \in 1 .. Len(log) + 1 : Append(OwnersIn(log), g.by)[i] = longer[i].by
  BY <1>1, <1>3, <1>4
<1>6. OwnersIn(longer) = Append(OwnersIn(log), g.by)
  BY <1>2, <1>5, SeqEqual
<1> QED BY <1>6 DEF longer

\* A write by the process that was given the present fence is one of the
\* fenced cell.
LEMMA WriteIsFenced ==
  ASSUME IInv, NEW by \in Processes, Exists(cell), granted[Len(granted)].by = by,
         Extend(by, cell.fence), granted' = granted, Len(chain) < MaxVersions
  PROVE  Fenced!Write(Len(chain) + 1) /\ Len(chain) + 1 \in Heads
<1>1. /\ granted \in Seq(GivenFence) /\ chain \in Seq(Version) /\ Len(granted) = cell.fence
      /\ Len(chain) = cell.head /\ cell.fence # 0
      /\ \A i \in 1 .. Len(chain) : chain[i].head = i
  BY DEF IInv, Shapes, RowIsLast, Exists
<1>2. Len(granted) \in 1 .. Len(granted) /\ granted # <<>>
  BY <1>1
<1>3. /\ OwnersIn(granted) # <<>> /\ Len(OwnersIn(granted)) = cell.fence
      /\ OwnersIn(granted)[cell.fence] = by
  BY <1>1, <1>2, OwnersOf
<1>4. cell.head = Fenced!HeadOf(chain)
  <2>1. CASE chain = <<>>
    BY <1>1, <2>1 DEF Fenced!HeadOf, Blank
  <2>2. CASE chain # <<>>
    <3>1. Len(chain) \in 1 .. Len(chain)
      BY <1>1, <2>2
    <3> QED BY <1>1, <2>2, <3>1 DEF Fenced!HeadOf
  <2> QED BY <2>1, <2>2
<1>5. chain' = Append(chain, Fenced!Entry(by, cell.fence, Fenced!HeadOf(chain), Len(chain) + 1))
  BY <1>4 DEF Extend, Fenced!Entry
<1>6. Fenced!Write(Len(chain) + 1)
  BY <1>3, <1>5 DEF Fenced!Write, Fenced!fence, OwnersIn
<1>7. Len(chain) + 1 \in Heads
  BY <1>1, AssignmentsAssumption DEF Heads
<1> QED BY <1>6, <1>7

\* The initial state is the fenced cell's; a step of delegated work is a
\* create, a grant or a write of it, or leaves it as it was.  So a version is
\* only ever written by the process that was given the fence it is under.
THEOREM ProcessesAreFenced == Spec => FencedByProcess
<1>1. Init => Fenced!Init
  BY DEF Init, Fenced!Init
<1>2. IInv /\ [Next]_workVars => [Fenced!Next]_(Fenced!cellVars)
  <2> SUFFICES ASSUME IInv, [Next]_workVars
               PROVE  Fenced!Next \/ (granted' = granted /\ chain' = chain)
    BY DEF Fenced!cellVars
  <2>0. /\ granted \in Seq(GivenFence) /\ chain \in Seq(Version) /\ Len(granted) = cell.fence
        /\ Exists(cell) <=> chain # <<>>
    BY DEF IInv, Shapes, RowIsLast
  <2>1. CASE UNCHANGED <<granted, chain>>
    BY <2>1
  <2>2. CASE CreateCell
    <3>1. granted = <<>> /\ chain = <<>>
      BY <2>0, <2>2 DEF CreateCell, Exists
    <3> DEFINE g == [by |-> <<Person, 0>>, for |-> NoRef]
    <3>2. g \in GivenFence /\ <<Person, 0>> \in Processes
      BY DEF GivenFence, Processes
    <3>3. granted' = Append(granted, g)
      BY <2>2 DEF CreateCell, Give
    <3>4. OwnersIn(granted) = <<>> /\ OwnersIn(granted') = <<(<<Person, 0>>)>>
      <4>1. OwnersIn(granted) = <<>>
        BY <2>0, <3>1, OwnersOf
      <4>2. OwnersIn(Append(granted, g)) = Append(OwnersIn(granted), g.by)
        BY <2>0, <3>2, OwnersGrow
      <4> QED BY <3>3, <4>1, <4>2
    <3>5. chain' = <<Fenced!Entry(<<Person, 0>>, 1, Blank, 1)>> /\ 1 \in Heads
      BY <2>2, AssignmentsAssumption DEF CreateCell, Fenced!Entry, Heads
    <3>6. Fenced!Create(<<Person, 0>>, 1)
      BY <3>4, <3>5 DEF Fenced!Create, OwnersIn
    <3> QED BY <3>2, <3>5, <3>6 DEF Fenced!Next
  <2>3. ASSUME NEW g \in GivenFence, granted' = Append(granted, g), Exists(cell), chain' = chain
        PROVE  Fenced!Next
    <3>1. OwnersIn(granted') = Append(OwnersIn(granted), g.by)
      BY <2>0, <2>3, OwnersGrow
    <3>2. OwnersIn(granted) # <<>>
      BY <2>0, <2>3, OwnersOf DEF Exists
    <3>3. g.by \in Processes /\ Fenced!Grant(g.by)
      BY <2>3, <3>1, <3>2 DEF Fenced!Grant, OwnersIn, GivenFence
    <3> QED BY <3>3 DEF Fenced!Next
  <2>4. ASSUME NEW f \in BOOLEAN, PersonAcquire(f) PROVE Fenced!Next
    <3> DEFINE g == [by |-> <<Person, 0>>, for |-> NoRef]
    <3>1. g \in GivenFence
      BY DEF GivenFence, Processes
    <3>2. granted' = Append(granted, g) /\ Exists(cell) /\ chain' = chain
      BY <2>4 DEF PersonAcquire, Give
    <3> HIDE DEF g
    <3> QED BY <2>3, <3>1, <3>2
  <2>5. ASSUME NEW a \in Assigns, Claim(a) PROVE Fenced!Next
    <3> DEFINE r == asg[a].ref
               g == [by |-> <<r.target, r.inc>>, for |-> r]
    <3>1. r \in Ref /\ Exists(cell)
      BY <2>5, RowFacts DEF Claim, ClaimSent, IInv, AssignedExists
    <3>2. g \in GivenFence
      BY <3>1 DEF GivenFence, Processes, Ref
    <3>3. granted' = Append(granted, g) /\ chain' = chain
      BY <2>5 DEF Claim, Give
    <3> HIDE DEF g, r
    <3> QED BY <2>3, <3>1, <3>2, <3>3
  <2>6. CASE PersonPublish
    <3>1. <<Person, 0>> \in Processes /\ cell.device = Person /\ Person \notin Workers
      BY <2>6, AssignmentsAssumption DEF PersonPublish, holder, Processes
    <3>2. granted[Len(granted)].by = <<Person, 0>>
      BY <2>6, <3>1 DEF PersonPublish, IInv, HoldIsGrant
    <3>3. Fenced!Write(Len(chain) + 1) /\ Len(chain) + 1 \in Heads
      BY <2>6, <3>1, <3>2, WriteIsFenced DEF PersonPublish
    <3> QED BY <3>3 DEF Fenced!Next
  <2>7. ASSUME NEW w \in Workers, NEW i \in Incarnations, WorkerPublish(w, i) PROVE Fenced!Next
    <3>1. <<w, i>> \in Processes /\ cell.device = w /\ w # Person
      BY <2>7, AssignmentsAssumption DEF WorkerPublish, holder, Processes
    <3>2. granted[Len(granted)].by = <<w, i>>
      BY <2>7, <3>1 DEF WorkerPublish, authorizeWorkerCommand, IInv, HoldIsGrant
    <3>3. Fenced!Write(Len(chain) + 1) /\ Len(chain) + 1 \in Heads
      BY <2>7, <3>1, <3>2, WriteIsFenced DEF WorkerPublish
    <3> QED BY <3>3 DEF Fenced!Next
  <2> QED BY <2>1, <2>2, <2>4, <2>5, <2>6, <2>7, ZenonT(40) DEF Next, Tick, RegisterWorker, DrainWorker, RevokeWorker,
          SignBeat, WorkerRelease, WorkerBeat, Assign, Reassign, CancelAssignment,
          ClaimRefused, ClaimAgain, FinishAssignment, workVars
<1> QED BY <1>1, <1>2, Invariant, PTL DEF Spec, FencedByProcess, Fenced!Spec
=============================================================================
