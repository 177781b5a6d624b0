--------------------------- MODULE HandoffProofs ---------------------------
(* Theorems about the handoff, for every set of devices and branches and    *)
(* every bound.                                                             *)
EXTENDS Handoff, FiniteSetTheorems, SequenceTheorems, TLAPS

\* Turns that were sealed, and the blank one before them.
Known(t) == t \in 0 .. Len(past)

CallType == [device : Devices \cup {NoDevice}, fence : Nat, head : Nat, live : BOOLEAN]

ProcType ==
    [mode : {"off", "opening", "driving", "taking"},
     pc : {"idle", "send", "keep", "claim", "place", "hooks"},
     id : Cells, fence : Nat, head : Nat, noted : Seq(Nat),
     stale : BOOLEAN, lost : BOOLEAN, sealing : BOOLEAN, asked : SUBSET Nat,
     closing : BOOLEAN, up : Nat, call : CallType]

DiskType == [tip : Nat, mark : Nat, alias : Cells]

Shapes ==
    /\ row \in [Cells -> RowType(Devices, Nat, 0 .. 1)]
    /\ past \in Seq(SUBSET Nat)
    /\ disk \in [Devices -> DiskType]
    /\ proc \in [Devices -> ProcType]

Sealing == {d \in Devices : proc[d].sealing}

\* A turn's ancestors come with all of theirs.
Histories ==
    \A t \in Turns : /\ t \in past[t] /\ past[t] \subseteq 1 .. t
                     /\ \A u \in past[t] : past[u] \subseteq past[t]

\* There is room for every seal that has begun.
Room == IsFiniteSet(Sealing) /\ Len(past) + Cardinality(Sealing) <= MaxTurns

\* What is named was sealed.
CellsKnown == \A c \in Cells : Known(row[c].head) /\ (Exists(row[c]) \/ row[c].head = Blank)
NamesKnown(d) ==
    LET p == proc[d] IN
    /\ Known(disk[d].tip) /\ Known(disk[d].mark)
    /\ Known(p.head) /\ Known(p.up) /\ Known(p.call.head)
    /\ \A i \in 1 .. Len(p.noted) : Known(p.noted[i])

\* The noted turns are a line from the published head up to the tip.
Line(d) ==
    LET p == proc[d] IN
    /\ \A i \in 1 .. Len(p.noted) : /\ p.noted[i] # Blank
                                    /\ Hist(p.head) \subseteq Hist(p.noted[i])
    /\ \A i, j \in 1 .. Len(p.noted) : i <= j => Hist(p.noted[i]) \subseteq Hist(p.noted[j])
    /\ p.noted # <<>> => Newest(p.noted) = disk[d].tip

\* The tree a window drives was sealed on the head it publishes over.
OnHead(d) == proc[d].mode = "driving" => Hist(proc[d].head) \subseteq Hist(disk[d].tip)

\* What a process may be doing in each mode.  A first publish is the origin's:
\* nobody else has a turn before the conversation's cell exists.
Modes(d) ==
    LET p == proc[d] IN
    /\ p.stale => p.lost
    /\ p.sealing => p.mode = "driving" /\ ~p.closing
    /\ p.pc \in {"keep", "claim", "place", "hooks"} => p.mode = "taking"
    /\ p.mode # "driving" => p.noted = <<>> /\ p.asked = {}
    /\ p.mode = "driving" /\ p.fence = 0 => d = Origin /\ p.id = Main
    /\ p.mode = "driving" /\ p.fence # 0 => Exists(row[p.id])
    /\ p.mode = "opening" => Exists(row[p.id])
    /\ p.mode = "taking" => Exists(row[Main])
    /\ disk[d].alias = Main \/ Exists(row[disk[d].alias])
    /\ Exists(row[Main]) \/ d = Origin \/ (p.mode = "off" /\ disk[d].tip = Blank)

\* What is being published is a noted turn, and it is in the store.
Sending(d) ==
    LET p == proc[d] IN
    p.pc = "send" =>
      /\ p.mode = "driving" /\ Hist(p.up) \subseteq stored
      /\ \E i \in 1 .. Len(p.noted) : p.noted[i] = p.up
      /\ p.call.fence = 0 => p.fence = 0

Window(d) == NamesKnown(d) /\ Line(d) /\ OnHead(d) /\ Modes(d) /\ Sending(d)

Base == /\ Shapes /\ Histories /\ Room /\ CellsKnown
        /\ stored \subseteq Turns /\ HeadsAreStored
        /\ \A d \in Devices : Window(d)

-----------------------------------------------------------------------------

\* A window that has a lease publishes a turn over a head it was sealed on.
Over(d) ==
    LET p == proc[d] IN
    p.pc = "send" /\ p.fence # 0 => Hist(p.call.head) \subseteq Hist(p.up)

\* The upload boundary has reached the directory, and so has a tree about to go.
Boundary(d) ==
    LET p == proc[d] IN
    /\ Hist(disk[d].mark) \subseteq Reached
    /\ p.mode = "driving" /\ p.noted = <<>> => Hist(disk[d].tip) \subseteq Reached
    /\ p.pc \in {"claim", "place"} => Hist(disk[d].tip) \subseteq Reached
    /\ p.pc \in {"place", "hooks"} => Hist(p.head) \subseteq Reached

Kept == WorkIsKept /\ \A d \in Devices : Over(d) /\ Boundary(d)

IInv == Base /\ Kept

-----------------------------------------------------------------------------
(* The values a request leaves behind.                                      *)

RowT == RowType(Devices, Nat, 0 .. 1)

\* The lease rules keep a row a row, and only a publish moves its head.
LEMMA RowRules ==
  ASSUME NEW r \in RowT, NEW d \in Devices, NEW h \in Nat
  PROVE  /\ Acquire(r, d, 0) \in RowT /\ Acquire(r, d, 0).head = r.head
         /\ Exists(Acquire(r, d, 0)) /\ Acquire(r, d, 0).device = d
         /\ Heartbeat(r, 0) \in RowT /\ Heartbeat(r, 0).head = r.head
         /\ Heartbeat(r, 0).fence = r.fence /\ Heartbeat(r, 0).device = r.device
         /\ ReleaseOf(r, 0) \in RowT /\ ReleaseOf(r, 0).head = r.head
         /\ ReleaseOf(r, 0).fence = r.fence /\ ReleaseOf(r, 0).device = r.device
         /\ PublishTo(r, h, 0) \in RowT /\ PublishTo(r, h, 0).head = h
         /\ PublishTo(r, h, 0).fence = r.fence /\ PublishTo(r, h, 0).device = r.device
         /\ [r EXCEPT !.expires = 0] \in RowT /\ [r EXCEPT !.expires = 0].head = r.head
         /\ [r EXCEPT !.expires = 0].fence = r.fence /\ [r EXCEPT !.expires = 0].device = r.device
<1> DEFINE full == 0 + TTL
<1>0. full = 1 /\ full \in 0 .. 1 /\ 0 \in 0 .. 1
  BY HandoffAssumption
<1> HIDE DEF full
<1>r. /\ DOMAIN r = {"device", "fence", "expires", "released", "head"}
      /\ r = [device |-> r.device, fence |-> r.fence, expires |-> r.expires,
              released |-> r.released, head |-> r.head]
      /\ r.device \in Devices \cup {NoDevice} /\ r.fence \in Nat /\ r.expires \in 0 .. 1
      /\ r.released \in 0 .. 1 /\ r.head \in Nat
  BY DEF RowT, RowType
<1> USE DEF RowT, RowType, Exists
<1>1. /\ Acquire(r, d, 0) \in RowT /\ Acquire(r, d, 0).head = r.head
      /\ Exists(Acquire(r, d, 0)) /\ Acquire(r, d, 0).device = d
  <2>1. r.fence + 1 \in Nat /\ r.fence + 1 # 0
    BY <1>r
  <2> QED BY <1>0, <2>1 DEF Acquire, full
<1>2. /\ Heartbeat(r, 0) \in RowT /\ Heartbeat(r, 0).head = r.head
      /\ Heartbeat(r, 0).fence = r.fence /\ Heartbeat(r, 0).device = r.device
  BY <1>0, <1>r DEF Heartbeat, full
<1>3. /\ ReleaseOf(r, 0) \in RowT /\ ReleaseOf(r, 0).head = r.head
      /\ ReleaseOf(r, 0).fence = r.fence /\ ReleaseOf(r, 0).device = r.device
  BY <1>0, <1>r DEF ReleaseOf
<1>4. /\ PublishTo(r, h, 0) \in RowT /\ PublishTo(r, h, 0).head = h
      /\ PublishTo(r, h, 0).fence = r.fence /\ PublishTo(r, h, 0).device = r.device
  BY <1>0, <1>r DEF PublishTo, full
<1>6. /\ [r EXCEPT !.expires = 0] \in RowT /\ [r EXCEPT !.expires = 0].head = r.head
      /\ [r EXCEPT !.expires = 0].fence = r.fence /\ [r EXCEPT !.expires = 0].device = r.device
  OBVIOUS
<1> QED BY <1>1, <1>2, <1>3, <1>4, <1>6

\* A row that has just been made.
LEMMA CreatedRow ==
  ASSUME NEW d \in Devices, NEW h \in Nat
  PROVE  /\ Created(d, h, 0) \in RowT /\ Created(d, h, 0).head = h
         /\ Exists(Created(d, h, 0)) /\ Created(d, h, 0).device = d
<1> DEFINE full == 0 + TTL
<1>1. full \in 0 .. 1 /\ 0 \in 0 .. 1
  BY HandoffAssumption
<1> HIDE DEF full
<1> QED BY <1>1 DEF Created, full, RowT, RowType, Exists

\* A process that is off.
LEMMA OffValue ==
  /\ Off \in ProcType /\ Off.mode = "off" /\ Off.pc = "idle" /\ Off.id = Main /\ Off.fence = 0
  /\ Off.head = Blank /\ Off.noted = <<>> /\ ~Off.stale /\ ~Off.lost /\ ~Off.sealing
  /\ Off.asked = {} /\ ~Off.closing /\ Off.up = Blank /\ Off.call = NoCall
  /\ NoCall \in CallType /\ NoCall.head = Blank /\ NoCall.fence = 0
BY HandoffAssumption DEF Off, ProcType, NoCall, CallType, Blank, Cells

\* A window that has just begun to drive.
LEMMA DrivingValue ==
  ASSUME NEW c \in Cells, NEW f \in Nat, NEW h \in Nat, NEW n \in Seq(Nat)
  PROVE  LET p == Driving(c, f, h, n) IN
         /\ p \in ProcType /\ p.mode = "driving" /\ p.pc = "idle" /\ p.id = c /\ p.fence = f
         /\ p.head = h /\ p.noted = n /\ ~p.stale /\ ~p.lost /\ ~p.sealing
         /\ p.asked = {} /\ ~p.closing /\ p.up = Blank /\ p.call = NoCall
BY OffValue DEF Off, Driving, ProcType, Blank

\* A request that failed changes nothing else, or ends the window.
LEMMA FailedValue ==
  ASSUME NEW p \in ProcType
  PROVE  LET q == Failed(p) IN
         /\ q \in ProcType
         /\ p.closing => q = Off
         /\ ~p.closing =>
              /\ q.mode = p.mode /\ q.pc = "idle" /\ q.id = p.id /\ q.fence = p.fence
              /\ q.head = p.head /\ q.noted = p.noted /\ q.stale = p.stale /\ q.lost = p.lost
              /\ q.sealing = p.sealing /\ q.closing = p.closing /\ q.asked = p.asked
              /\ q.up = Blank /\ q.call = NoCall
<1>1. CASE p.closing
  BY <1>1, OffValue DEF Failed
<1>2. CASE ~p.closing
  BY <1>2, OffValue DEF Failed, ProcType, Blank
<1> QED BY <1>1, <1>2

-----------------------------------------------------------------------------
(* What a step leaves as it was.                                            *)

\* Sealing adds turns and changes none; stored objects stay; cells stay.
Grown ==
    /\ Len(past) \in Nat /\ Len(past') \in Nat /\ Len(past) <= Len(past')
    /\ \A t \in 0 .. Len(past) : Hist(t)' = Hist(t)
    /\ stored \subseteq stored'
    /\ \A c \in Cells : Exists(row[c]) => Exists(row[c])'

OthersKept(d) ==
    \A e \in Devices \ {d} : proc'[e] = proc[e] /\ disk'[e] = disk[e]

\* A step without a seal.
LEMMA GrownUnsealed ==
  ASSUME Shapes, past' = past, stored \subseteq stored',
         \A c \in Cells : Exists(row[c]) => Exists(row[c])'
  PROVE  Grown
BY DEF Grown, Hist, Shapes

\* What a turn of the next state was sealed on.
HistAfter(t) == IF t = Blank THEN {} ELSE past'[t]

\* The noted turns are the line they were.
LEMMA LineKept ==
  ASSUME NEW d \in Devices, Line(d), NamesKnown(d), proc'[d].noted = proc[d].noted,
         proc'[d].head = proc[d].head, disk'[d].tip = disk[d].tip,
         \A t \in 0 .. Len(past) : Hist(t)' = Hist(t)
  PROVE  Line(d)'
<1> DEFINE n == proc[d].noted
           h == proc[d].head
<1>h. \A t : HistAfter(t) = Hist(t)'
  BY DEF HistAfter, Hist
<1>1. HistAfter(h) = Hist(h) /\ \A i \in 1 .. Len(n) : HistAfter(n[i]) = Hist(n[i])
  BY <1>h DEF NamesKnown, Known
<1>2. /\ \A i \in 1 .. Len(n) : n[i] # Blank /\ Hist(h) \subseteq Hist(n[i])
      /\ \A i, j \in 1 .. Len(n) : i <= j => Hist(n[i]) \subseteq Hist(n[j])
      /\ n # <<>> => n[Len(n)] = disk[d].tip
  BY DEF Line, Newest
<1>3. /\ \A i \in 1 .. Len(n) : n[i] # Blank /\ HistAfter(h) \subseteq HistAfter(n[i])
      /\ \A i, j \in 1 .. Len(n) : i <= j => HistAfter(n[i]) \subseteq HistAfter(n[j])
      /\ n # <<>> => n[Len(n)] = disk'[d].tip
  <2>1. \A i \in 1 .. Len(n) : n[i] # Blank /\ HistAfter(h) \subseteq HistAfter(n[i])
    BY <1>1, <1>2
  <2>2. \A i, j \in 1 .. Len(n) : i <= j => HistAfter(n[i]) \subseteq HistAfter(n[j])
    <3> SUFFICES ASSUME NEW i \in 1 .. Len(n), NEW j \in 1 .. Len(n), i <= j
                 PROVE  HistAfter(n[i]) \subseteq HistAfter(n[j])
      OBVIOUS
    <3> HIDE DEF n, h
    <3> QED BY <1>1, <1>2
  <2>3. n # <<>> => n[Len(n)] = disk'[d].tip
    <3> HIDE DEF n
    <3> QED BY <1>2
  <2> HIDE DEF n, h
  <2> QED BY <2>1, <2>2, <2>3
<1>4. proc'[d].noted = n /\ proc'[d].head = h
  OBVIOUS
<1> HIDE DEF n, h
<1> QED BY <1>h, <1>3, <1>4 DEF Line, Newest

\* A device that makes no step finds its window as it left it.
LEMMA WindowKept ==
  ASSUME Shapes, Grown, NEW e \in Devices, Window(e), proc'[e] = proc[e], disk'[e] = disk[e],
         HandoffAssumption
  PROVE  Window(e)'
<1> DEFINE p == proc[e]
<1>1. /\ \A i \in 1 .. Len(p.noted) : Known(p.noted[i]) /\ p.noted[i] \in 0 .. Len(past)
      /\ p.head \in 0 .. Len(past) /\ p.up \in 0 .. Len(past) /\ disk[e].tip \in 0 .. Len(past)
  BY DEF Window, NamesKnown, Known
<1>2. NamesKnown(e)'
  <2>1. \A t : t \in 0 .. Len(past) => t \in 0 .. Len(past')
    BY DEF Grown
  <2>2. NamesKnown(e)
    BY DEF Window
  <2> QED BY <2>1, <2>2 DEF NamesKnown, Known
<1>3. /\ Hist(p.head)' = Hist(p.head) /\ Hist(p.up)' = Hist(p.up)
      /\ Hist(disk[e].tip)' = Hist(disk[e].tip)
      /\ \A i \in 1 .. Len(p.noted) : Hist(p.noted[i])' = Hist(p.noted[i])
  BY <1>1 DEF Grown, Hist
<1>4. Line(e)'
  <2>1. Line(e)
    BY DEF Window
  <2> QED BY <2>1, LineKept DEF Window, Grown
<1>5. Modes(e)'
  <2>1. p.id \in Cells /\ disk[e].alias \in Cells /\ Main \in Cells
    BY DEF Shapes, ProcType, DiskType, Cells
  <2> QED BY <2>1 DEF Modes, Grown, Window, Exists
<1>6. Sending(e)'
  BY <1>3 DEF Sending, Grown, Window
<1>7. OnHead(e)'
  <2>1. OnHead(e)
    BY DEF Window
  <2>2. disk'[e].tip = disk[e].tip
    OBVIOUS
  <2> QED BY <1>3, <2>1, <2>2 DEF OnHead
<1> QED BY <1>2, <1>4, <1>5, <1>6, <1>7 DEF Window

-----------------------------------------------------------------------------
(* A request that writes one row.                                           *)

DirSound ==
    /\ row' \in [Cells -> RowT] /\ CellsKnown' /\ HeadsAreStored'
    /\ \A c \in Cells : Exists(row[c]) => Exists(row[c])'

\* The head of c moves to what a late retry of d publishes, and the history
\* keeps what it was moved off.
LateOver(d, c) ==
    /\ LateRetry(d) /\ proc[d].id = c /\ row'[c].head = proc[d].up
    /\ Hist(row[c].head) \subseteq overwritten'

\* Heads move up, but for a late retry.
Advances ==
    \A c \in Cells : \/ Hist(row[c].head) \subseteq Hist(row'[c].head)
                     \/ \E d \in Devices : LateOver(d, c)

DirStep(d) == DirSound /\ Advances /\ overwritten \subseteq overwritten'

\* What has reached the directory is never forgotten.
LEMMA ReachedGrows ==
  ASSUME past' = past, NEW d \in Devices, DirStep(d)
  PROVE  Reached \subseteq Reached'
<1> SUFFICES ASSUME NEW t \in Reached PROVE t \in Reached'
  OBVIOUS
<1>1. CASE t \in overwritten
  BY <1>1 DEF Reached, DirStep
<1>2. CASE t \in Shared
  <2>1. PICK c \in Cells : t \in Hist(row[c].head)
    BY <1>2 DEF Shared, Cells
  <2>2. CASE Hist(row[c].head) \subseteq Hist(row'[c].head)
    BY <2>1, <2>2 DEF Reached, Shared, Hist, Cells
  <2>3. CASE Hist(row[c].head) \subseteq overwritten'
    BY <2>1, <2>3 DEF Reached
  <2> QED BY <2>2, <2>3 DEF DirStep, Advances, LateOver
<1> QED BY <1>1, <1>2 DEF Reached

\* A step that makes no request of the directory.
LEMMA RowSame ==
  ASSUME Base, NEW d \in Devices, row' = row, past' = past, stored \subseteq stored',
         overwritten' = overwritten
  PROVE  DirStep(d)
<1>1. DirSound
  BY DEF DirSound, Base, Shapes, CellsKnown, HeadsAreStored, Shared, RowT, Known, Hist, Exists
<1>2. Advances
  BY DEF Advances
<1> QED BY <1>1, <1>2 DEF DirStep

\* A request that writes the row of c.
LEMMA RowWritten ==
  ASSUME Base, NEW d \in Devices, NEW c \in Cells, NEW r \in RowT, Rows(c, r),
         past' = past, stored \subseteq stored', overwritten \subseteq overwritten',
         Exists(r), Known(r.head), Hist(r.head) \subseteq stored',
         \/ Hist(row[c].head) \subseteq Hist(r.head)
         \/ /\ LateRetry(d) /\ proc[d].id = c /\ r.head = proc[d].up
            /\ Hist(row[c].head) \subseteq overwritten'
  PROVE  DirStep(d) /\ row'[c] = r
<1>1. /\ row' = [row EXCEPT ![c] = r] /\ row \in [Cells -> RowT]
  BY DEF Rows, Base, Shapes, RowT
<1>2. /\ row' \in [Cells -> RowT] /\ row'[c] = r
      /\ \A b \in Cells \ {c} : row'[b] = row[b]
  BY <1>1
<1>3. \A b \in Cells : Exists(row[b]) => Exists(row[b])'
  BY <1>2 DEF Exists
<1>4. CellsKnown'
  BY <1>2 DEF Base, CellsKnown, Known, Exists
<1>5. HeadsAreStored'
  BY <1>2 DEF Base, HeadsAreStored, Shared, Hist
<1>6. Advances
  BY <1>2 DEF Advances, LateOver, Hist
<1> QED BY <1>2, <1>3, <1>4, <1>5, <1>6 DEF DirStep, DirSound

-----------------------------------------------------------------------------
(* A step of one device that seals nothing.                                 *)

\* The process of one device changes.
LEMMA ProcBecomes ==
  ASSUME Shapes, NEW d \in Devices, NEW q \in ProcType, Becomes(d, q)
  PROVE  /\ proc' \in [Devices -> ProcType] /\ proc'[d] = q
         /\ \A e \in Devices \ {d} : proc'[e] = proc[e]
BY DEF Shapes, Becomes

\* No seal begins: there is room as before.
LEMMA RoomKept ==
  ASSUME Base, past' = past, \A e \in Devices : proc'[e].sealing => proc[e].sealing
  PROVE  Room'
<1>1. Sealing' \subseteq Sealing
  BY DEF Sealing
<1>2. IsFiniteSet(Sealing)
  BY DEF Base, Room
<1>3. IsFiniteSet(Sealing') /\ Cardinality(Sealing') <= Cardinality(Sealing)
  BY <1>1, <1>2, FS_Subset
<1>4. Cardinality(Sealing) \in Nat /\ Cardinality(Sealing') \in Nat
  BY <1>2, <1>3, FS_CardinalityType
<1>5. Len(past) \in Nat /\ MaxTurns \in Nat
  BY HandoffAssumption DEF Base, Shapes
<1> QED BY <1>3, <1>4, <1>5 DEF Base, Room

\* What is left to show of a device's own step.
OwnKept(d) ==
    /\ Over(d)' /\ Boundary(d)'
    /\ Hist(disk[d].tip) \subseteq Reached' \cup Hist(disk[d].tip)'

\* A step of one device that keeps its own window in order, and the rows as
\* DirStep asks, keeps the invariant: the other windows are as they were.
LEMMA StepKept ==
  ASSUME IInv, NEW d \in Devices, past' = past, stored \subseteq stored', stored' \subseteq Turns,
         OthersKept(d), DirStep(d), proc' \in [Devices -> ProcType],
         disk' \in [Devices -> DiskType], Room', Window(d)', OwnKept(d)
  PROVE  IInv' /\ Advances
<1>0. Base
  BY DEF IInv
<1>1. Shapes'
  BY <1>0 DEF Base, Shapes, DirStep, DirSound, RowT
<1>2. Histories'
  BY <1>0 DEF Base, Histories, Turns
<1>3. Grown
  BY <1>0, GrownUnsealed DEF Base, DirStep, DirSound
<1>4. \A e \in Devices : Window(e)'
  <2> SUFFICES ASSUME NEW e \in Devices, e # d
               PROVE  Window(e)'
    OBVIOUS
  <2> QED BY <1>0, <1>3, WindowKept, HandoffAssumption DEF OthersKept, Base
<1>5. Base'
  BY <1>1, <1>2, <1>4 DEF Base, DirStep, DirSound, Turns
<1>6. Kept'
  <2>1. Kept /\ OwnKept(d)
    BY DEF IInv
  <2>2. Reached \subseteq Reached'
    BY ReachedGrows
  <2>3. ASSUME NEW e \in Devices
        PROVE  (Over(e) /\ Boundary(e))'
    <3>1. CASE e = d
      BY <2>1, <3>1 DEF OwnKept
    <3>2. CASE e # d
      <4>1. proc'[e] = proc[e] /\ disk'[e] = disk[e]
        BY <3>2 DEF OthersKept
      <4>3. Over(e)'
        BY <2>1, <4>1 DEF Kept, Over, Hist
      <4>4. Boundary(e)'
        <5>1. Boundary(e)
          BY <2>1 DEF Kept
        <5> HIDE DEF Reached
        <5> QED BY <2>2, <4>1, <5>1 DEF Boundary, Hist
      <4> QED BY <4>3, <4>4
    <3> QED BY <3>1, <3>2
  <2>4. WorkIsKept'
    <3> SUFFICES ASSUME NEW t \in Turns, t \notin Reached'
                 PROVE  \E e \in Devices : t \in Hist(disk[e].tip)'
      BY DEF WorkIsKept, Turns
    <3>1. PICK e \in Devices : t \in Hist(disk[e].tip)
      BY <2>1, <2>2 DEF Kept, WorkIsKept
    <3>2. CASE e = d
      BY <2>1, <3>1, <3>2 DEF OwnKept
    <3>3. CASE e # d
      BY <3>1, <3>3 DEF OthersKept, Hist
    <3> QED BY <3>2, <3>3
  <2> QED BY <2>3, <2>4 DEF Kept
<1> QED BY <1>5, <1>6 DEF IInv, DirStep

\* A process that ends leaves its disk as it was.
LEMMA OffKept ==
  ASSUME IInv, NEW d \in Devices, past' = past,
         stored' = stored \/ (stored \subseteq stored' /\ stored' \subseteq Turns),
         DirStep(d), Becomes(d, Off), disk' = disk, Exists(row[Main])' \/ d = Origin
  PROVE  IInv' /\ Advances
<1>0. Base /\ Window(d) /\ Shapes
  BY DEF IInv, Base
<1>1. /\ proc' \in [Devices -> ProcType] /\ proc'[d] = Off
      /\ \A e \in Devices \ {d} : proc'[e] = proc[e]
  BY <1>0, ProcBecomes, OffValue
<1>2. OthersKept(d) /\ disk' \in [Devices -> DiskType] /\ disk'[d] = disk[d]
  BY <1>0, <1>1 DEF OthersKept, Shapes
<1>3. Room'
  BY <1>0, <1>1, RoomKept, OffValue
<1>4. Window(d)'
  <2>1. NamesKnown(d)'
    BY <1>0, <1>1, OffValue DEF NamesKnown, Window, Known, Base, Shapes, Blank
  <2>2. Line(d)'
    BY <1>1, OffValue DEF Line
  <2>3. Modes(d)'
    BY <1>0, <1>1, OffValue DEF Modes, Window, DirStep, DirSound, Shapes, DiskType
  <2>4. Sending(d)'
    BY <1>1, OffValue DEF Sending
  <2>5. OnHead(d)'
    BY <1>1, OffValue DEF OnHead
  <2> QED BY <2>1, <2>2, <2>3, <2>4, <2>5 DEF Window
<1>5. OwnKept(d)
  <2>1. Reached \subseteq Reached' /\ Boundary(d)
    BY ReachedGrows DEF IInv, Kept
  <2>2. Hist(disk[d].mark)' = Hist(disk[d].mark) /\ Hist(disk[d].tip)' = Hist(disk[d].tip)
    BY DEF Hist
  <2>3. Boundary(d)'
    BY <1>1, <2>1, <2>2, OffValue DEF Boundary
  <2>4. Over(d)'
    BY <1>1, OffValue DEF Over
  <2> QED BY <2>2, <2>3, <2>4 DEF OwnKept
<1>6. stored' \subseteq Turns
  BY <1>0 DEF Base
<1> QED BY <1>1, <1>2, <1>3, <1>4, <1>5, <1>6, StepKept

-----------------------------------------------------------------------------
(* Steps of a window that leave what it is publishing alone.                *)

\* A window whose flags, and at most its request, change.
LEMMA FlagsKept ==
  ASSUME IInv, NEW d \in Devices, past' = past,
         stored' = stored \/ (stored \subseteq stored' /\ stored' \subseteq Turns),
         disk' = disk, DirStep(d),
         NEW q \in ProcType, Becomes(d, q), proc[d].mode = "driving",
         q.mode = "driving", q.id = proc[d].id, q.fence = proc[d].fence,
         q.head = proc[d].head, q.noted = proc[d].noted,
         \/ q.pc = proc[d].pc /\ q.up = proc[d].up /\ q.call = proc[d].call
         \/ q.pc = "idle" /\ q.up = Blank /\ q.call = NoCall,
         q.stale => q.lost, q.sealing => ~q.closing, Room'
  PROVE  IInv' /\ Advances
<1>0. Base /\ Window(d) /\ Shapes
  BY DEF IInv, Base
<1>1. /\ proc' \in [Devices -> ProcType] /\ proc'[d] = q
      /\ \A e \in Devices \ {d} : proc'[e] = proc[e]
  BY <1>0, ProcBecomes
<1>2. OthersKept(d) /\ disk' \in [Devices -> DiskType] /\ disk'[d] = disk[d]
  BY <1>0, <1>1 DEF OthersKept, Shapes
<1>4. Window(d)'
  <2>1. NamesKnown(d)'
    BY <1>0, <1>1, OffValue DEF NamesKnown, Window, Known, Base, Shapes, Blank
  <2>2. Line(d)'
    <3>1. \A t \in 0 .. Len(past) : Hist(t)' = Hist(t)
      BY DEF Hist
    <3> QED BY <1>0, <1>1, <1>2, <3>1, LineKept DEF Window
  <2>3. Modes(d)'
    <3>1. /\ Modes(d) /\ Main \in Cells /\ disk[d].alias \in Cells /\ proc[d].id \in Cells
          /\ \A c \in Cells : Exists(row[c]) => Exists(row[c])'
      BY <1>0 DEF Window, Cells, Shapes, DiskType, ProcType, DirStep, DirSound
    <3> QED BY <1>1, <1>2, <3>1 DEF Modes, Exists
  <2>4. Sending(d)'
    BY <1>0, <1>1 DEF Sending, Window, Hist
  <2>5. OnHead(d)'
    BY <1>0, <1>1, <1>2 DEF OnHead, Window, Hist
  <2> QED BY <2>1, <2>2, <2>3, <2>4, <2>5 DEF Window
<1>5. OwnKept(d)
  <2>1. Reached \subseteq Reached' /\ Boundary(d) /\ Over(d)
    BY ReachedGrows DEF IInv, Kept
  <2>2. Hist(disk[d].mark)' = Hist(disk[d].mark) /\ Hist(disk[d].tip)' = Hist(disk[d].tip)
    BY DEF Hist
  <2>3. Boundary(d)'
    <3>1. proc[d].pc \notin {"claim", "place", "hooks"}
      BY <1>0 DEF Window, Modes
    <3>2. proc'[d].pc \notin {"claim", "place", "hooks"}
      BY <1>1, <3>1
    <3> HIDE DEF Reached
    <3> QED BY <1>1, <2>1, <2>2, <3>2 DEF Boundary
  <2>4. Over(d)'
    BY <1>1, <2>1 DEF Over, Hist
  <2> QED BY <2>2, <2>3, <2>4 DEF OwnKept
<1>6. stored' \subseteq Turns
  BY <1>0 DEF Base
<1> QED BY <1>1, <1>2, <1>4, <1>5, <1>6, StepKept

\* A request that failed, and may have been carried out.
LEMMA FailedKept ==
  ASSUME IInv, NEW d \in Devices, past' = past,
         stored' = stored \/ (stored \subseteq stored' /\ stored' \subseteq Turns),
         disk' = disk, DirStep(d),
         Becomes(d, Failed(proc[d])), proc[d].mode = "driving"
  PROVE  IInv' /\ Advances
<1> DEFINE q == Failed(proc[d])
<1>0. Base /\ Shapes /\ Window(d) /\ proc[d] \in ProcType
  BY DEF IInv, Base, Shapes
<1>1. q \in ProcType
  BY <1>0, FailedValue
<1>2. /\ proc'[d] = q
      /\ \A e \in Devices \ {d} : proc'[e] = proc[e]
  BY <1>0, <1>1, ProcBecomes
<1>3. CASE proc[d].closing
  <2>1. Becomes(d, Off)
    BY <1>0, <1>3, FailedValue
  <2>2. Exists(row[Main])' \/ d = Origin
    BY <1>0 DEF Window, Modes, DirStep, DirSound, Cells
  <2> QED BY <2>1, <2>2, OffKept
<1>4. CASE ~proc[d].closing
  <2>1. /\ q.mode = "driving" /\ q.id = proc[d].id /\ q.fence = proc[d].fence
        /\ q.head = proc[d].head /\ q.noted = proc[d].noted
        /\ q.pc = "idle" /\ q.up = Blank /\ q.call = NoCall
        /\ q.stale = proc[d].stale /\ q.lost = proc[d].lost
        /\ q.sealing = proc[d].sealing /\ ~q.closing
    BY <1>0, <1>4, FailedValue
  <2>2. Room'
    BY <1>0, <1>2, <2>1, RoomKept
  <2>3. q.stale => q.lost
    BY <1>0, <2>1 DEF Window, Modes
  <2> HIDE DEF q
  <2>5. Becomes(d, q)
    BY DEF q
  <2> QED BY <1>1, <2>1, <2>2, <2>3, <2>5, FlagsKept
<1> QED BY <1>3, <1>4

-----------------------------------------------------------------------------
(* Publishing.                                                              *)

\* durable forgets the noted turns up to one that is the head, and keeps the
\* rest in order.
LEMMA DurableCuts ==
  ASSUME NEW n \in Seq(Nat), NEW h, \E i \in 1 .. Len(n) : n[i] = h
  PROVE  \E k \in 1 .. Len(n) :
           /\ n[k] = h /\ Durable(n, h) \in Seq(Nat) /\ Len(Durable(n, h)) = Len(n) - k
           /\ \A i \in 1 .. Len(Durable(n, h)) : /\ k + i \in 1 .. Len(n)
                                                 /\ Durable(n, h)[i] = n[k + i]
           /\ Durable(n, h) = <<>> => k = Len(n)
<1> DEFINE k == CHOOSE i \in 1 .. Len(n) : n[i] = h
<1>1. k \in 1 .. Len(n) /\ n[k] = h
  OBVIOUS
<1>2. Durable(n, h) = SubSeq(n, k + 1, Len(n))
  BY DEF Durable
<1> HIDE DEF k
<1>3. Len(n) \in Nat /\ \A i \in 1 .. Len(n) : n[i] \in Nat
  OBVIOUS
<1>4. SubSeq(n, k + 1, Len(n)) \in Seq(Nat)
  BY <1>1, <1>3
<1>5. Len(SubSeq(n, k + 1, Len(n))) = Len(n) - k
  BY <1>1, <1>3
<1>6. \A i \in 1 .. Len(n) - k : k + i \in 1 .. Len(n) /\ SubSeq(n, k + 1, Len(n))[i] = n[k + i]
  <2> SUFFICES ASSUME NEW i \in 1 .. Len(n) - k
               PROVE  k + i \in 1 .. Len(n) /\ SubSeq(n, k + 1, Len(n))[i] = n[k + i]
    OBVIOUS
  <2>1. k \in Nat /\ Len(n) \in Nat /\ k + i \in 1 .. Len(n)
    BY <1>1, <1>3
  <2>2. i \in 1 .. (Len(n) - (k + 1)) + 1
    BY <2>1
  <2>3. SubSeq(n, k + 1, Len(n))[i] = n[(k + 1) + i - 1]
    BY <2>1, <2>2
  <2>4. (k + 1) + i - 1 = k + i
    BY <2>1
  <2> QED BY <2>1, <2>3, <2>4
<1>7. SubSeq(n, k + 1, Len(n)) = <<>> => k = Len(n)
  <2>1. SubSeq(n, k + 1, Len(n)) = <<>> => Len(SubSeq(n, k + 1, Len(n))) = 0
    BY EmptySeq
  <2>2. Len(n) - k = 0 => k = Len(n)
    BY <1>1, <1>3
  <2> QED BY <1>5, <2>1, <2>2
<1> DEFINE s == SubSeq(n, k + 1, Len(n))
<1>8. /\ n[k] = h /\ s \in Seq(Nat) /\ Len(s) = Len(n) - k
      /\ \A i \in 1 .. Len(s) : k + i \in 1 .. Len(n) /\ s[i] = n[k + i]
      /\ s = <<>> => k = Len(n)
  BY <1>1, <1>4, <1>5, <1>6, <1>7
<1> HIDE DEF s
<1>9. Durable(n, h) = s
  BY <1>2 DEF s
<1> QED BY <1>1, <1>8, <1>9

\* The line above the head just published.
LEMMA DurableLine ==
  ASSUME Shapes, NEW d \in Devices, Line(d), NamesKnown(d), NEW h,
         \E i \in 1 .. Len(proc[d].noted) : proc[d].noted[i] = h
  PROVE  LET n == Durable(proc[d].noted, h) IN
         /\ n \in Seq(Nat)
         /\ \A i \in 1 .. Len(n) : Known(n[i]) /\ n[i] # Blank /\ Hist(h) \subseteq Hist(n[i])
         /\ \A i, j \in 1 .. Len(n) : i <= j => Hist(n[i]) \subseteq Hist(n[j])
         /\ n # <<>> => Newest(n) = disk[d].tip
         /\ n = <<>> => h = disk[d].tip
         /\ Known(h) /\ Hist(h) \subseteq Hist(Newest(proc[d].noted))
         /\ proc[d].noted # <<>> /\ Hist(h) \subseteq Hist(disk[d].tip)
<1> DEFINE m == proc[d].noted
           n == Durable(m, h)
<1>1. m \in Seq(Nat) /\ Len(m) \in Nat
  BY DEF Shapes, ProcType
<1>2. PICK k \in 1 .. Len(m) :
           /\ m[k] = h /\ n \in Seq(Nat) /\ Len(n) = Len(m) - k
           /\ \A i \in 1 .. Len(n) : k + i \in 1 .. Len(m) /\ n[i] = m[k + i]
           /\ n = <<>> => k = Len(m)
  BY <1>1, DurableCuts
<1>3. /\ \A i \in 1 .. Len(m) : Known(m[i]) /\ m[i] # Blank
      /\ \A i, j \in 1 .. Len(m) : i <= j => Hist(m[i]) \subseteq Hist(m[j])
      /\ m # <<>> => Newest(m) = disk[d].tip
  BY DEF Line, NamesKnown
<1>4. k \in Nat /\ m # <<>> /\ Len(m) \in 1 .. Len(m) /\ m[Len(m)] = disk[d].tip
  BY <1>1, <1>2, <1>3 DEF Newest
<1> HIDE DEF n, m
<1>5. \A i \in 1 .. Len(n) : Known(n[i]) /\ n[i] # Blank /\ Hist(h) \subseteq Hist(n[i])
  <2> TAKE i \in 1 .. Len(n)
  <2>1. k + i \in 1 .. Len(m) /\ n[i] = m[k + i] /\ k <= k + i
    BY <1>1, <1>2
  <2>2. Hist(m[k]) \subseteq Hist(m[k + i])
    BY <1>3, <2>1
  <2> QED BY <1>2, <1>3, <2>1, <2>2
<1>6. \A i, j \in 1 .. Len(n) : i <= j => Hist(n[i]) \subseteq Hist(n[j])
  <2> SUFFICES ASSUME NEW i \in 1 .. Len(n), NEW j \in 1 .. Len(n), i <= j
               PROVE  Hist(n[i]) \subseteq Hist(n[j])
    OBVIOUS
  <2>1. /\ k + i \in 1 .. Len(m) /\ n[i] = m[k + i]
        /\ k + j \in 1 .. Len(m) /\ n[j] = m[k + j]
    BY <1>2
  <2>2. Len(n) \in Nat
    BY <1>2
  <2>3. k + i <= k + j
    BY <1>4, <2>2
  <2>4. Hist(m[k + i]) \subseteq Hist(m[k + j])
    BY <1>3, <2>1, <2>3
  <2> QED BY <2>1, <2>4
<1>7. n # <<>> => Newest(n) = disk[d].tip
  <2> SUFFICES ASSUME n # <<>> PROVE Newest(n) = disk[d].tip
    OBVIOUS
  <2>1. Len(n) \in 1 .. Len(n) /\ k + Len(n) = Len(m)
    BY <1>1, <1>2, <1>4
  <2> QED BY <1>2, <1>4, <2>1 DEF Newest
<1>8. n = <<>> => h = disk[d].tip
  BY <1>2, <1>4
<1>9. Known(h) /\ Hist(h) \subseteq Hist(Newest(m))
  <2>1. k <= Len(m)
    BY <1>1, <1>2
  <2>2. Hist(m[k]) \subseteq Hist(m[Len(m)])
    BY <1>2, <1>3, <1>4, <2>1
  <2> QED BY <1>2, <1>3, <2>2 DEF Newest
<1>10. Hist(h) \subseteq Hist(disk[d].tip)
  BY <1>4, <1>9 DEF Newest
<1> QED BY <1>2, <1>4, <1>5, <1>6, <1>7, <1>8, <1>9, <1>10 DEF n, m

\* A publish that succeeded: the head is in the directory, and what is still
\* noted is above it.
LEMMA PublishedKept ==
  ASSUME IInv, NEW d \in Devices, past' = past, stored' = stored, DirStep(d),
         NEW f \in Nat \ {0}, proc[d].pc = "send", Published(d, f),
         row'[proc[d].id].head = proc[d].up, Exists(row'[proc[d].id])
  PROVE  IInv' /\ Advances
<1> DEFINE p == proc[d]
           open == [p EXCEPT !.closing = FALSE]
           n == Durable(p.noted, p.up)
           q == [Failed(open) EXCEPT !.closing = p.closing, !.fence = f, !.head = p.up,
                                     !.noted = n]
<1>0. Base /\ Shapes /\ Window(d) /\ p \in ProcType
  BY DEF IInv, Base, Shapes
<1>a. /\ p.mode = "driving" /\ \E i \in 1 .. Len(p.noted) : p.noted[i] = p.up
      /\ p.id \in Cells /\ p.up \in Nat /\ p.closing \in BOOLEAN
      /\ p.stale \in BOOLEAN /\ p.lost \in BOOLEAN /\ p.sealing \in BOOLEAN
  BY <1>0 DEF Window, Sending, ProcType
<1>b. /\ n \in Seq(Nat)
      /\ \A i \in 1 .. Len(n) : Known(n[i]) /\ n[i] # Blank /\ Hist(p.up) \subseteq Hist(n[i])
      /\ \A i, j \in 1 .. Len(n) : i <= j => Hist(n[i]) \subseteq Hist(n[j])
      /\ n # <<>> => Newest(n) = disk[d].tip
      /\ n = <<>> => p.up = disk[d].tip
      /\ Known(p.up) /\ Hist(p.up) \subseteq Hist(disk[d].tip)
  BY <1>0, <1>a, DurableLine DEF Window
<1>c. /\ open \in ProcType /\ open.mode = p.mode /\ open.id = p.id /\ open.stale = p.stale
      /\ open.lost = p.lost /\ open.sealing = p.sealing /\ open.asked = p.asked /\ ~open.closing
  BY <1>0 DEF ProcType
<1>d. /\ q \in ProcType /\ q.mode = "driving" /\ q.pc = "idle" /\ q.id = p.id /\ q.fence = f
      /\ q.head = p.up /\ q.noted = n /\ q.stale = p.stale /\ q.lost = p.lost
      /\ q.sealing = p.sealing /\ q.closing = p.closing /\ q.up = Blank /\ q.call = NoCall
  <2> DEFINE o == Failed(open)
  <2>1. /\ o \in ProcType /\ o.mode = "driving" /\ o.pc = "idle" /\ o.id = p.id
        /\ o.stale = p.stale /\ o.lost = p.lost /\ o.sealing = p.sealing
        /\ o.up = Blank /\ o.call = NoCall
    BY <1>a, <1>c, FailedValue
  <2> HIDE DEF o, n, p
  <2> QED BY <1>a, <1>b, <2>1 DEF ProcType, o
<1> HIDE DEF q, n
<1>e. Becomes(d, q) /\ disk' = [disk EXCEPT ![d].mark = p.up]
  BY DEF Published, q, n
<1>1. /\ proc' \in [Devices -> ProcType] /\ proc'[d] = q
      /\ \A e \in Devices \ {d} : proc'[e] = proc[e]
  BY <1>0, <1>d, <1>e, ProcBecomes
<1>2. /\ disk' \in [Devices -> DiskType] /\ disk'[d].mark = p.up
      /\ disk'[d].tip = disk[d].tip /\ disk'[d].alias = disk[d].alias
      /\ \A e \in Devices \ {d} : disk'[e] = disk[e]
  BY <1>0, <1>a, <1>e DEF Shapes, DiskType
<1>3. OthersKept(d)
  BY <1>1, <1>2 DEF OthersKept
<1>4. Room'
  BY <1>0, <1>1, <1>d, RoomKept
<1>5. Window(d)'
  <2>1. NamesKnown(d)'
    BY <1>0, <1>1, <1>2, <1>b, <1>d, OffValue DEF NamesKnown, Window, Known, Base, Shapes, Blank
  <2>2. Line(d)'
    BY <1>1, <1>2, <1>b, <1>d DEF Line, Newest, Hist
  <2>3. Modes(d)'
    <3>1. /\ Modes(d) /\ Main \in Cells /\ disk[d].alias \in Cells
          /\ \A c \in Cells : Exists(row[c]) => Exists(row[c])'
      BY <1>0 DEF Window, Cells, Shapes, DiskType, DirStep, DirSound
    <3> QED BY <1>1, <1>2, <1>a, <1>d, <3>1 DEF Modes, Exists
  <2>4. Sending(d)'
    BY <1>1, <1>d DEF Sending
  <2>5. OnHead(d)'
    BY <1>1, <1>2, <1>b, <1>d DEF OnHead, Hist
  <2> QED BY <2>1, <2>2, <2>3, <2>4, <2>5 DEF Window
<1>6. OwnKept(d)
  <2>1. \A h : Hist(h)' = Hist(h)
    BY DEF Hist
  <2>2. Boundary(d)'
    <3>1. PICK c \in Cells : row'[c].head = p.up
      BY <1>a
    <3>2. Hist(row'[c].head) \subseteq Reached'
      BY <2>1 DEF Reached, Shared, Cells
    <3>3. Hist(p.up) \subseteq Reached'
      BY <3>1, <3>2
    <3> HIDE DEF Reached
    <3>4. disk'[d].mark = p.up /\ (n = <<>> => disk'[d].tip = p.up)
      BY <1>2, <1>b
    <3> QED BY <1>1, <1>d, <2>1, <3>3, <3>4 DEF Boundary
  <2>3. Over(d)'
    BY <1>1, <1>d DEF Over
  <2>4. Hist(disk[d].tip)' = Hist(disk[d].tip)
    BY <1>2 DEF Hist
  <2> QED BY <2>2, <2>3, <2>4 DEF OwnKept
<1>7. stored' \subseteq Turns
  BY <1>0 DEF Base
<1> QED BY <1>1, <1>2, <1>3, <1>4, <1>5, <1>6, <1>7, StepKept

-----------------------------------------------------------------------------
(* Sealing.                                                                 *)

\* A seal adds one turn on top of the tree, and changes no other.
LEMMA SealedAdds ==
  ASSUME Base, NEW d \in Devices, Sealed(d), stored' = stored, row' = row
  PROVE  LET new == Len(past) + 1 IN
         /\ past' \in Seq(SUBSET Nat) /\ Len(past') = new /\ Grown /\ Histories'
         /\ \A t \in 0 .. Len(past) : Hist(t)' = Hist(t)
         /\ \A t : t = new => Hist(t)' = Hist(disk[d].tip) \cup {new}
         /\ disk' = [disk EXCEPT ![d].tip = new]
<1> DEFINE new == Len(past) + 1
           h == Hist(disk[d].tip) \cup {new}
<1>1. past \in Seq(SUBSET Nat) /\ Len(past) \in Nat /\ disk[d].tip \in 0 .. Len(past)
  BY DEF Base, Shapes, Window, NamesKnown, Known
<1>2. Hist(disk[d].tip) \subseteq 1 .. Len(past)
  BY <1>1 DEF Base, Histories, Hist, Turns, Blank
<1>3. h \in SUBSET Nat /\ past' = Append(past, h)
  BY <1>1, <1>2 DEF Sealed
<1> HIDE DEF h
<1>4. /\ past' \in Seq(SUBSET Nat) /\ Len(past') = new /\ past'[new] = h
      /\ \A t \in 1 .. Len(past) : past'[t] = past[t]
  BY <1>1, <1>3
<1>5. \A t \in 0 .. Len(past) : Hist(t)' = Hist(t)
  BY <1>1, <1>4 DEF Hist, Blank
<1>6. \A t : t = new => Hist(t)' = h
  BY <1>1, <1>4 DEF Hist, Blank
<1>7. Grown
  BY <1>1, <1>4, <1>5 DEF Grown, Exists
<1>8. Histories'
  <2> SUFFICES ASSUME NEW t \in 1 .. new
               PROVE  /\ t \in past'[t] /\ past'[t] \subseteq 1 .. t
                      /\ \A u \in past'[t] : past'[u] \subseteq past'[t]
    BY <1>4 DEF Histories, Turns
  <2>1. CASE t \in 1 .. Len(past)
    <3>1. /\ t \in past[t] /\ past[t] \subseteq 1 .. t
          /\ \A u \in past[t] : past[u] \subseteq past[t]
      BY <2>1 DEF Base, Histories, Turns
    <3>2. past'[t] = past[t] /\ \A u \in 1 .. t : past'[u] = past[u]
      BY <1>1, <1>4, <2>1
    <3> QED BY <3>1, <3>2
  <2>2. CASE t = new
    <3>1. past'[t] = Hist(disk[d].tip) \cup {t}
      BY <1>4, <2>2 DEF h
    <3>2. \A u \in Hist(disk[d].tip) :
             u \in 1 .. Len(past) /\ past[u] \subseteq Hist(disk[d].tip)
      BY <1>1, <1>2 DEF Base, Histories, Hist, Turns, Blank
    <3>3. \A u \in Hist(disk[d].tip) : past'[u] \subseteq Hist(disk[d].tip)
      BY <1>4, <3>2
    <3> HIDE DEF new
    <3>4. 1 .. Len(past) \subseteq 1 .. t /\ t \in 1 .. t
      BY <1>1, <2>2 DEF new
    <3> QED BY <3>1, <3>2, <3>3, <3>4
  <2> QED BY <1>1, <2>1, <2>2
<1> QED BY <1>3, <1>4, <1>5, <1>6, <1>7, <1>8 DEF Sealed, h

\* A sealed turn changes nothing for the directory, nor for another device.
LEMMA SealKept ==
  ASSUME IInv, NEW d \in Devices, Sealed(d), stored' = stored, row' = row,
         overwritten' = overwritten, proc' \in [Devices -> ProcType], OthersKept(d), Room', Window(d)',
         Over(d)' /\ Boundary(d)'
  PROVE  IInv' /\ Advances
<1> DEFINE new == Len(past) + 1
<1>0. Base
  BY DEF IInv
<1>1. /\ past' \in Seq(SUBSET Nat) /\ Len(past') = new /\ Grown /\ Histories'
      /\ \A t \in 0 .. Len(past) : Hist(t)' = Hist(t)
      /\ \A t : t = new => Hist(t)' = Hist(disk[d].tip) \cup {new}
      /\ disk' = [disk EXCEPT ![d].tip = new]
  BY <1>0, SealedAdds
<1>2. Len(past) \in Nat
  BY <1>0 DEF Base, Shapes
<1>3. disk' \in [Devices -> DiskType] /\ disk'[d].tip = new
  <2>1. new \in Nat /\ disk \in [Devices -> DiskType]
    BY <1>0, <1>2 DEF Base, Shapes
  <2>2. disk' = [disk EXCEPT ![d].tip = new]
    BY <1>1
  <2> HIDE DEF new
  <2> QED BY <2>1, <2>2 DEF DiskType
<1>4. Shapes'
  BY <1>0, <1>1, <1>3 DEF Base, Shapes
<1>5. \A e \in Devices : Window(e)'
  BY <1>0, <1>1, WindowKept, HandoffAssumption DEF OthersKept, Base
<1>6. \A c \in Cells : Hist(row[c].head)' = Hist(row[c].head)
  <2> TAKE c \in Cells
  <2>1. row[c].head \in 0 .. Len(past) /\ row'[c].head = row[c].head
    BY <1>0 DEF Base, CellsKnown, Known
  <2> QED BY <1>1, <2>1
<1>7. Shared' = Shared /\ Reached' = Reached
  BY <1>6 DEF Reached, Shared, Cells
<1>8. Base'
  <2>1. CellsKnown'
    BY <1>0, <1>1, <1>2 DEF Base, CellsKnown, Known, Exists
  <2>2. (stored \subseteq Turns)'
    BY <1>0, <1>1, <1>2 DEF Base, Turns
  <2>3. HeadsAreStored'
    BY <1>0, <1>7 DEF Base, HeadsAreStored
  <2> QED BY <1>1, <1>4, <1>5, <2>1, <2>2, <2>3 DEF Base
<1>9. Kept'
  <2>1. Kept
    BY DEF IInv
  <2>2. ASSUME NEW e \in Devices \ {d}
        PROVE  (Over(e) /\ Boundary(e))'
    <3>1. proc'[e] = proc[e] /\ disk'[e] = disk[e] /\ Window(e)
      BY <1>0 DEF OthersKept, Base
    <3>2. /\ Hist(disk[e].tip)' = Hist(disk[e].tip) /\ Hist(disk[e].mark)' = Hist(disk[e].mark)
          /\ Hist(proc[e].up)' = Hist(proc[e].up) /\ Hist(proc[e].head)' = Hist(proc[e].head)
          /\ Hist(proc[e].call.head)' = Hist(proc[e].call.head)
      <4>1. NamesKnown(e)
        BY <3>1 DEF Window
      <4> QED BY <1>1, <3>1, <4>1 DEF NamesKnown, Known
    <3>3. Boundary(e)'
      <4> HIDE DEF Reached
      <4> QED BY <1>7, <2>1, <3>1, <3>2 DEF Kept, Boundary
    <3>4. Over(e)'
      BY <2>1, <3>1, <3>2 DEF Kept, Over
    <3> QED BY <3>3, <3>4
  <2>3. WorkIsKept'
    <3> SUFFICES ASSUME NEW t \in 1 .. new, t \notin Reached
                 PROVE  \E e \in Devices : t \in Hist(disk[e].tip)'
      BY <1>1, <1>7 DEF WorkIsKept, Turns
    <3>1. Hist(disk[d].tip)' = Hist(disk[d].tip) \cup {new}
      BY <1>1, <1>3
    <3>2. CASE t = new
      BY <3>1, <3>2
    <3>3. CASE t \in 1 .. Len(past)
      <4>1. PICK e \in Devices : t \in Hist(disk[e].tip)
        BY <2>1, <3>3 DEF Kept, WorkIsKept, Turns
      <4>2. CASE e = d
        BY <3>1, <4>1, <4>2
      <4>3. CASE e # d
        <5>1. disk'[e] = disk[e] /\ Known(disk[e].tip)
          BY <1>0, <4>3 DEF OthersKept, Base, Window, NamesKnown
        <5>2. Hist(disk[e].tip)' = Hist(disk[e].tip)
          BY <1>1, <5>1 DEF Known
        <5> QED BY <4>1, <5>1, <5>2
      <4> QED BY <4>2, <4>3
    <3> QED BY <1>2, <3>2, <3>3
  <2> QED BY <2>2, <2>3 DEF Kept
<1> QED BY <1>8, <1>9 DEF IInv, Advances

\* Seals add nothing to what has reached the directory.
LEMMA SealReached ==
  ASSUME Base, NEW d \in Devices, Sealed(d), stored' = stored, row' = row,
         overwritten' = overwritten
  PROVE  Reached' = Reached
<1>1. \A t \in 0 .. Len(past) : Hist(t)' = Hist(t)
  BY SealedAdds
<1>2. \A c \in Cells : Hist(row[c].head)' = Hist(row[c].head)
  <2> TAKE c \in Cells
  <2>1. row[c].head \in 0 .. Len(past) /\ row'[c].head = row[c].head
    BY DEF Base, CellsKnown, Known
  <2> QED BY <1>1, <2>1
<1> QED BY <1>2 DEF Reached, Shared, Cells

\* A seal passes the gate.
LEMMA StartSealKept ==
  ASSUME IInv, NEW d \in Devices, StartSeal(d)
  PROVE  IInv' /\ Advances
<1> DEFINE p == proc[d]
           q == [p EXCEPT !.sealing = TRUE]
<1>0. Base /\ Shapes /\ Window(d) /\ p \in ProcType
  BY DEF IInv, Base, Shapes
<1>1. /\ p.mode = "driving" /\ ~p.lost /\ ~p.closing /\ ~p.sealing /\ SealSlots > 0
      /\ Becomes(d, q) /\ UNCHANGED <<row, past, stored, disk, overwritten>>
  BY DEF StartSeal
<1>2. /\ q \in ProcType /\ q.sealing /\ q.closing = p.closing /\ q.mode = p.mode
      /\ q.id = p.id /\ q.fence = p.fence /\ q.head = p.head /\ q.noted = p.noted
      /\ q.pc = p.pc /\ q.up = p.up /\ q.call = p.call /\ q.stale = p.stale /\ q.lost = p.lost
  BY <1>0 DEF ProcType
<1> HIDE DEF q
<1>3. proc'[d] = q /\ \A e \in Devices \ {d} : proc'[e] = proc[e]
  BY <1>0, <1>1, <1>2, ProcBecomes
<1>4. Room'
  <2>1. Sealing' = Sealing \cup {d} /\ d \notin Sealing
    BY <1>1, <1>2, <1>3 DEF Sealing
  <2>2. IsFiniteSet(Sealing) /\ Cardinality(Sealing) \in Nat
    BY <1>0, FS_CardinalityType DEF Base, Room
  <2>3. IsFiniteSet(Sealing') /\ Cardinality(Sealing') = Cardinality(Sealing) + 1
    BY <2>1, <2>2, FS_AddElement
  <2>4. SealSlots = MaxTurns - Len(past) - Cardinality(Sealing)
    BY DEF SealSlots, Sealing
  <2>5. Len(past) \in Nat /\ MaxTurns \in Nat
    BY <1>0, HandoffAssumption DEF Shapes
  <2> QED BY <1>1, <2>2, <2>3, <2>4, <2>5 DEF Room
<1>5. OthersKept(d)
  BY <1>1, <1>3 DEF OthersKept
<1>6. DirStep(d)
  BY <1>0, <1>1, <1>5, RowSame
<1>8. q.stale => q.lost
  BY <1>0, <1>2 DEF Window, Modes
<1> QED BY <1>1, <1>2, <1>4, <1>6, <1>8, FlagsKept

\* The turn is sealed and noted.
LEMMA EndSealKept ==
  ASSUME IInv, NEW d \in Devices, EndSeal(d)
  PROVE  IInv' /\ Advances
<1> DEFINE p == proc[d]
           new == Len(past) + 1
           n == Append(p.noted, new)
           q == [p EXCEPT !.sealing = FALSE, !.noted = n]
<1>0. Base /\ Shapes /\ Window(d) /\ p \in ProcType
  BY DEF IInv, Base, Shapes
<1>1. /\ p.sealing /\ Sealed(d) /\ UNCHANGED <<row, stored, overwritten>> /\ Becomes(d, q)
      /\ p.mode = "driving" /\ p.noted \in Seq(Nat) /\ new \in Nat /\ Len(past) \in Nat
  BY <1>0 DEF EndSeal, Window, Modes, Shapes, ProcType
<1>2. /\ n \in Seq(Nat) /\ Len(n) = Len(p.noted) + 1 /\ Len(p.noted) \in Nat /\ n # <<>>
      /\ Newest(n) = new /\ \A i \in 1 .. Len(p.noted) : n[i] = p.noted[i]
      /\ \A i \in 1 .. Len(n) : i \in 1 .. Len(p.noted) \/ i = Len(p.noted) + 1
      /\ n[Len(p.noted) + 1] = new
  <2> HIDE DEF new
  <2> QED BY <1>1 DEF Newest
<1> HIDE DEF n
<1>3. /\ q \in ProcType /\ ~q.sealing /\ q.noted = n /\ q.closing = p.closing /\ q.mode = p.mode
      /\ q.id = p.id /\ q.fence = p.fence /\ q.head = p.head
      /\ q.pc = p.pc /\ q.up = p.up /\ q.call = p.call /\ q.stale = p.stale /\ q.lost = p.lost
  BY <1>0, <1>2 DEF ProcType
<1> HIDE DEF q
<1>4. /\ proc' \in [Devices -> ProcType] /\ proc'[d] = q
      /\ \A e \in Devices \ {d} : proc'[e] = proc[e]
  BY <1>0, <1>1, <1>3, ProcBecomes
<1>5. /\ Len(past') = new /\ \A t \in 0 .. Len(past) : Hist(t)' = Hist(t)
      /\ \A t : t = new => Hist(t)' = Hist(disk[d].tip) \cup {new}
      /\ disk' = [disk EXCEPT ![d].tip = new]
  BY <1>0, <1>1, SealedAdds
<1>6. /\ disk'[d].tip = new /\ disk'[d].mark = disk[d].mark /\ disk'[d].alias = disk[d].alias
      /\ \A e \in Devices \ {d} : disk'[e] = disk[e]
  <2> HIDE DEF new
  <2> QED BY <1>0, <1>5 DEF Shapes, DiskType
<1>7. OthersKept(d)
  BY <1>4, <1>6 DEF OthersKept
<1>8. Room'
  <2>1. Sealing' = Sealing \ {d} /\ d \in Sealing
    BY <1>1, <1>3, <1>4 DEF Sealing
  <2>2. IsFiniteSet(Sealing) /\ Cardinality(Sealing) \in Nat
    BY <1>0, FS_CardinalityType DEF Base, Room
  <2>3. IsFiniteSet(Sealing') /\ Cardinality(Sealing') = Cardinality(Sealing) - 1
    BY <2>1, <2>2, FS_RemoveElement
  <2> QED BY <1>0, <1>1, <1>5, <2>2, <2>3, HandoffAssumption DEF Base, Room
<1>9. /\ Known(disk[d].tip) /\ Known(disk[d].mark) /\ Known(p.head) /\ Known(p.up)
      /\ Known(p.call.head) /\ \A i \in 1 .. Len(p.noted) : Known(p.noted[i])
  BY <1>0 DEF Window, NamesKnown
<1>10. \A t : Known(t) => t \in 0 .. Len(past) /\ t \in 0 .. Len(past')
  BY <1>1, <1>5 DEF Known
<1>11. new \in 0 .. Len(past') /\ new # Blank
  BY <1>1, <1>5 DEF Blank
<1>h. \A t : HistAfter(t) = Hist(t)'
  BY DEF HistAfter, Hist
<1>12. /\ \A i \in 1 .. Len(p.noted) : Hist(p.noted[i]) \subseteq Hist(disk[d].tip)
       /\ Hist(p.head) \subseteq Hist(disk[d].tip)
  <2>1. Line(d) /\ OnHead(d)
    BY <1>0 DEF Window
  <2>2. \A i \in 1 .. Len(p.noted) : /\ i <= Len(p.noted) /\ Len(p.noted) \in 1 .. Len(p.noted)
                                     /\ p.noted # <<>>
    BY <1>1, <1>2
  <2> QED BY <1>1, <2>1, <2>2, ZenonT(40) DEF Line, OnHead, Newest
<1>13. Window(d)'
  <2>1. NamesKnown(d)'
    BY <1>2, <1>3, <1>4, <1>6, <1>9, <1>10, <1>11 DEF NamesKnown, Known
  <2>2. Line(d)'
    <3>0. Line(d)
      BY <1>0 DEF Window
    <3> DEFINE old == 1 .. Len(p.noted)
    <3>1. \A i \in old : /\ n[i] = p.noted[i] /\ n[i] # Blank /\ Known(n[i])
                         /\ Hist(p.head) \subseteq Hist(n[i])
                         /\ Hist(n[i]) \subseteq Hist(disk[d].tip)
      BY <1>2, <1>9, <1>12, <3>0 DEF Line
    <3>2. \A i, j \in old : i <= j => Hist(n[i]) \subseteq Hist(n[j])
      BY <1>2, <3>0 DEF Line
    <3>3. \A t : Known(t) => HistAfter(t) = Hist(t)
      BY <1>h, <1>5, <1>10
    <3>4. Hist(disk[d].tip) \subseteq HistAfter(disk'[d].tip)
      BY <1>h, <1>5, <1>6
    <3>5. /\ n[Len(p.noted) + 1] = disk'[d].tip
          /\ \A i \in 1 .. Len(n) : i \notin old => n[i] = disk'[d].tip
      BY <1>2, <1>6
    <3>6. HistAfter(p.head) = Hist(p.head) /\ \A i \in old : HistAfter(n[i]) = Hist(n[i])
      BY <1>9, <3>1, <3>3
    <3>7. \A i \in 1 .. Len(n) : n[i] # Blank /\ Hist(p.head) \subseteq HistAfter(n[i])
      BY <1>2, <1>11, <1>12, <1>6, <3>1, <3>4, <3>5, <3>6
    <3>8. \A i, j \in 1 .. Len(n) : i <= j => HistAfter(n[i]) \subseteq HistAfter(n[j])
      <4> SUFFICES ASSUME NEW i \in 1 .. Len(n), NEW j \in 1 .. Len(n), i <= j
                   PROVE  HistAfter(n[i]) \subseteq HistAfter(n[j])
        OBVIOUS
      <4>1. j \in old => i \in old
        BY <1>2
      <4>2. CASE j \in old
        BY <3>2, <3>6, <4>1, <4>2
      <4>3. CASE j \notin old /\ i \in old
        BY <3>1, <3>4, <3>5, <3>6, <4>3
      <4>4. CASE j \notin old /\ i \notin old
        BY <3>5, <4>4
      <4> QED BY <4>1, <4>2, <4>3, <4>4
    <3>9. Newest(n) = disk'[d].tip
      BY <1>2, <1>6
    <3>10. proc'[d].noted = n /\ proc'[d].head = p.head
      BY <1>3, <1>4
    <3>11. \A i \in 1 .. Len(n) : n[i] # Blank /\ HistAfter(p.head) \subseteq HistAfter(n[i])
      BY <3>6, <3>7
    <3>12. n[Len(n)] = disk'[d].tip
      BY <3>9 DEF Newest
    <3> DEFINE h == p.head
    <3> HIDE DEF h
    <3>13. proc'[d].noted = n /\ proc'[d].head = h
      BY <3>10 DEF h
    <3>14. \A i \in 1 .. Len(n) : n[i] # Blank /\ HistAfter(h) \subseteq HistAfter(n[i])
      BY <3>11 DEF h
    <3> QED BY <1>h, <3>8, <3>12, <3>13, <3>14 DEF Line, Newest
  <2>3. Modes(d)'
    BY <1>0, <1>1, <1>3, <1>4, <1>6 DEF Window, Modes, Exists
  <2>4. Sending(d)'
    <3>1. HistAfter(p.up) = Hist(p.up)
      BY <1>3, <1>4, <1>h, <1>5, <1>9, <1>10
    <3>2. p.pc = "send" => /\ Hist(p.up) \subseteq stored
                           /\ \E i \in 1 .. Len(n) : n[i] = p.up
                           /\ p.call.fence = 0 => p.fence = 0
      BY <1>0, <1>2 DEF Sending, Window
    <3> QED BY <1>h, <1>1, <1>3, <1>4, <3>1, <3>2 DEF Sending
  <2>5. OnHead(d)'
    <3>1. HistAfter(p.head) = Hist(p.head) /\ Hist(disk[d].tip) \subseteq HistAfter(disk'[d].tip)
      BY <1>h, <1>5, <1>6, <1>9, <1>10
    <3>2. HistAfter(p.head) \subseteq HistAfter(disk'[d].tip)
      BY <1>12, <3>1
    <3> QED BY <1>3, <1>4, <3>2 DEF OnHead, Hist, HistAfter
  <2> QED BY <2>1, <2>2, <2>3, <2>4, <2>5 DEF Window
<1>14. Over(d)' /\ Boundary(d)'
  <2>0. Over(d) /\ Boundary(d)
    BY DEF IInv, Kept
  <2>1. Reached' = Reached
    BY <1>0, <1>1, SealReached
  <2>2. HistAfter(disk'[d].mark) = Hist(disk[d].mark)
    BY <1>h, <1>5, <1>6, <1>9, <1>10
  <2>3. HistAfter(p.up) = Hist(p.up) /\ HistAfter(p.call.head) = Hist(p.call.head)
    BY <1>3, <1>4, <1>h, <1>5, <1>9, <1>10
  <2>4. Boundary(d)'
    <3>1. p.pc \notin {"claim", "place", "hooks"}
      BY <1>0, <1>1 DEF Window, Modes
    <3> HIDE DEF Reached
    <3> QED BY <1>h, <1>2, <1>3, <1>4, <2>0, <2>1, <2>2, <3>1 DEF Boundary
  <2>5. Over(d)'
    BY <1>3, <1>4, <2>0, <2>3 DEF Over, Hist, HistAfter
  <2> QED BY <2>4, <2>5
<1> QED BY <1>1, <1>4, <1>7, <1>8, <1>13, <1>14, SealKept

\* A window that carries on unsynced seals on its own disk.
LEMMA SealAloneKept ==
  ASSUME IInv, NEW d \in Devices, SealAlone(d)
  PROVE  IInv' /\ Advances
<1> DEFINE p == proc[d]
           new == Len(past) + 1
<1>0. Base /\ Shapes /\ Window(d) /\ p \in ProcType
  BY DEF IInv, Base, Shapes
<1>1. /\ p.mode = "off" /\ disk[d].tip # Blank /\ SealSlots > 0 /\ Sealed(d)
      /\ UNCHANGED <<row, stored, proc, overwritten>> /\ p.noted = <<>> /\ Len(past) \in Nat
  BY <1>0 DEF SealAlone, Window, Modes, Shapes
<1>2. /\ Len(past') = new /\ \A t \in 0 .. Len(past) : Hist(t)' = Hist(t)
      /\ disk' = [disk EXCEPT ![d].tip = new]
  BY <1>0, <1>1, SealedAdds
<1>3. /\ disk'[d].tip = new /\ disk'[d].mark = disk[d].mark /\ disk'[d].alias = disk[d].alias
      /\ \A e \in Devices \ {d} : disk'[e] = disk[e]
  <2> HIDE DEF new
  <2> QED BY <1>0, <1>2 DEF Shapes, DiskType
<1>4. OthersKept(d)
  BY <1>1, <1>3 DEF OthersKept
<1>5. Room'
  <2>1. IsFiniteSet(Sealing) /\ Cardinality(Sealing) \in Nat /\ Sealing' = Sealing
    BY <1>0, <1>1, FS_CardinalityType DEF Base, Room, Sealing
  <2>2. SealSlots = MaxTurns - Len(past) - Cardinality(Sealing)
    BY DEF SealSlots, Sealing
  <2> QED BY <1>1, <1>2, <2>1, <2>2, HandoffAssumption DEF Room
<1>6. \A t : Known(t) => t \in 0 .. Len(past')
  BY <1>1, <1>2 DEF Known
<1>7. Window(d)'
  <2>1. NamesKnown(d)'
    BY <1>0, <1>1, <1>2, <1>3, <1>6 DEF NamesKnown, Window, Known
  <2>2. Line(d)' /\ OnHead(d)'
    BY <1>1 DEF Line, OnHead
  <2>3. Modes(d)'
    BY <1>0, <1>1, <1>3 DEF Window, Modes, Exists
  <2>4. Sending(d)'
    BY <1>0, <1>1 DEF Window, Sending
  <2> QED BY <2>1, <2>2, <2>3, <2>4 DEF Window
<1>8. Over(d)' /\ Boundary(d)'
  <2>1. Reached' = Reached /\ Boundary(d)
    BY <1>0, <1>1, SealReached DEF IInv, Kept
  <2>2. Hist(disk[d].mark)' = Hist(disk[d].mark)
    BY <1>0, <1>2, <1>3 DEF Window, NamesKnown, Known
  <2>3. p.pc \notin {"send", "claim", "place", "hooks"}
    BY <1>0, <1>1 DEF Window, Modes, Sending
  <2>4. Boundary(d)'
    <3> HIDE DEF Reached
    <3> QED BY <1>1, <2>1, <2>2, <2>3 DEF Boundary
  <2> QED BY <1>1, <2>3, <2>4 DEF Over
<1>9. proc' \in [Devices -> ProcType]
  BY <1>0, <1>1 DEF Shapes
<1> QED BY <1>1, <1>4, <1>5, <1>7, <1>8, <1>9, SealKept

-----------------------------------------------------------------------------
(* The requests of a publish.                                               *)

\* A turn's objects are uploaded before it is named.
LEMMA UploadStores ==
  ASSUME Base, NEW h, Known(h), Upload(h)
  PROVE  stored \subseteq stored' /\ stored' \subseteq Turns /\ Hist(h) \subseteq stored'
<1>1. h \in 1 .. Len(past) => past[h] \subseteq 1 .. h
  BY DEF Base, Histories, Turns
<1>2. Len(past) \in Nat
  BY DEF Base, Shapes
<1>3. h = Blank \/ h \in 1 .. Len(past)
  BY <1>2 DEF Known, Blank
<1>4. Hist(h) \subseteq 1 .. Len(past)
  BY <1>1, <1>2, <1>3 DEF Hist
<1> QED BY <1>4 DEF Upload, Base, Turns

\* The newest noted turn is the tree's.
LEMMA NewestKnown ==
  ASSUME Shapes, NEW d \in Devices, Window(d), proc[d].noted # <<>>
  PROVE  /\ \E i \in 1 .. Len(proc[d].noted) : proc[d].noted[i] = Newest(proc[d].noted)
         /\ Known(Newest(proc[d].noted)) /\ Newest(proc[d].noted) \in Nat
         /\ Newest(proc[d].noted) = disk[d].tip
         /\ Hist(proc[d].head) \subseteq Hist(Newest(proc[d].noted))
<1> DEFINE n == proc[d].noted
<1>1. n \in Seq(Nat) /\ n # <<>>
  BY DEF Shapes, ProcType
<1> HIDE DEF n
<1>2. Len(n) \in 1 .. Len(n) /\ n[Len(n)] \in Nat
  BY <1>1
<1> QED BY <1>2 DEF n, Newest, Window, Line, NamesKnown

\* Flush: the objects are stored before the publish is sent.
LEMMA FlushKept ==
  ASSUME IInv, NEW d \in Devices, Flush(d)
  PROVE  IInv' /\ Advances
<1> DEFINE p == proc[d]
           u == Newest(p.noted)
           c == [NoCall EXCEPT !.fence = p.fence, !.head = p.head]
           q == [p EXCEPT !.pc = "send", !.up = u, !.call = c]
<1>0. Base /\ Shapes /\ Window(d) /\ p \in ProcType
  BY DEF IInv, Base, Shapes
<1>1. /\ p.mode = "driving" /\ p.pc = "idle" /\ p.noted # <<>> /\ Upload(u) /\ Becomes(d, q)
      /\ UNCHANGED <<row, past, disk, overwritten>> /\ p.fence \in Nat /\ p.head \in Nat
  BY <1>0 DEF Flush, ProcType
<1>2. /\ \E i \in 1 .. Len(p.noted) : p.noted[i] = u
      /\ Known(u) /\ u \in Nat /\ u = disk[d].tip /\ Hist(p.head) \subseteq Hist(u)
  BY <1>0, <1>1, NewestKnown
<1>3. c \in CallType /\ c.fence = p.fence /\ c.head = p.head
  BY <1>1, OffValue DEF CallType, NoCall
<1> HIDE DEF c, u
<1>4. /\ q \in ProcType /\ q.sealing = p.sealing /\ q.closing = p.closing /\ q.mode = p.mode
      /\ q.id = p.id /\ q.fence = p.fence /\ q.head = p.head /\ q.noted = p.noted
      /\ q.pc = "send" /\ q.up = u /\ q.call = c /\ q.stale = p.stale /\ q.lost = p.lost
  BY <1>0, <1>2, <1>3 DEF ProcType
<1> HIDE DEF q
<1>5. /\ proc' \in [Devices -> ProcType] /\ proc'[d] = q
      /\ \A e \in Devices \ {d} : proc'[e] = proc[e]
  BY <1>0, <1>1, <1>4, ProcBecomes
<1>6. stored \subseteq stored' /\ stored' \subseteq Turns /\ Hist(u) \subseteq stored'
  BY <1>0, <1>1, <1>2, UploadStores
<1>7. OthersKept(d)
  BY <1>1, <1>5 DEF OthersKept
<1>8. DirStep(d) /\ Room'
  BY <1>0, <1>1, <1>4, <1>5, <1>6, <1>7, RowSame, RoomKept
<1>9. Window(d)'
  <2>1. NamesKnown(d)'
    BY <1>0, <1>1, <1>2, <1>3, <1>4, <1>5 DEF NamesKnown, Window, Known
  <2>2. Line(d)'
    <3>1. \A t \in 0 .. Len(past) : Hist(t)' = Hist(t)
      BY <1>1 DEF Hist
    <3> QED BY <1>0, <1>1, <1>4, <1>5, <3>1, LineKept DEF Window
  <2>3. Modes(d)'
    <3>1. Modes(d)
      BY <1>0 DEF Window
    <3> QED BY <1>1, <1>4, <1>5, <3>1 DEF Modes, Exists
  <2>4. Sending(d)'
    BY <1>1, <1>2, <1>3, <1>4, <1>5, <1>6 DEF Sending, Hist
  <2>5. OnHead(d)'
    BY <1>0, <1>1, <1>4, <1>5 DEF OnHead, Window, Hist
  <2> QED BY <2>1, <2>2, <2>3, <2>4, <2>5 DEF Window
<1>10. OwnKept(d)
  <2>1. Reached' = Reached /\ Boundary(d)
    BY <1>1 DEF Reached, Shared, Hist, IInv, Kept
  <2>2. Boundary(d)'
    <3> HIDE DEF Reached
    <3> QED BY <1>1, <1>4, <1>5, <2>1 DEF Boundary, Hist
  <2>3. Over(d)'
    BY <1>1, <1>2, <1>3, <1>4, <1>5 DEF Over, Hist
  <2>5. Hist(disk[d].tip)' = Hist(disk[d].tip)
    BY <1>1 DEF Hist
  <2> QED BY <2>2, <2>3, <2>5 DEF OwnKept
<1>11. disk' \in [Devices -> DiskType]
  BY <1>0, <1>1 DEF Shapes
<1> QED BY <1>1, <1>5, <1>6, <1>7, <1>8, <1>9, <1>10, <1>11, StepKept

\* What is being sent.
LEMMA SendFacts ==
  ASSUME Base, NEW d \in Devices, proc[d].pc = "send"
  PROVE  /\ proc[d] \in ProcType /\ proc[d].mode = "driving" /\ proc[d].id \in Cells
         /\ Known(proc[d].up) /\ proc[d].up \in Nat /\ Hist(proc[d].up) \subseteq stored
         /\ proc[d].noted # <<>>
         /\ Hist(proc[d].up) \subseteq Hist(Newest(proc[d].noted))
         /\ proc[d].call.fence = 0 => proc[d].fence = 0 /\ d = Origin /\ proc[d].id = Main
         /\ row[proc[d].id] \in RowT /\ proc[d].fence \in Nat
<1>1. Shapes /\ Window(d)
  BY DEF Base
<1>2. Sending(d) /\ Modes(d) /\ Line(d) /\ NamesKnown(d)
  BY <1>1 DEF Window
<1>3. PICK i \in 1 .. Len(proc[d].noted) : proc[d].noted[i] = proc[d].up
  BY <1>2 DEF Sending
<1>4. Known(proc[d].up) /\ proc[d].noted # <<>>
      /\ Hist(proc[d].up) \subseteq Hist(Newest(proc[d].noted))
  BY <1>1, <1>2, <1>3, DurableLine
<1> QED BY <1>1, <1>2, <1>4 DEF Sending, Modes, Shapes, ProcType, RowT

\* A step of one process leaves the others alone.
LEMMA ProcOnly ==
  ASSUME Shapes, NEW d \in Devices, NEW q, Becomes(d, q), disk' = disk
  PROVE  OthersKept(d)
BY DEF Shapes, Becomes, OthersKept

\* An answer, heard or not, is one process's own affair.
LEMMA AnswerOnly ==
  ASSUME Shapes, NEW d \in Devices, NEW f, Published(d, f) \/ Unheard(d) \/ Refused(d)
  PROVE  OthersKept(d)
BY DEF Shapes, Becomes, OthersKept, Published, Unheard, Refused

\* Create: a first publish makes the row, and its answer may be lost.
LEMMA CreateKept ==
  ASSUME IInv, NEW d \in Devices, Create(d)
  PROVE  IInv' /\ Advances
<1> DEFINE p == proc[d]
           r == Created(d, p.up, 0)
<1>0. Base /\ Shapes
  BY DEF IInv, Base
<1>1. /\ p.pc = "send" /\ p.call.fence = 0 /\ ~Exists(row[p.id]) /\ Rows(p.id, r)
      /\ Published(d, 1) \/ Unheard(d)
      /\ UNCHANGED <<past, stored, overwritten>>
  BY DEF Create
<1>2. /\ p \in ProcType /\ p.mode = "driving" /\ p.id \in Cells /\ Known(p.up) /\ p.up \in Nat
      /\ Hist(p.up) \subseteq stored /\ p.noted # <<>>
      /\ Hist(p.up) \subseteq Hist(Newest(p.noted)) /\ d = Origin /\ row[p.id] \in RowT
  BY <1>0, <1>1, SendFacts
<1>3. r \in RowT /\ r.head = p.up /\ Exists(r) /\ r.device = d
  BY <1>2, CreatedRow
<1>4. Hist(row[p.id].head) = {}
  BY <1>0, <1>1, <1>2 DEF Base, CellsKnown, Hist
<1>5. OthersKept(d)
  BY <1>0, <1>1, AnswerOnly
<1> HIDE DEF r
<1>6. DirStep(d) /\ row'[p.id] = r
  BY <1>0, <1>1, <1>2, <1>3, <1>4, <1>5, RowWritten
<1>7. CASE Published(d, 1)
  BY <1>1, <1>3, <1>6, <1>7, PublishedKept
<1>8. CASE Unheard(d)
  <2>1. Becomes(d, Failed(p)) /\ disk' = disk
    BY <1>8 DEF Unheard
  <2> QED BY <1>1, <1>2, <1>3, <1>6, <2>1, FailedKept
<1> QED BY <1>1, <1>7, <1>8

\* Resume: a first publish that finds its cell takes the lease back.
LEMMA ResumeKept ==
  ASSUME IInv, NEW d \in Devices, Resume(d)
  PROVE  IInv' /\ Advances
<1> DEFINE p == proc[d]
           r == Acquire(row[p.id], d, 0)
           allowed == AcquireAllowed(row[p.id], d, 0, FALSE, {})
           c == [NoCall EXCEPT !.fence = r.fence, !.head = r.head]
           q == [p EXCEPT !.call = c]
<1>0. Base /\ Shapes /\ Window(d)
  BY DEF IInv, Base
<1>1. /\ p.pc = "send" /\ p.call.fence = 0 /\ Exists(row[p.id])
      /\ UNCHANGED <<past, stored, overwritten>>
      /\ \/ /\ Rows(p.id, r)
            /\ \/ r.head = p.up /\ Published(d, r.fence)
               \/ r.head # p.up /\ Becomes(d, q) /\ disk' = disk
               \/ Unheard(d)
         \/ Refused(d)
  BY DEF Resume
<1>2. /\ p \in ProcType /\ p.mode = "driving" /\ p.id \in Cells /\ Known(p.up) /\ p.up \in Nat
      /\ Hist(p.up) \subseteq stored /\ p.noted # <<>>
      /\ Hist(p.up) \subseteq Hist(Newest(p.noted)) /\ d = Origin /\ p.fence = 0
      /\ row[p.id] \in RowT
  BY <1>0, <1>1, SendFacts
<1>3. /\ r \in RowT /\ r.head = row[p.id].head /\ Exists(r) /\ r.device = d
      /\ r.fence \in Nat \ {0} /\ r.head \in Nat
  <2>1. r \in RowT /\ r.head = row[p.id].head /\ Exists(r) /\ r.device = d
    BY <1>2, RowRules
  <2> HIDE DEF r
  <2> QED BY <2>1 DEF RowT, RowType, Exists
<1>4. Known(r.head) /\ Hist(r.head) \subseteq stored
  BY <1>0, <1>2, <1>3 DEF Base, CellsKnown, HeadsAreStored, Shared
<1>6. OthersKept(d)
  BY <1>0, <1>1, AnswerOnly, ProcOnly
<1> HIDE DEF r
<1>7. Rows(p.id, r) => DirStep(d) /\ row'[p.id] = r
  BY <1>0, <1>1, <1>2, <1>3, <1>4, <1>6, RowWritten
<1>8. CASE Rows(p.id, r) /\ r.head = p.up /\ Published(d, r.fence)
  BY <1>1, <1>3, <1>7, <1>8, PublishedKept
<1>9. CASE Rows(p.id, r) /\ r.head # p.up /\ Becomes(d, q) /\ disk' = disk
  <2>1. c \in CallType /\ c.fence = r.fence /\ c.head = r.head
    BY <1>3, OffValue DEF CallType, NoCall
  <2> HIDE DEF c
  <2>2. /\ q \in ProcType /\ q.sealing = p.sealing /\ q.closing = p.closing /\ q.mode = p.mode
        /\ q.id = p.id /\ q.fence = p.fence /\ q.head = p.head /\ q.noted = p.noted
        /\ q.pc = "send" /\ q.up = p.up /\ q.call = c /\ q.stale = p.stale /\ q.lost = p.lost
    BY <1>1, <1>2, <2>1 DEF ProcType
  <2> HIDE DEF q
  <2>3. /\ proc' \in [Devices -> ProcType] /\ proc'[d] = q
        /\ \A e \in Devices \ {d} : proc'[e] = proc[e]
    BY <1>0, <1>9, <2>2, ProcBecomes
  <2>4. Room'
    BY <1>0, <1>1, <2>2, <2>3, RoomKept
  <2>5. disk' \in [Devices -> DiskType] /\ disk'[d] = disk[d]
    BY <1>0, <1>9 DEF Shapes
  <2>6. Window(d)'
    <3>1. NamesKnown(d)'
      BY <1>0, <1>1, <1>4, <2>1, <2>2, <2>3, <2>5 DEF NamesKnown, Window, Known
    <3>2. Line(d)'
      <4>1. \A t \in 0 .. Len(past) : Hist(t)' = Hist(t)
        BY <1>1 DEF Hist
      <4> QED BY <1>0, <2>2, <2>3, <2>5, <4>1, LineKept DEF Window
    <3>3. Modes(d)'
      <4>1. /\ Modes(d) /\ Main \in Cells /\ disk[d].alias \in Cells /\ p.id \in Cells
            /\ \A b \in Cells : Exists(row[b]) => Exists(row[b])'
        BY <1>0, <1>2, <1>7, <1>9 DEF Window, Cells, Shapes, DiskType, DirStep, DirSound
      <4> QED BY <1>1, <1>2, <2>2, <2>3, <2>5, <4>1 DEF Modes, Exists
    <3>4. Sending(d)'
      BY <1>0, <1>1, <1>2, <1>3, <2>1, <2>2, <2>3 DEF Sending, Window, Hist
    <3>5. OnHead(d)'
      BY <1>0, <1>1, <2>2, <2>3, <2>5 DEF OnHead, Window, Hist
    <3> QED BY <3>1, <3>2, <3>3, <3>4, <3>5 DEF Window
  <2>7. OwnKept(d)
    <3>1. Reached \subseteq Reached' /\ Boundary(d)
      BY <1>1, <1>7, <1>9, ReachedGrows DEF IInv, Kept
    <3>2. Boundary(d)'
      <4> HIDE DEF Reached
      <4> QED BY <1>1, <1>2, <2>2, <2>3, <2>5, <3>1 DEF Boundary, Hist
    <3>3. Over(d)'
      BY <1>1, <1>2, <2>1, <2>2, <2>3 DEF Over, Hist
    <3>5. Hist(disk[d].tip)' = Hist(disk[d].tip)
      BY <1>1, <1>9 DEF Hist
    <3> QED BY <3>2, <3>3, <3>5 DEF OwnKept
  <2>8. stored \subseteq stored' /\ stored' \subseteq Turns
    BY <1>0, <1>1 DEF Base
  <2> QED BY <1>1, <1>6, <1>7, <1>9, <2>3, <2>4, <2>5, <2>6, <2>7, <2>8, StepKept
<1>10. CASE Rows(p.id, r) /\ Unheard(d)
  <2>1. Becomes(d, Failed(p)) /\ disk' = disk
    BY <1>10 DEF Unheard
  <2> QED BY <1>1, <1>2, <1>3, <1>7, <1>10, <2>1, FailedKept
<1>11. CASE Refused(d)
  <2>1. Becomes(d, Failed(p)) /\ disk' = disk /\ row' = row
    BY <1>11 DEF Refused
  <2>2. DirStep(d)
    BY <1>0, <1>1, <1>6, <2>1, RowSame
  <2> QED BY <1>1, <1>2, <1>3, <2>1, <2>2, FailedKept
<1> QED BY <1>1, <1>8, <1>9, <1>10, <1>11

\* What a turn was sealed on comes with all of its own.
LEMMA HistClosed ==
  ASSUME Base, NEW t, Known(t), NEW u \in Hist(t)
  PROVE  Hist(u) \subseteq Hist(t)
<1>1. t # Blank /\ t \in Turns /\ u \in past[t]
  BY DEF Hist, Known, Turns, Blank, Base, Shapes
<1>2. past[u] \subseteq past[t]
  BY <1>1 DEF Base, Histories
<1> QED BY <1>1, <1>2 DEF Hist

\* Move: the head moves up under the fence, or the window is displaced.
LEMMA MoveKept ==
  ASSUME IInv, NEW d \in Devices, Move(d)
  PROVE  IInv' /\ Advances
<1> DEFINE p == proc[d]
           r == PublishTo(row[p.id], p.up, 0)
           w == [p EXCEPT !.stale = TRUE, !.lost = TRUE, !.asked = {}]
           q == [w EXCEPT !.pc = "idle", !.up = Blank, !.call = NoCall]
<1>0. Base /\ Shapes /\ Window(d)
  BY DEF IInv, Base
<1>1. /\ p.pc = "send" /\ p.call.fence # 0 /\ past' = past /\ stored' = stored
      /\ \/ /\ MoveAllowed(row[p.id], d, p.call) /\ Rows(p.id, r)
            /\ Published(d, p.call.fence) \/ Unheard(d)
            /\ overwritten' = IF LateRetry(d) THEN overwritten \cup Hist(p.call.head)
                              ELSE overwritten
         \/ Refused(d) /\ overwritten' = overwritten
         \/ Becomes(d, q) /\ row' = row /\ disk' = disk /\ overwritten' = overwritten
  BY DEF Move, Displacing
<1>2. /\ p \in ProcType /\ p.mode = "driving" /\ p.id \in Cells /\ Known(p.up) /\ p.up \in Nat
      /\ Hist(p.up) \subseteq stored /\ p.noted # <<>> /\ row[p.id] \in RowT
      /\ Hist(p.up) \subseteq Hist(Newest(p.noted))
  BY <1>0, <1>1, SendFacts
<1>3. p.call.fence \in Nat \ {0}
  BY <1>1, <1>2 DEF ProcType, CallType
<1>4. OthersKept(d)
  BY <1>0, <1>1, AnswerOnly, ProcOnly
<1>5. CASE /\ MoveAllowed(row[p.id], d, p.call) /\ Rows(p.id, r)
           /\ Published(d, p.call.fence) \/ Unheard(d)
           /\ overwritten' = IF LateRetry(d) THEN overwritten \cup Hist(p.call.head)
                             ELSE overwritten
  <2>1. /\ row[p.id].fence = p.call.fence /\ row[p.id].device = d
        /\ row[p.id].head = p.call.head
    BY <1>5 DEF MoveAllowed, holder
  <2>2. /\ r \in RowT /\ r.head = p.up /\ r.fence = row[p.id].fence
        /\ r.device = row[p.id].device
    BY <1>2, RowRules
  <2>3. Exists(r) /\ Exists(row[p.id])
    BY <1>3, <2>1, <2>2 DEF Exists
  <2>4. /\ overwritten \subseteq overwritten'
        /\ \/ Hist(row[p.id].head) \subseteq Hist(r.head)
           \/ LateRetry(d) /\ Hist(row[p.id].head) \subseteq overwritten'
    <3>1. CASE LateRetry(d)
      BY <1>5, <2>1, <3>1
    <3>2. CASE ~LateRetry(d) /\ p.fence = 0
      <4>1. p.call.head \in Hist(p.up)
        BY <1>1, <3>2 DEF LateRetry
      <4>2. Hist(p.call.head) \subseteq Hist(p.up)
        BY <1>0, <1>2, <4>1, HistClosed
      <4> QED BY <1>5, <2>1, <2>2, <3>2, <4>2
    <3>3. CASE ~LateRetry(d) /\ p.fence # 0
      BY <1>1, <1>5, <2>1, <2>2, <3>3 DEF IInv, Kept, Over
    <3> QED BY <3>1, <3>2, <3>3
  <2> HIDE DEF r
  <2>6. DirStep(d) /\ row'[p.id] = r
    BY <1>0, <1>1, <1>2, <1>4, <1>5, <2>2, <2>3, <2>4, RowWritten
  <2>7. CASE Published(d, p.call.fence)
    BY <1>1, <1>3, <2>2, <2>3, <2>6, <2>7, PublishedKept
  <2>8. CASE Unheard(d)
    <3>1. Becomes(d, Failed(p)) /\ disk' = disk
      BY <2>8 DEF Unheard
    <3> QED BY <1>1, <1>2, <2>1, <2>2, <2>6, <3>1, FailedKept
  <2> QED BY <1>5, <2>7, <2>8
<1>6. CASE Refused(d) /\ overwritten' = overwritten
  <2>1. Becomes(d, Failed(p)) /\ disk' = disk /\ row' = row
    BY <1>6 DEF Refused
  <2>2. DirStep(d)
    BY <1>0, <1>1, <1>4, <1>6, <2>1, RowSame
  <2> QED BY <1>1, <1>2, <2>1, <2>2, FailedKept
<1>7. CASE Becomes(d, q) /\ row' = row /\ disk' = disk /\ overwritten' = overwritten
  <2>1. /\ q \in ProcType /\ q.sealing = p.sealing /\ q.closing = p.closing /\ q.mode = p.mode
        /\ q.id = p.id /\ q.fence = p.fence /\ q.head = p.head /\ q.noted = p.noted
        /\ q.pc = "idle" /\ q.up = Blank /\ q.call = NoCall /\ q.stale /\ q.lost
    BY <1>2, OffValue DEF ProcType, Blank
  <2> HIDE DEF q
  <2>2. proc'[d] = q /\ \A e \in Devices \ {d} : proc'[e] = proc[e]
    BY <1>0, <1>7, <2>1, ProcBecomes
  <2>3. Room'
    BY <1>0, <1>1, <2>1, <2>2, RoomKept
  <2>4. DirStep(d)
    BY <1>0, <1>1, <1>4, <1>7, RowSame
  <2>6. q.sealing => ~q.closing
    BY <1>0, <2>1 DEF Window, Modes
  <2> QED BY <1>1, <1>2, <1>7, <2>1, <2>3, <2>4, <2>6, FlagsKept
<1> QED BY <1>1, <1>5, <1>6, <1>7

-----------------------------------------------------------------------------
(* Losing the lease and closing.                                            *)

\* A window whose flags change and that makes no request.
LEMMA QuietKept ==
  ASSUME IInv, NEW d \in Devices, NEW q \in ProcType, Becomes(d, q),
         UNCHANGED <<row, past, stored, disk, overwritten>>, proc[d].mode = "driving",
         q.mode = "driving", q.id = proc[d].id, q.fence = proc[d].fence,
         q.head = proc[d].head, q.noted = proc[d].noted,
         q.pc = proc[d].pc, q.up = proc[d].up, q.call = proc[d].call,
         q.stale => q.lost, q.sealing => proc[d].sealing, q.sealing => ~q.closing
  PROVE  IInv' /\ Advances
<1>0. Base /\ Shapes
  BY DEF IInv, Base
<1>1. proc'[d] = q /\ \A e \in Devices \ {d} : proc'[e] = proc[e]
  BY <1>0, ProcBecomes
<1>2. Room'
  BY <1>0, <1>1, RoomKept
<1>3. DirStep(d)
  BY <1>0, ProcOnly, RowSame
<1> QED BY <1>2, <1>3, FlagsKept

\* CheckLease: a failed check is remembered with the fence it was made under.
LEMMA CheckLeaseKept ==
  ASSUME IInv, NEW d \in Devices, CheckLease(d)
  PROVE  IInv' /\ Advances
<1> DEFINE p == proc[d]
           q == [p EXCEPT !.lost = TRUE, !.asked = {p.fence}]
<1>1. p \in ProcType /\ Modes(d)
  BY DEF IInv, Base, Shapes, Window
<1>2. p.mode = "driving" /\ Becomes(d, q) /\ UNCHANGED <<row, past, stored, disk, overwritten>>
  BY DEF CheckLease
<1>3. /\ q \in ProcType /\ q.sealing = p.sealing /\ q.closing = p.closing /\ q.mode = p.mode
      /\ q.id = p.id /\ q.fence = p.fence /\ q.head = p.head /\ q.noted = p.noted
      /\ q.pc = p.pc /\ q.up = p.up /\ q.call = p.call /\ q.lost
  BY <1>1 DEF ProcType
<1> HIDE DEF q
<1> QED BY <1>1, <1>2, <1>3, QuietKept DEF Modes

\* Close: no seal begins from here on, and what is noted is still to be flushed.
LEMMA CloseKept ==
  ASSUME IInv, NEW d \in Devices, Close(d)
  PROVE  IInv' /\ Advances
<1> DEFINE p == proc[d]
           q == [p EXCEPT !.closing = TRUE]
<1>1. p \in ProcType /\ Modes(d)
  BY DEF IInv, Base, Shapes, Window
<1>2. /\ p.mode = "driving" /\ ~p.sealing /\ Becomes(d, q)
      /\ UNCHANGED <<row, past, stored, disk, overwritten>>
  BY DEF Close
<1>3. /\ q \in ProcType /\ q.sealing = p.sealing /\ q.mode = p.mode
      /\ q.id = p.id /\ q.fence = p.fence /\ q.head = p.head /\ q.noted = p.noted
      /\ q.pc = p.pc /\ q.up = p.up /\ q.call = p.call /\ q.lost = p.lost /\ q.stale = p.stale
  BY <1>1 DEF ProcType
<1> HIDE DEF q
<1> QED BY <1>1, <1>2, <1>3, QuietKept DEF Modes

\* Displaced: the turns not published are orphans of a viewer from here on.
LEMMA DisplacedKept ==
  ASSUME IInv, NEW d \in Devices, Displaced(d)
  PROVE  IInv' /\ Advances
<1> DEFINE p == proc[d]
           w == Displacing(p)
           a == [p EXCEPT !.asked = {}]
<1>1. p \in ProcType /\ Modes(d)
  BY DEF IInv, Base, Shapes, Window
<1>2. /\ p.asked # {} /\ ~p.sealing /\ ~p.stale /\ UNCHANGED <<row, past, stored, disk, overwritten>>
      /\ Becomes(d, w) \/ Becomes(d, a)
  BY DEF Displaced
<1>3. \A q \in {w, a} :
         /\ q \in ProcType /\ q.sealing = p.sealing /\ q.closing = p.closing /\ q.mode = p.mode
         /\ q.id = p.id /\ q.fence = p.fence /\ q.head = p.head /\ q.noted = p.noted
         /\ q.pc = p.pc /\ q.up = p.up /\ q.call = p.call /\ (q.stale => q.lost)
  BY <1>1, <1>2, ZenonT(40) DEF ProcType, Displacing
<1>4. p.mode = "driving"
  BY <1>1, <1>2 DEF Modes
<1> HIDE DEF w, a
<1> QED BY <1>1, <1>2, <1>3, <1>4, QuietKept

\* Beat: a renewal changes no head and no device.
LEMMA BeatKept ==
  ASSUME IInv, NEW d \in Devices, Beat(d)
  PROVE  IInv' /\ Advances
<1> DEFINE p == proc[d]
           r == Heartbeat(row[p.id], 0)
           w == Displacing(p)
<1>0. /\ Base /\ Shapes /\ p \in ProcType /\ Modes(d) /\ Window(d)
      /\ p.id \in Cells /\ row[p.id] \in RowT
  BY DEF IInv, Base, Shapes, Window, ProcType, RowT
<1>1. /\ p.mode = "driving" /\ p.fence # 0 /\ UNCHANGED <<past, stored, disk, overwritten>>
      /\ \/ holder(row[p.id], d, p.fence) /\ Rows(p.id, r) /\ proc' = proc
         \/ Becomes(d, w) /\ row' = row
  BY DEF Beat
<1>2. CASE holder(row[p.id], d, p.fence) /\ Rows(p.id, r) /\ proc' = proc
  <2>1. /\ r \in RowT /\ r.head = row[p.id].head /\ r.fence = row[p.id].fence
        /\ r.device = row[p.id].device
    <3>1. 0 \in Nat
      OBVIOUS
    <3> QED BY <1>0, <3>1, RowRules
  <2> HIDE DEF r
  <2>2. Exists(r) /\ Exists(row[p.id]) /\ row[p.id].device = d
    BY <1>1, <1>2, <2>1 DEF holder, Exists
  <2>3. Known(r.head) /\ Hist(r.head) \subseteq stored'
    BY <1>0, <1>1, <2>1 DEF Base, CellsKnown, HeadsAreStored, Shared
  <2>4. OthersKept(d)
    BY <1>1, <1>2 DEF OthersKept
  <2>6. DirStep(d) /\ row'[p.id] = r
    BY <1>0, <1>1, <1>2, <2>1, <2>2, <2>3, <2>4, RowWritten
  <2>7. Room' /\ Becomes(d, p)
    BY <1>0, <1>1, <1>2, RoomKept DEF Becomes, Shapes
  <2>9. (p.stale => p.lost) /\ (p.sealing => ~p.closing)
    BY <1>0 DEF Modes
  <2> QED BY <1>0, <1>1, <2>6, <2>7, <2>9, FlagsKept
<1>3. CASE Becomes(d, w) /\ row' = row
  <2>1. /\ w \in ProcType /\ w.sealing = p.sealing /\ w.closing = p.closing /\ w.mode = p.mode
        /\ w.id = p.id /\ w.fence = p.fence /\ w.head = p.head /\ w.noted = p.noted
        /\ w.pc = p.pc /\ w.up = p.up /\ w.call = p.call /\ (w.stale => w.lost)
    BY <1>0 DEF ProcType, Displacing
  <2>2. w.sealing => ~w.closing
    BY <1>0, <2>1 DEF Modes
  <2> HIDE DEF w
  <2> QED BY <1>0, <1>1, <1>3, <2>1, <2>2, QuietKept
<1> QED BY <1>1, <1>2, <1>3

\* A row that changes hands or runs out keeps its head.
LEMMA HeadKept ==
  ASSUME Base, NEW c \in Cells, NEW r, r.head = row[c].head, stored' = stored
  PROVE  Known(r.head) /\ Hist(r.head) \subseteq stored'
BY DEF Base, CellsKnown, HeadsAreStored, Shared

\* A lease the device holds is given back, or there is none to give back.
LEMMA ReleaseStep ==
  ASSUME IInv, NEW d \in Devices, NEW c \in Cells, NEW f, NEW q,
         UNCHANGED <<past, stored, disk, overwritten>>, Becomes(d, q),
         \/ holder(row[c], d, f) /\ f # 0 /\ Rows(c, ReleaseOf(row[c], 0))
         \/ row' = row
  PROVE  DirStep(d)
<1> DEFINE r == ReleaseOf(row[c], 0)
<1>0. Base /\ Shapes /\ row[c] \in RowT /\ OthersKept(d)
  BY ProcOnly DEF IInv, Base, Shapes, RowT
<1>1. CASE row' = row
  BY <1>0, <1>1, RowSame
<1>2. CASE holder(row[c], d, f) /\ f # 0 /\ Rows(c, r)
  <2>1. /\ r \in RowT /\ r.head = row[c].head /\ r.fence = row[c].fence
        /\ r.device = row[c].device
    <3>1. 0 \in Nat
      OBVIOUS
    <3> QED BY <1>0, <3>1, RowRules
  <2> HIDE DEF r
  <2>2. Exists(r) /\ Exists(row[c]) /\ row[c].device = d
    BY <1>2, <2>1 DEF holder, Exists
  <2>3. Known(r.head) /\ Hist(r.head) \subseteq stored'
    BY <1>0, <2>1, HeadKept
  <2> QED BY <1>0, <1>2, <2>1, <2>2, <2>3, RowWritten
<1> QED BY <1>1, <1>2

\* Quit: the lease is given back, and the window is gone.
LEMMA QuitKept ==
  ASSUME IInv, NEW d \in Devices, Quit(d)
  PROVE  IInv' /\ Advances
<1> DEFINE p == proc[d]
<1>1. /\ UNCHANGED <<past, stored, disk, overwritten>> /\ Becomes(d, Off) /\ p.mode = "driving"
      /\ \/ holder(row[p.id], d, p.fence) /\ p.fence # 0 /\ Rows(p.id, ReleaseOf(row[p.id], 0))
         \/ row' = row
  BY DEF Quit
<1>2. p.id \in Cells /\ Modes(d) /\ Main \in Cells
  BY DEF IInv, Base, Shapes, ProcType, Window, Cells
<1>3. DirStep(d)
  BY <1>1, <1>2, ReleaseStep
<1>4. Exists(row[Main])' \/ d = Origin
  BY <1>1, <1>2, <1>3 DEF DirStep, DirSound, Modes
<1> QED BY <1>1, <1>3, <1>4, OffKept

\* GiveBack: a take that stops returns the lease it had claimed.
LEMMA GiveBackKept ==
  ASSUME IInv, NEW d \in Devices, GiveBack(d)
  PROVE  IInv' /\ Advances
<1> DEFINE p == proc[d]
<1>1. /\ UNCHANGED <<past, stored, disk, overwritten>> /\ Becomes(d, Off) /\ p.mode = "taking"
      /\ \/ holder(row[Main], d, p.fence) /\ Rows(Main, ReleaseOf(row[Main], 0))
         \/ row' = row
  BY DEF GiveBack
<1>2. Modes(d) /\ Main \in Cells /\ Exists(row[Main])
  BY <1>1 DEF IInv, Base, Window, Cells, Modes
<1>3. holder(row[Main], d, p.fence) => p.fence # 0
  BY <1>2 DEF holder, Exists
<1>4. DirStep(d)
  BY <1>1, <1>2, <1>3, ReleaseStep
<1>5. Exists(row[Main])'
  BY <1>2, <1>4 DEF DirStep, DirSound
<1> QED BY <1>1, <1>4, <1>5, OffKept

-----------------------------------------------------------------------------
(* Keeping a branch.                                                        *)

\* A branch is a new cell whose head, and all it was sealed on, is stored.
LEMMA BranchStep ==
  ASSUME IInv, NEW d \in Devices, NEW h \in Nat, Known(h), Branch(d, h), past' = past,
         overwritten' = overwritten,
         OthersKept(d)
  PROVE  /\ DirStep(d) /\ NewID \in Branches /\ NewID \in Cells /\ NewID # Main
         /\ Exists(row'[NewID]) /\ row'[NewID].head = h
         /\ \A c \in Cells \ {NewID} : row'[c] = row[c]
         /\ stored \subseteq stored' /\ stored' \subseteq Turns
         /\ Hist(h) \subseteq Reached'
<1> DEFINE b == NewID
           r == Created(d, h, 0)
<1>0. Base /\ Shapes
  BY DEF IInv, Base
<1>1. b \in Branches /\ ~Exists(row[b])
  BY DEF Branch, NewID
<1>2. Upload(h) /\ Rows(b, r)
  BY DEF Branch
<1>3. b \in Cells /\ b # Main
  BY <1>1, HandoffAssumption DEF Cells
<1> HIDE DEF b
<1>4. stored \subseteq stored' /\ stored' \subseteq Turns /\ Hist(h) \subseteq stored'
  BY <1>0, <1>2, UploadStores
<1>5. r \in RowT /\ r.head = h /\ Exists(r)
  BY CreatedRow
<1> HIDE DEF r
<1>6. Hist(row[b].head) = {}
  BY <1>0, <1>1, <1>3 DEF Base, CellsKnown, Hist
<1>7. DirStep(d) /\ row'[b] = r
  BY <1>0, <1>1, <1>2, <1>3, <1>4, <1>5, <1>6, RowWritten
<1>8. \A c \in Cells \ {b} : row'[c] = row[c]
  BY <1>0, <1>2 DEF Rows, Shapes
<1>9. Hist(h) \subseteq Reached'
  <2>1. Hist(row'[b].head) \subseteq Reached'
    BY <1>3 DEF Reached, Shared, Hist
  <2> QED BY <1>5, <1>7, <2>1
<1> QED BY <1>1, <1>3, <1>4, <1>5, <1>7, <1>8, <1>9 DEF b

\* The orphans become a branch, or the answer is lost and they stay.
LEMMA KeepOrphansKept ==
  ASSUME IInv, NEW d \in Devices, KeepOrphans(d)
  PROVE  IInv' /\ Advances
<1> DEFINE p == proc[d]
           h == Newest(p.noted)
           n == Durable(p.noted, h)
           b == NewID
           q == [p EXCEPT !.id = b, !.fence = 1, !.head = h, !.stale = FALSE,
                          !.asked = {}, !.noted = n]
<1>0. Base /\ Shapes /\ Window(d) /\ p \in ProcType
  BY DEF IInv, Base, Shapes
<1>1. /\ p.mode = "driving" /\ p.pc = "idle" /\ p.noted # <<>> /\ Branch(d, h)
      /\ UNCHANGED <<past, overwritten>>
      /\ \/ disk' = [disk EXCEPT ![d].alias = b] /\ Becomes(d, q)
         \/ disk' = disk /\ Becomes(d, Failed(p))
  BY DEF KeepOrphans, BranchMap
<1>2. /\ \E i \in 1 .. Len(p.noted) : p.noted[i] = h
      /\ Known(h) /\ h \in Nat /\ h = disk[d].tip
  BY <1>0, <1>1, NewestKnown
<1>3. OthersKept(d)
  BY <1>0, <1>1 DEF OthersKept, Becomes, Shapes
<1>4. /\ DirStep(d) /\ b \in Cells /\ b # Main
      /\ Exists(row'[b]) /\ row'[b].head = h
      /\ \A c \in Cells \ {b} : row'[c] = row[c]
      /\ stored \subseteq stored' /\ stored' \subseteq Turns
      /\ Hist(h) \subseteq Reached'
  BY <1>1, <1>2, <1>3, BranchStep
<1>5. CASE disk' = disk /\ Becomes(d, Failed(p))
  <2> QED BY <1>1, <1>4, <1>5, FailedKept
<1>6. CASE disk' = [disk EXCEPT ![d].alias = b] /\ Becomes(d, q)
  <2>1. /\ n \in Seq(Nat)
        /\ \A i \in 1 .. Len(n) : Known(n[i]) /\ n[i] # Blank /\ Hist(h) \subseteq Hist(n[i])
        /\ \A i, j \in 1 .. Len(n) : i <= j => Hist(n[i]) \subseteq Hist(n[j])
        /\ n # <<>> => Newest(n) = disk[d].tip
        /\ Hist(h) \subseteq Hist(disk[d].tip)
    BY <1>0, <1>2, DurableLine DEF Window
  <2> HIDE DEF n, h, b
  <2>2. /\ q \in ProcType /\ q.sealing = p.sealing /\ q.closing = p.closing /\ q.mode = p.mode
        /\ q.id = b /\ q.fence = 1 /\ q.head = h /\ q.noted = n
        /\ q.pc = p.pc /\ q.up = p.up /\ q.call = p.call /\ ~q.stale
    BY <1>0, <1>2, <1>4, <2>1 DEF ProcType
  <2> HIDE DEF q
  <2>3. /\ proc' \in [Devices -> ProcType] /\ proc'[d] = q
        /\ \A e \in Devices \ {d} : proc'[e] = proc[e]
    BY <1>0, <1>6, <2>2, ProcBecomes
  <2>4. Room'
    BY <1>0, <1>1, <2>2, <2>3, RoomKept
  <2>5. /\ disk' \in [Devices -> DiskType] /\ disk'[d].tip = disk[d].tip
        /\ disk'[d].mark = disk[d].mark /\ disk'[d].alias = b
    BY <1>0, <1>4, <1>6 DEF Shapes, DiskType
  <2>6. Window(d)'
    <3>1. NamesKnown(d)'
      BY <1>0, <1>1, <1>2, <2>1, <2>2, <2>3, <2>5 DEF NamesKnown, Window, Known
    <3>2. Line(d)'
      BY <1>1, <2>1, <2>2, <2>3, <2>5, ZenonT(40) DEF Line, Newest, Hist
    <3>3. Modes(d)'
      <4>1. /\ Modes(d) /\ \A c \in Cells : Exists(row[c]) => Exists(row[c])'
            /\ Main \in Cells
        BY <1>0, <1>4 DEF Window, Cells, DirStep, DirSound
      <4>2. Exists(row[Main])' \/ d = Origin
        BY <1>1, <4>1 DEF Modes
      <4> QED BY <1>1, <1>4, <2>2, <2>3, <2>5, <4>1, <4>2 DEF Modes, Exists
    <3>4. Sending(d)'
      BY <1>1, <2>2, <2>3 DEF Sending
    <3>5. OnHead(d)'
      BY <1>1, <2>1, <2>2, <2>3, <2>5 DEF OnHead, Hist
    <3> QED BY <3>1, <3>2, <3>3, <3>4, <3>5 DEF Window
  <2>7. OwnKept(d)
    <3>1. Reached \subseteq Reached' /\ Boundary(d)
      BY <1>1, <1>4, ReachedGrows DEF IInv, Kept
    <3>2. Boundary(d)'
      <4> HIDE DEF Reached
      <4> QED BY <1>1, <1>2, <1>4, <2>2, <2>3, <2>5, <3>1 DEF Boundary, Hist
    <3>3. Over(d)'
      BY <1>1, <2>2, <2>3 DEF Over
    <3>4. Hist(disk[d].tip)' = Hist(disk[d].tip)
      BY <1>1, <2>5 DEF Hist
    <3> QED BY <3>2, <3>3, <3>4 DEF OwnKept
  <2> QED BY <1>1, <1>3, <1>4, <2>3, <2>4, <2>5, <2>6, <2>7, StepKept
<1> QED BY <1>1, <1>5, <1>6

-----------------------------------------------------------------------------
(* Opening and taking.                                                      *)

\* A process that publishes nothing: off, opening or taking.
LEMMA OpenerKept ==
  ASSUME IInv, NEW d \in Devices, past' = past,
         stored' = stored \/ (stored \subseteq stored' /\ stored' \subseteq Turns),
         DirStep(d), OthersKept(d), NEW q \in ProcType, Becomes(d, q),
         q.mode \in {"off", "opening", "taking"}, q.noted = <<>>, q.asked = {}, q.stale => q.lost,
         ~q.sealing, q.pc # "send", q.pc # "idle" => q.mode = "taking",
         disk' \in [Devices -> DiskType], disk'[d].alias = disk[d].alias,
         Known(q.head), Known(q.up), Known(q.call.head),
         Known(disk'[d].tip), Known(disk'[d].mark),
         q.mode = "opening" => Exists(row'[q.id]),
         q.mode = "taking" => Exists(row'[Main]),
         Exists(row'[Main]) \/ d = Origin,
         Boundary(d)' /\ Hist(disk[d].tip) \subseteq Reached' \cup Hist(disk[d].tip)'
  PROVE  IInv' /\ Advances
<1>0. Base /\ Shapes /\ Window(d) /\ Modes(d)
  BY DEF IInv, Base, Window
<1>1. /\ proc' \in [Devices -> ProcType] /\ proc'[d] = q
      /\ \A e \in Devices \ {d} : proc'[e] = proc[e]
  BY <1>0, ProcBecomes
<1>2. Room'
  BY <1>0, <1>1, RoomKept
<1>3. Window(d)'
  <2>1. NamesKnown(d)'
    BY <1>1 DEF NamesKnown, Known
  <2>2. Line(d)' /\ OnHead(d)' /\ Sending(d)'
    BY <1>1 DEF Line, OnHead, Sending
  <2>3. Modes(d)'
    <3>1. /\ \A c \in Cells : Exists(row[c]) => Exists(row'[c])
          /\ disk[d].alias \in Cells
      BY <1>0 DEF DirStep, DirSound, Exists, Shapes, DiskType
    <3>2. disk'[d].alias = Main \/ Exists(row'[disk'[d].alias])
      BY <1>0, <3>1 DEF Modes
    <3> QED BY <1>1, <3>2 DEF Modes, Exists
  <2> QED BY <2>1, <2>2, <2>3 DEF Window
<1>4. OwnKept(d)
  BY <1>1 DEF OwnKept, Over
<1>5. stored \subseteq stored' /\ stored' \subseteq Turns
  BY <1>0 DEF Base
<1> QED BY <1>1, <1>2, <1>3, <1>4, <1>5, StepKept

\* A window begins to drive on the head it knows.
LEMMA DriveKept ==
  ASSUME IInv, NEW d \in Devices, past' = past, stored' = stored, disk' = disk,
         DirStep(d), NEW c \in Cells, NEW f \in Nat, NEW h \in Nat, Known(h),
         Becomes(d, Driving(c, f, h, CatchUp(d, h))),
         Hist(h) \subseteq Hist(disk[d].tip), disk[d].tip = Blank => h = Blank,
         f = 0 => d = Origin /\ c = Main /\ ~Exists(row'[c]), f # 0 => Exists(row'[c]),
         Exists(row'[Main]) \/ d = Origin,
         disk[d].tip = h => Hist(h) \subseteq Reached'
  PROVE  IInv' /\ Advances
<1> DEFINE n == CatchUp(d, h)
           q == Driving(c, f, h, n)
<1>0. Base /\ Shapes /\ Window(d) /\ Modes(d) /\ disk[d].tip \in Nat
  BY DEF IInv, Base, Window, Shapes, DiskType
<1>1. /\ n \in Seq(Nat) /\ \A i \in 1 .. Len(n) : i = 1 /\ n[i] = disk[d].tip /\ n[i] # Blank
      /\ n # <<>> => Newest(n) = disk[d].tip
      /\ n = <<>> => disk[d].tip = h
  <2>1. CASE disk[d].tip = h
    BY <2>1 DEF CatchUp
  <2>2. CASE disk[d].tip # h
    <3>1. n = <<disk[d].tip>> /\ disk[d].tip # Blank
      BY <2>2 DEF CatchUp
    <3> HIDE DEF n
    <3> QED BY <1>0, <3>1 DEF Newest
  <2> QED BY <2>1, <2>2
<1> HIDE DEF n
<1>2. /\ q \in ProcType /\ q.mode = "driving" /\ q.pc = "idle" /\ q.id = c /\ q.fence = f
      /\ q.head = h /\ q.noted = n /\ ~q.stale /\ ~q.lost /\ ~q.sealing
      /\ q.asked = {} /\ ~q.closing /\ q.up = Blank /\ q.call = NoCall
  BY <1>1, DrivingValue
<1> HIDE DEF q
<1>3. Becomes(d, q)
  BY DEF q, n
<1>4. /\ proc' \in [Devices -> ProcType] /\ proc'[d] = q
      /\ \A e \in Devices \ {d} : proc'[e] = proc[e]
  BY <1>0, <1>2, <1>3, ProcBecomes
<1>5. Room'
  BY <1>0, <1>2, <1>4, RoomKept
<1>6. disk' \in [Devices -> DiskType] /\ disk'[d] = disk[d] /\ OthersKept(d)
  BY <1>0, <1>4 DEF Shapes, OthersKept
<1>7. Window(d)'
  <2>1. NamesKnown(d)'
    BY <1>0, <1>1, <1>2, <1>4, <1>6, OffValue DEF NamesKnown, Window, Known, Base, Shapes, Blank
  <2>2. Line(d)' /\ OnHead(d)'
    BY <1>1, <1>2, <1>4, <1>6 DEF Line, OnHead, Newest, Hist
  <2>3. Modes(d)'
    <3>1. /\ \A b \in Cells : Exists(row[b]) => Exists(row'[b])
          /\ disk[d].alias \in Cells
      BY <1>0 DEF DirStep, DirSound, Exists, Shapes, DiskType
    <3>2. disk'[d].alias = Main \/ Exists(row'[disk'[d].alias])
      BY <1>0, <1>6, <3>1 DEF Modes
    <3> QED BY <1>2, <1>4, <3>2 DEF Modes, Exists
  <2>4. Sending(d)'
    BY <1>2, <1>4 DEF Sending
  <2> QED BY <2>1, <2>2, <2>3, <2>4 DEF Window
<1>8. OwnKept(d)
  <2>1. Reached \subseteq Reached' /\ Boundary(d)
    BY ReachedGrows DEF IInv, Kept
  <2>2. Boundary(d)'
    <3> HIDE DEF Reached
    <3> QED BY <1>1, <1>2, <1>4, <1>6, <2>1 DEF Boundary, Hist
  <2>3. Over(d)'
    BY <1>2, <1>4 DEF Over
  <2>4. Hist(disk[d].tip)' = Hist(disk[d].tip)
    BY DEF Hist
  <2> QED BY <2>2, <2>3, <2>4 DEF OwnKept
<1>9. stored \subseteq stored' /\ stored' \subseteq Turns
  BY <1>0 DEF Base
<1> QED BY <1>4, <1>5, <1>6, <1>7, <1>8, <1>9, StepKept

\* A head in the tree's ancestry, with all of its own.
LEMMA KnownHead ==
  ASSUME Base, NEW d \in Devices, NEW h, KnowsHead(d, h)
  PROVE  Hist(h) \subseteq Hist(disk[d].tip) /\ (disk[d].tip = Blank => h = Blank)
<1>1. disk[d].tip \in 0 .. Len(past) /\ Len(past) \in Nat
  BY DEF Base, Shapes, Window, NamesKnown, Known
<1>2. CASE h = Blank
  BY <1>2 DEF Hist
<1>3. CASE h \in Hist(disk[d].tip)
  <2>1. disk[d].tip # Blank
    BY <1>3 DEF Hist
  <2>2. disk[d].tip \in Turns
    BY <1>1, <2>1 DEF Turns, Blank
  <2>3. h \in past[disk[d].tip] /\ past[h] \subseteq past[disk[d].tip]
    BY <1>3, <2>1, <2>2 DEF Base, Histories, Hist
  <2> QED BY <2>1, <2>3 DEF Hist
<1> QED BY <1>2, <1>3 DEF KnowsHead

\* Readings of the directory.
LEMMA ReadingValue ==
  ASSUME NEW r \in RowT
  PROVE  Reading(r) \in CallType /\ Reading(r).head = r.head
BY DEF Reading, CallType, RowT, RowType, Live

\* OpenRead: a cell that is not there yet is driven as a first publish, by the
\* origin; the row of one that is there is read first.
LEMMA OpenReadKept ==
  ASSUME IInv, NEW d \in Devices, OpenRead(d)
  PROVE  IInv' /\ Advances
<1> DEFINE c == disk[d].alias
           q == [Off EXCEPT !.mode = "opening", !.id = c, !.call = Reading(row[c])]
<1>0. /\ Base /\ Shapes /\ Window(d) /\ Modes(d) /\ NamesKnown(d)
      /\ c \in Cells /\ row[c] \in RowT
  BY DEF IInv, Base, Window, Shapes, DiskType, RowT
<1>1. /\ proc[d].mode = "off" /\ disk[d].tip # Blank
      /\ UNCHANGED <<row, past, stored, disk, overwritten>>
      /\ \/ ~Exists(row[c]) /\ Becomes(d, Driving(c, 0, Blank, CatchUp(d, Blank)))
         \/ Exists(row[c]) /\ Becomes(d, q)
  BY DEF OpenRead
<1>2. DirStep(d) /\ OthersKept(d)
  BY <1>0, <1>1, ProcOnly, RowSame
<1>3. CASE ~Exists(row[c]) /\ Becomes(d, Driving(c, 0, Blank, CatchUp(d, Blank)))
  <2>1. c = Main /\ d = Origin /\ ~Exists(row'[c])
    BY <1>0, <1>1, <1>3 DEF Modes
  <2>2. Blank \in Nat /\ Known(Blank) /\ Hist(Blank) = {} /\ 0 \in Nat
    BY <1>0 DEF Blank, Known, Hist, Shapes
  <2> QED BY <1>0, <1>1, <1>2, <1>3, <2>1, <2>2, DriveKept
<1>4. CASE Exists(row[c]) /\ Becomes(d, q)
  <2>1. Reading(row[c]) \in CallType /\ Reading(row[c]).head = row[c].head
    BY <1>0, ReadingValue
  <2>2. /\ q \in ProcType /\ q.mode = "opening" /\ q.id = c /\ q.noted = <<>> /\ q.asked = {}
        /\ ~q.stale /\ ~q.sealing /\ q.pc = "idle" /\ q.head = Blank /\ q.up = Blank
        /\ q.call.head = row[c].head
    BY <1>0, <2>1, OffValue DEF ProcType
  <2> HIDE DEF q
  <2>3. /\ Known(q.head) /\ Known(q.up) /\ Known(q.call.head)
        /\ Known(disk'[d].tip) /\ Known(disk'[d].mark)
    BY <1>0, <1>1, <2>2 DEF NamesKnown, Known, Base, CellsKnown, Shapes, Blank
  <2>4. Exists(row'[Main]) \/ d = Origin
    BY <1>0, <1>1 DEF Modes
  <2>5. Boundary(d)' /\ Hist(disk[d].tip) \subseteq Hist(disk[d].tip)'
    <3>1. proc'[d] = q
      BY <1>0, <1>4, <2>2, ProcBecomes
    <3>2. Reached' = Reached
      BY <1>1 DEF Reached, Shared, Hist
    <3> HIDE DEF Reached
    <3> QED BY <1>1, <2>2, <3>1, <3>2 DEF IInv, Kept, Boundary, Hist
  <2>6. disk' \in [Devices -> DiskType]
    BY <1>0, <1>1 DEF Shapes
  <2> QED BY <1>1, <1>2, <1>4, <2>2, <2>3, <2>4, <2>5, <2>6, OpenerKept
<1> QED BY <1>1, <1>3, <1>4

\* The lease of a cell that exists is granted, and perhaps given back at once.
LEMMA GrantStep ==
  ASSUME IInv, NEW d \in Devices, NEW c \in Cells, Exists(row[c]),
         past' = past, stored' = stored, overwritten' = overwritten, OthersKept(d), NEW r,
         r = Acquire(row[c], d, 0) \/ r = ReleaseOf(Acquire(row[c], d, 0), 0), Rows(c, r)
  PROVE  /\ DirStep(d) /\ row'[c] = r /\ Exists(r) /\ r.head = row[c].head
         /\ r.fence \in Nat \ {0} /\ r.head \in Nat /\ Known(r.head)
         /\ Hist(r.head) \subseteq Reached'
<1> DEFINE a == Acquire(row[c], d, 0)
<1>0. Base /\ row[c] \in RowT /\ 0 \in Nat
  BY DEF IInv, Base, Shapes, RowT
<1>1. a \in RowT /\ a.head = row[c].head /\ Exists(a)
  BY <1>0, RowRules
<1> HIDE DEF a
<1>2. /\ ReleaseOf(a, 0) \in RowT /\ ReleaseOf(a, 0).head = a.head
      /\ ReleaseOf(a, 0).fence = a.fence
  BY <1>0, <1>1, RowRules
<1>3. r \in RowT /\ r.head = row[c].head /\ Exists(r)
  BY <1>1, <1>2 DEF Exists, a
<1>4. Known(r.head) /\ Hist(r.head) \subseteq stored'
  BY <1>0, <1>3, HeadKept
<1>6. DirStep(d) /\ row'[c] = r
  BY <1>0, <1>3, <1>4, RowWritten
<1>7. Hist(row'[c].head) \subseteq Reached'
  BY DEF Reached, Shared, Hist
<1> QED BY <1>3, <1>4, <1>6, <1>7 DEF RowT, RowType, Exists

\* OpenAcquire: the window drives, catching up on a tree beyond the head.
LEMMA OpenAcquireKept ==
  ASSUME IInv, NEW d \in Devices, OpenAcquire(d)
  PROVE  IInv' /\ Advances
<1> DEFINE p == proc[d]
           c == p.id
           r == Acquire(row[c], d, 0)
           w == ReleaseOf(r, 0)
           drive == Driving(c, r.fence, r.head, CatchUp(d, r.head))
<1>0. /\ Base /\ Shapes /\ Window(d) /\ Modes(d) /\ c \in Cells /\ Main \in Cells
  BY DEF IInv, Base, Window, Shapes, ProcType, Cells
<1>1. /\ p.mode = "opening" /\ UNCHANGED <<past, stored, disk, overwritten>>
      /\ \/ /\ \/ KnowsHead(d, r.head) /\ Rows(c, r) /\ Becomes(d, drive)
               \/ Rows(c, w) /\ Becomes(d, Off)
               \/ Rows(c, r) /\ Becomes(d, Off)
         \/ Becomes(d, Off) /\ row' = row
  BY DEF OpenAcquire, MayDrive
<1>2. Exists(row[c]) /\ (Exists(row[Main]) \/ d = Origin)
  BY <1>0, <1>1 DEF Modes
<1>3. OthersKept(d)
  BY <1>0, <1>1, ProcOnly
<1>4. CASE KnowsHead(d, r.head) /\ Rows(c, r) /\ Becomes(d, drive)
  <2>1. /\ DirStep(d) /\ row'[c] = r /\ Exists(r) /\ r.head = row[c].head
        /\ r.fence \in Nat \ {0} /\ r.head \in Nat /\ Known(r.head)
        /\ Hist(r.head) \subseteq Reached'
    BY <1>0, <1>1, <1>2, <1>3, <1>4, GrantStep
  <2>2. Hist(r.head) \subseteq Hist(disk[d].tip) /\ (disk[d].tip = Blank => r.head = Blank)
    BY <1>0, <1>4, KnownHead
  <2>3. Exists(row'[Main]) \/ d = Origin
    BY <1>0, <1>2, <2>1 DEF DirStep, DirSound, Exists
  <2> HIDE DEF r
  <2>4. r.fence \in Nat /\ r.fence # 0 /\ Exists(row'[c])
    BY <2>1
  <2> HIDE DEF Reached
  <2> QED BY <1>0, <1>1, <1>4, <2>1, <2>2, <2>3, <2>4, DriveKept
<1>5. CASE (Rows(c, w) \/ Rows(c, r)) /\ Becomes(d, Off)
  <2>1. DirStep(d)
    BY <1>0, <1>1, <1>2, <1>3, <1>5, GrantStep
  <2>2. Exists(row[Main])' \/ d = Origin
    BY <1>0, <1>2, <2>1 DEF DirStep, DirSound
  <2> QED BY <1>1, <1>5, <2>1, <2>2, OffKept
<1>6. CASE Becomes(d, Off) /\ row' = row
  <2>1. DirStep(d)
    BY <1>0, <1>1, <1>3, <1>6, RowSame
  <2>2. Exists(row[Main])' \/ d = Origin
    BY <1>2, <1>6 DEF Exists
  <2> QED BY <1>1, <1>6, <2>1, <2>2, OffKept
<1> QED BY <1>1, <1>4, <1>5, <1>6

\* TakeRead: a take looks at the row and at the tree it will replace.
LEMMA TakeReadKept ==
  ASSUME IInv, NEW d \in Devices, TakeRead(d)
  PROVE  IInv' /\ Advances
<1> DEFINE r == row[Main]
           next == IF Unpublished(d) THEN "keep" ELSE "claim"
           q == [Off EXCEPT !.mode = "taking", !.call = Reading(r), !.pc = next]
<1>0. /\ Base /\ Shapes /\ Window(d) /\ Modes(d) /\ NamesKnown(d)
      /\ Main \in Cells /\ r \in RowT
  BY DEF IInv, Base, Window, Shapes, RowT, Cells
<1>1. /\ Exists(r) /\ UNCHANGED <<row, past, stored, disk, overwritten>> /\ Becomes(d, q)
  BY DEF TakeRead
<1>2. DirStep(d) /\ OthersKept(d)
  BY <1>0, <1>1, ProcOnly, RowSame
<1>3. Reading(r) \in CallType /\ Reading(r).head = r.head
  BY <1>0, ReadingValue
<1>4. next \in {"keep", "claim"} /\ (next = "claim" => ~Unpublished(d))
  OBVIOUS
<1> HIDE DEF next
<1>5. /\ q \in ProcType /\ q.mode = "taking" /\ q.noted = <<>> /\ q.asked = {}
      /\ ~q.stale /\ ~q.sealing /\ q.pc = next /\ q.head = Blank /\ q.up = Blank
      /\ q.call.head = r.head
  BY <1>3, <1>4, OffValue DEF ProcType
<1> HIDE DEF q
<1>6. /\ Known(q.head) /\ Known(q.up) /\ Known(q.call.head)
      /\ Known(disk'[d].tip) /\ Known(disk'[d].mark)
  BY <1>0, <1>1, <1>5 DEF NamesKnown, Known, Base, CellsKnown, Shapes, Blank
<1>7. Boundary(d)' /\ Hist(disk[d].tip) \subseteq Hist(disk[d].tip)'
  <2>1. proc'[d] = q
    BY <1>0, <1>1, <1>5, ProcBecomes
  <2>2. Reached' = Reached /\ Boundary(d)
    BY <1>1 DEF Reached, Shared, Hist, IInv, Kept
  <2>3. ~Unpublished(d) => Hist(disk[d].tip) \subseteq Reached
    <3> HIDE DEF Reached
    <3> QED BY <2>2 DEF Unpublished, Boundary, Hist
  <2> HIDE DEF Reached
  <2> QED BY <1>1, <1>4, <1>5, <2>1, <2>2, <2>3 DEF Boundary, Hist
<1>8. disk' \in [Devices -> DiskType] /\ Exists(row'[Main]) /\ disk'[d].alias = disk[d].alias
  BY <1>0, <1>1 DEF Shapes
<1> QED BY <1>1, <1>2, <1>4, <1>5, <1>6, <1>7, <1>8, OpenerKept

\* What a process that takes has.
LEMMA TakingFacts ==
  ASSUME IInv, NEW d \in Devices, proc[d].mode = "taking"
  PROVE  LET p == proc[d] IN
         /\ Base /\ Shapes /\ p \in ProcType /\ p.noted = <<>> /\ p.asked = {}
         /\ (p.stale => p.lost) /\ ~p.sealing /\ Exists(row[Main]) /\ Main \in Cells
         /\ Known(p.head) /\ Known(p.up) /\ Known(p.call.head)
         /\ Known(disk[d].tip) /\ Known(disk[d].mark) /\ disk[d].tip \in Nat
BY DEF IInv, Base, Shapes, ProcType, DiskType, Window, Modes, NamesKnown, Cells

\* TakeKeep: a tree with unpublished turns becomes a branch, a cell of its own.
LEMMA TakeKeepKept ==
  ASSUME IInv, NEW d \in Devices, TakeKeep(d)
  PROVE  IInv' /\ Advances
<1> DEFINE p == proc[d]
           q == [p EXCEPT !.pc = "claim"]
<1>1. /\ p.mode = "taking" /\ p.pc = "keep" /\ Branch(d, disk[d].tip)
      /\ UNCHANGED <<past, disk, overwritten>>
      /\ Becomes(d, q) \/ Becomes(d, Off)
  BY DEF TakeKeep
<1>0. /\ Base /\ Shapes /\ p \in ProcType /\ p.noted = <<>> /\ p.asked = {}
      /\ (p.stale => p.lost) /\ ~p.sealing /\ Exists(row[Main]) /\ Main \in Cells
      /\ Known(p.head) /\ Known(p.up) /\ Known(p.call.head)
      /\ Known(disk[d].tip) /\ Known(disk[d].mark) /\ disk[d].tip \in Nat
  BY <1>1, TakingFacts
<1>2. OthersKept(d)
  BY <1>0, <1>1, ProcOnly
<1>3. /\ DirStep(d) /\ stored \subseteq stored' /\ stored' \subseteq Turns
      /\ Hist(disk[d].tip) \subseteq Reached'
  BY <1>0, <1>1, <1>2, BranchStep
<1>4. Exists(row'[Main])
  BY <1>0, <1>3 DEF DirStep, DirSound, Exists
<1>5. CASE Becomes(d, Off)
  BY <1>1, <1>3, <1>4, <1>5, OffKept DEF Exists
<1>6. CASE Becomes(d, q)
  <2>1. /\ q \in ProcType /\ q.mode = "taking" /\ q.noted = <<>> /\ q.asked = {}
        /\ (q.stale => q.lost) /\ ~q.sealing /\ q.pc = "claim" /\ q.head = p.head /\ q.up = p.up
        /\ q.call = p.call
    BY <1>0, <1>1 DEF ProcType
  <2> HIDE DEF q
  <2>2. proc'[d] = q
    BY <1>0, <1>6, <2>1, ProcBecomes
  <2>3. Boundary(d)' /\ Hist(disk[d].tip) \subseteq Hist(disk[d].tip)'
    <3>1. Reached \subseteq Reached' /\ Boundary(d)
      BY <1>1, <1>3, ReachedGrows DEF IInv, Kept
    <3> HIDE DEF Reached
    <3> QED BY <1>1, <1>3, <2>1, <2>2, <3>1 DEF Boundary, Hist
  <2>4. disk' \in [Devices -> DiskType]
    BY <1>0, <1>1 DEF Shapes
  <2> QED BY <1>0, <1>1, <1>2, <1>3, <1>4, <1>6, <2>1, <2>3, <2>4, OpenerKept DEF Known
<1> QED BY <1>1, <1>5, <1>6

\* TakeClaim: the lease is taken on the row that was read, and on no other.
LEMMA TakeClaimKept ==
  ASSUME IInv, NEW d \in Devices, TakeClaim(d)
  PROVE  IInv' /\ Advances
<1> DEFINE p == proc[d]
           r == Acquire(row[Main], d, 0)
           q == [p EXCEPT !.pc = "place", !.fence = r.fence, !.head = r.head]
<1>1. /\ p.mode = "taking" /\ p.pc = "claim" /\ UNCHANGED <<past, stored, disk, overwritten>>
      /\ \/ Rows(Main, r) /\ (Becomes(d, q) \/ Becomes(d, Off))
         \/ row' = row /\ Becomes(d, Off)
  BY DEF TakeClaim
<1>0. /\ Base /\ Shapes /\ p \in ProcType /\ p.noted = <<>> /\ p.asked = {}
      /\ (p.stale => p.lost) /\ ~p.sealing /\ Exists(row[Main]) /\ Main \in Cells
      /\ Known(p.head) /\ Known(p.up) /\ Known(p.call.head)
      /\ Known(disk[d].tip) /\ Known(disk[d].mark) /\ disk[d].tip \in Nat
  BY <1>1, TakingFacts
<1>2. OthersKept(d)
  BY <1>0, <1>1, ProcOnly
<1>3. CASE row' = row /\ Becomes(d, Off)
  <2>1. DirStep(d)
    BY <1>0, <1>1, <1>2, <1>3, RowSame
  <2> QED BY <1>0, <1>1, <1>3, <2>1, OffKept DEF Exists
<1>4. CASE Rows(Main, r) /\ (Becomes(d, q) \/ Becomes(d, Off))
  <2>1. /\ DirStep(d) /\ row'[Main] = r /\ Exists(r)
        /\ r.fence \in Nat \ {0} /\ r.head \in Nat /\ Known(r.head)
        /\ Hist(r.head) \subseteq Reached'
    BY <1>0, <1>1, <1>2, <1>4, GrantStep
  <2> HIDE DEF r
  <2>2. CASE Becomes(d, Off)
    BY <1>1, <2>1, <2>2, OffKept DEF Exists
  <2>3. CASE Becomes(d, q)
    <3>1. /\ q \in ProcType /\ q.mode = "taking" /\ q.noted = <<>> /\ q.asked = {}
          /\ (q.stale => q.lost) /\ ~q.sealing /\ q.pc = "place" /\ q.head = r.head
          /\ q.up = p.up /\ q.call = p.call
      BY <1>0, <1>1, <2>1 DEF ProcType
    <3> HIDE DEF q
    <3>2. proc'[d] = q
      BY <1>0, <2>3, <3>1, ProcBecomes
    <3>3. Boundary(d)' /\ Hist(disk[d].tip) \subseteq Hist(disk[d].tip)'
      <4>1. Reached \subseteq Reached' /\ Boundary(d)
        BY <1>1, <2>1, ReachedGrows DEF IInv, Kept
      <4> HIDE DEF Reached
      <4> QED BY <1>1, <2>1, <3>1, <3>2, <4>1 DEF Boundary, Hist
    <3>4. disk' \in [Devices -> DiskType] /\ Exists(row'[Main])
      BY <1>0, <1>1, <2>1 DEF Shapes
    <3>5. /\ Known(q.head) /\ Known(q.up) /\ Known(q.call.head)
          /\ Known(disk'[d].tip) /\ Known(disk'[d].mark) /\ disk'[d].alias = disk[d].alias
      BY <1>0, <1>1, <2>1, <3>1
    <3> HIDE DEF Reached
    <3> QED BY <1>1, <1>2, <2>1, <2>3, <3>1, <3>3, <3>4, <3>5, OpenerKept
  <2> QED BY <1>4, <2>2, <2>3
<1> QED BY <1>1, <1>3, <1>4

\* A tree that is replaced was kept: it is in the directory.
LEMMA TakePlaceKept ==
  ASSUME IInv, NEW d \in Devices, TakePlace(d)
  PROVE  IInv' /\ Advances
<1> DEFINE p == proc[d]
           q == [p EXCEPT !.pc = "hooks"]
<1>1. /\ p.mode = "taking" /\ p.pc = "place" /\ UNCHANGED <<row, past, stored, overwritten>> /\ Becomes(d, q)
      /\ \E m \in {disk[d].mark, p.head} :
            disk' = [disk EXCEPT ![d].tip = p.head, ![d].mark = m]
  BY DEF TakePlace
<1>0. /\ Base /\ Shapes /\ p \in ProcType /\ p.noted = <<>> /\ p.asked = {}
      /\ (p.stale => p.lost) /\ ~p.sealing /\ Exists(row[Main]) /\ Main \in Cells
      /\ Known(p.head) /\ Known(p.up) /\ Known(p.call.head)
      /\ Known(disk[d].tip) /\ Known(disk[d].mark) /\ disk[d].tip \in Nat
  BY <1>1, TakingFacts
<1>2. /\ disk' \in [Devices -> DiskType] /\ disk'[d].tip = p.head
      /\ disk'[d].mark \in {disk[d].mark, p.head} /\ disk'[d].alias = disk[d].alias
      /\ \A e \in Devices \ {d} : disk'[e] = disk[e]
  <2>1. PICK m \in {disk[d].mark, p.head} : disk' = [disk EXCEPT ![d].tip = p.head, ![d].mark = m]
    BY <1>1
  <2>2. m \in Nat /\ p.head \in Nat /\ disk \in [Devices -> DiskType]
    BY <1>0 DEF Shapes, DiskType, ProcType
  <2> DEFINE h == p.head
  <2> HIDE DEF h
  <2>3. disk' = [disk EXCEPT ![d].tip = h, ![d].mark = m] /\ h \in Nat
    BY <2>1, <2>2 DEF h
  <2>4. /\ disk' \in [Devices -> DiskType] /\ disk'[d].tip = h
        /\ disk'[d].mark = m /\ disk'[d].alias = disk[d].alias
        /\ \A e \in Devices \ {d} : disk'[e] = disk[e]
    BY <2>2, <2>3 DEF DiskType
  <2> QED BY <2>4 DEF h
<1>3. /\ q \in ProcType /\ q.mode = "taking" /\ q.noted = <<>> /\ q.asked = {}
      /\ (q.stale => q.lost) /\ ~q.sealing /\ q.pc = "hooks" /\ q.head = p.head
      /\ q.up = p.up /\ q.call = p.call
  BY <1>0, <1>1 DEF ProcType
<1> HIDE DEF q
<1>4. proc'[d] = q /\ \A e \in Devices \ {d} : proc'[e] = proc[e]
  BY <1>0, <1>1, <1>3, ProcBecomes
<1>5. OthersKept(d)
  BY <1>2, <1>4 DEF OthersKept
<1>6. DirStep(d)
  BY <1>0, <1>1, <1>5, RowSame
<1>7. Boundary(d)' /\ Hist(disk[d].tip) \subseteq Reached'
  <2>1. Reached' = Reached /\ Boundary(d)
    BY <1>1 DEF Reached, Shared, Hist, IInv, Kept
  <2> HIDE DEF Reached
  <2> QED BY <1>1, <1>2, <1>3, <1>4, <2>1 DEF Boundary, Hist
<1>8. /\ Known(q.head) /\ Known(q.up) /\ Known(q.call.head)
      /\ Known(disk'[d].tip) /\ Known(disk'[d].mark) /\ Exists(row'[Main])
  BY <1>0, <1>1, <1>2, <1>3
<1> QED BY <1>1, <1>2, <1>3, <1>5, <1>6, <1>7, <1>8, OpenerKept

\* TakeDone: the boundary is the head that was placed, which is shared.
LEMMA TakeDoneKept ==
  ASSUME IInv, NEW d \in Devices, TakeDone(d)
  PROVE  IInv' /\ Advances
<1> DEFINE p == proc[d]
<1>1. /\ p.mode = "taking" /\ p.pc = "hooks" /\ UNCHANGED <<row, past, stored, overwritten>> /\ Becomes(d, Off)
      /\ disk' = [disk EXCEPT ![d].mark = p.head]
  BY DEF TakeDone
<1>0. /\ Base /\ Shapes /\ p \in ProcType /\ Exists(row[Main]) /\ Main \in Cells
      /\ Known(p.head) /\ Known(disk[d].tip)
  BY <1>1, TakingFacts
<1>2. /\ disk' \in [Devices -> DiskType] /\ disk'[d].tip = disk[d].tip
      /\ disk'[d].mark = p.head /\ disk'[d].alias = disk[d].alias
      /\ \A e \in Devices \ {d} : disk'[e] = disk[e]
  BY <1>0, <1>1 DEF Shapes, DiskType, ProcType
<1>4. proc'[d] = Off /\ \A e \in Devices \ {d} : proc'[e] = proc[e]
  BY <1>0, <1>1, ProcBecomes, OffValue
<1>5. OthersKept(d)
  BY <1>2, <1>4 DEF OthersKept
<1>6. DirStep(d)
  BY <1>0, <1>1, <1>5, RowSame
<1>7. Boundary(d)' /\ Hist(disk[d].tip) \subseteq Hist(disk[d].tip)'
  <2>1. Reached' = Reached /\ Boundary(d)
    BY <1>1 DEF Reached, Shared, Hist, IInv, Kept
  <2> HIDE DEF Reached
  <2> QED BY <1>1, <1>2, <1>4, <2>1, OffValue DEF Boundary, Hist
<1>8. /\ Known(Off.head) /\ Known(Off.up) /\ Known(Off.call.head)
      /\ Known(disk'[d].tip) /\ Known(disk'[d].mark) /\ Exists(row'[Main])
  BY <1>0, <1>1, <1>2, OffValue DEF Known, Shapes, Blank
<1> QED BY <1>1, <1>2, <1>5, <1>6, <1>7, <1>8, OffValue, OpenerKept

\* A process that dies while its tree is at neither place loses a tree that
\* was kept.
LEMMA CrashKept ==
  ASSUME IInv, NEW d \in Devices, Crash(d)
  PROVE  IInv' /\ Advances
<1> DEFINE p == proc[d]
<1>0. Base /\ Shapes /\ Modes(d) /\ NamesKnown(d) /\ Main \in Cells
  BY DEF IInv, Base, Window, Cells
<1>1. /\ p.mode # "off" /\ UNCHANGED <<row, past, stored, overwritten>> /\ Becomes(d, Off)
      /\ \/ disk' = disk
         \/ p.pc = "place" /\ disk' = [disk EXCEPT ![d].tip = Blank, ![d].mark = Blank]
  BY DEF Crash
<1>2. Exists(row'[Main]) \/ d = Origin
  BY <1>0, <1>1 DEF Modes
<1>3. CASE disk' = disk
  <2>1. DirStep(d)
    BY <1>0, <1>1, <1>3, ProcOnly, RowSame
  <2> QED BY <1>1, <1>2, <1>3, <2>1, OffKept DEF Exists
<1>4. CASE p.pc = "place" /\ disk' = [disk EXCEPT ![d].tip = Blank, ![d].mark = Blank]
  <2>1. /\ disk' \in [Devices -> DiskType] /\ disk'[d].tip = Blank
        /\ disk'[d].mark = Blank /\ disk'[d].alias = disk[d].alias
        /\ \A e \in Devices \ {d} : disk'[e] = disk[e]
    BY <1>0, <1>4 DEF Shapes, DiskType, Blank
  <2>2. proc'[d] = Off /\ \A e \in Devices \ {d} : proc'[e] = proc[e]
    BY <1>0, <1>1, ProcBecomes, OffValue
  <2>3. OthersKept(d)
    BY <2>1, <2>2 DEF OthersKept
  <2>4. DirStep(d)
    BY <1>0, <1>1, <2>3, RowSame
  <2>5. Boundary(d)' /\ Hist(disk[d].tip) \subseteq Reached'
    <3>1. Reached' = Reached /\ Boundary(d)
      BY <1>1 DEF Reached, Shared, Hist, IInv, Kept
    <3>2. Hist(Blank) = {}
      BY DEF Hist
    <3> HIDE DEF Reached
    <3> QED BY <1>1, <1>4, <2>1, <2>2, <3>1, <3>2, OffValue DEF Boundary, Hist
  <2>6. /\ Known(Off.head) /\ Known(Off.up) /\ Known(Off.call.head)
        /\ Known(disk'[d].tip) /\ Known(disk'[d].mark)
    BY <1>0, <2>1, OffValue DEF Known, Shapes, Blank
  <2> QED BY <1>1, <1>2, <2>1, <2>3, <2>4, <2>5, <2>6, OffValue, OpenerKept
<1> QED BY <1>1, <1>3, <1>4

\* A lease that runs out moves no head.
LEMMA LapseKept ==
  ASSUME IInv, Lapse
  PROVE  IInv' /\ Advances
<1> DEFINE r == [row[Main] EXCEPT !.expires = 0]
           d == Origin
<1>0. /\ Base /\ Shapes /\ Window(d) /\ Modes(d) /\ Main \in Cells /\ d \in Devices
      /\ row[Main] \in RowT /\ 0 \in Nat
  BY HandoffAssumption DEF IInv, Base, Cells, Shapes, RowT, Window
<1>1. /\ Rows(Main, r) /\ UNCHANGED <<past, stored, disk, proc, overwritten>>
  BY DEF Lapse
<1>2. r \in RowT /\ r.head = row[Main].head /\ r.fence = row[Main].fence
  BY <1>0, RowRules
<1> HIDE DEF r
<1>3. Known(r.head) /\ Hist(r.head) \subseteq stored'
  BY <1>0, <1>1, <1>2, HeadKept
<1> HIDE DEF d
<1>4. OthersKept(d) /\ Becomes(d, proc[d])
  BY <1>0, <1>1 DEF OthersKept, Becomes, Shapes
<1>5. row \in [Cells -> RowT] /\ row' = [row EXCEPT ![Main] = r]
  BY <1>0, <1>1 DEF Rows, Shapes, RowT
<1>6. /\ row' \in [Cells -> RowT] /\ row'[Main] = r
      /\ \A c \in Cells : row'[c].head = row[c].head /\ row'[c].fence = row[c].fence
  BY <1>0, <1>2, <1>5
<1>7. DirSound
  <2>1. CellsKnown'
    BY <1>0, <1>1, <1>6 DEF Base, CellsKnown, Known, Exists
  <2>2. HeadsAreStored'
    BY <1>0, <1>1, <1>6 DEF Base, HeadsAreStored, Shared, Hist
  <2> QED BY <1>6, <2>1, <2>2 DEF DirSound, Exists
<1>9. Advances
  BY <1>1, <1>6 DEF Advances
<1>10. DirStep(d)
  BY <1>1, <1>7, <1>9 DEF DirStep
<1>11. Grown /\ Room'
  BY <1>0, <1>1, <1>7, GrownUnsealed, RoomKept DEF DirSound
<1>12. Window(d)'
  BY <1>0, <1>1, <1>11, WindowKept, HandoffAssumption DEF Base
<1>13. OwnKept(d)
  <2>1. Reached' = Reached /\ Boundary(d) /\ Over(d)
    BY <1>0, <1>1, <1>6 DEF Reached, Shared, Hist, IInv, Kept
  <2>2. Boundary(d)'
    <3> HIDE DEF Reached
    <3> QED BY <1>1, <2>1 DEF Boundary, Hist
  <2>3. Over(d)'
    BY <1>0, <1>1, <2>1 DEF Over, Hist
  <2> QED BY <1>1, <2>2, <2>3 DEF OwnKept, Hist
<1>14. /\ proc' \in [Devices -> ProcType] /\ disk' \in [Devices -> DiskType]
       /\ stored \subseteq stored' /\ stored' \subseteq Turns
  BY <1>0, <1>1 DEF Shapes, Base
<1> QED BY <1>0, <1>1, <1>4, <1>10, <1>11, <1>12, <1>13, <1>14, StepKept

-----------------------------------------------------------------------------
(* The theorems.                                                            *)

\* Nothing is sealed, stored or published at the start.
LEMMA HandoffStart == Init => IInv
<1> SUFFICES ASSUME Init PROVE IInv
  OBVIOUS
<1> USE HandoffAssumption
<1>1. /\ row = [c \in Cells |-> NoRow(Blank)] /\ past = <<>> /\ stored = {} /\ overwritten = {}
      /\ disk = [d \in Devices |-> [tip |-> Blank, mark |-> Blank, alias |-> Main]]
      /\ proc = [d \in Devices |-> IF d = Origin THEN Driving(Main, 0, Blank, <<>>) ELSE Off]
      /\ Main \in Cells
  BY DEF Init, Cells
<1>2. \A c \in Cells : row[c] \in RowT /\ row[c].head = Blank /\ ~Exists(row[c])
  BY <1>1 DEF NoRow, RowT, RowType, Exists, Blank
<1>3. \A d \in Devices : disk[d] \in DiskType /\ disk[d].tip = Blank
                         /\ disk[d].mark = Blank /\ disk[d].alias = Main
  BY <1>1 DEF DiskType, Blank
<1> DEFINE o == Driving(Main, 0, Blank, <<>>)
<1>4. /\ o \in ProcType /\ o.mode = "driving" /\ o.pc = "idle" /\ o.id = Main /\ o.fence = 0
      /\ o.head = Blank /\ o.noted = <<>> /\ ~o.stale /\ ~o.sealing
      /\ o.asked = {} /\ o.up = Blank /\ o.call = NoCall
  <2>1. PICK f, h, n : f = 0 /\ h = Blank /\ n = <<>>
    OBVIOUS
  <2>2. f \in Nat /\ h \in Nat /\ n \in Seq(Nat)
    BY <2>1 DEF Blank
  <2>3. o = Driving(Main, f, h, n)
    BY <2>1
  <2> HIDE DEF o
  <2>4. /\ o \in ProcType /\ o.mode = "driving" /\ o.pc = "idle" /\ o.id = Main /\ o.fence = f
        /\ o.head = h /\ o.noted = n /\ ~o.stale /\ ~o.sealing
        /\ o.asked = {} /\ o.up = Blank /\ o.call = NoCall
    BY <1>1, <2>2, <2>3, DrivingValue
  <2> QED BY <2>1, <2>4
<1> HIDE DEF o
<1>5. \A d \in Devices :
        /\ proc[d] \in ProcType /\ proc[d].pc = "idle" /\ proc[d].head = Blank
        /\ proc[d].noted = <<>> /\ ~proc[d].stale /\ ~proc[d].sealing /\ proc[d].asked = {}
        /\ proc[d].up = Blank /\ proc[d].call.head = Blank
        /\ \/ d = Origin /\ proc[d].id = Main /\ proc[d].mode = "driving" /\ proc[d].fence = 0
           \/ proc[d].mode = "off"
  BY <1>1, <1>4, OffValue DEF o
<1>6. Shapes
  <2>1. row \in [Cells -> RowT]
    BY <1>1, <1>2
  <2>2. disk \in [Devices -> DiskType]
    BY <1>1, <1>3
  <2>3. proc \in [Devices -> ProcType]
    <3>1. proc = [d \in Devices |-> proc[d]]
      BY <1>1
    <3> QED BY <1>5, <3>1
  <2>4. past \in Seq(SUBSET Nat)
    BY <1>1
  <2> QED BY <2>1, <2>2, <2>3, <2>4 DEF Shapes, RowT
<1>7. Len(past) = 0 /\ Turns = {} /\ \A t : Known(t) <=> t = Blank
  BY <1>1 DEF Turns, Known, Blank
<1>8. Room
  <2>1. Sealing = {}
    BY <1>5 DEF Sealing
  <2> QED BY <1>7, <2>1, FS_EmptySet DEF Room
<1>9. Hist(Blank) = {} /\ Shared = {} /\ Reached = {}
  BY <1>1, <1>2 DEF Hist, Reached, Shared
<1>10. ASSUME NEW d \in Devices PROVE Window(d)
  <2>1. NamesKnown(d)
    BY <1>3, <1>5, <1>7 DEF NamesKnown
  <2>2. Line(d) /\ OnHead(d) /\ Sending(d)
    BY <1>5, <1>9 DEF Line, OnHead, Sending
  <2>3. Modes(d)
    BY <1>3, <1>5 DEF Modes
  <2> QED BY <2>1, <2>2, <2>3 DEF Window
<1>11. Base
  BY <1>1, <1>2, <1>6, <1>7, <1>8, <1>9, <1>10 DEF Base, Histories, CellsKnown, HeadsAreStored
<1>12. Kept
  <2>1. \A d \in Devices : Over(d)
    BY <1>1, <1>2, <1>5 DEF Over, Shapes, ProcType
  <2>2. \A d \in Devices : Boundary(d)
    <3> HIDE DEF Reached
    <3> QED BY <1>3, <1>5, <1>9 DEF Boundary
  <2> QED BY <1>7, <2>1, <2>2 DEF Kept, WorkIsKept
<1> QED BY <1>11, <1>12 DEF IInv

\* Every step keeps it, and moves heads up only.
LEMMA HandoffStep ==
  ASSUME IInv, [Next]_vars
  PROVE  IInv' /\ Advances
<1>1. CASE UNCHANGED vars
  <2> USE <1>1 DEF vars
  <2>1. Base'
    <3>1. Shapes' /\ Histories' /\ Room' /\ CellsKnown' /\ (stored \subseteq Turns)'
      BY DEF IInv, Base, Shapes, Histories, Turns, Room, Sealing, CellsKnown, Known, Exists
    <3>2. HeadsAreStored'
      BY DEF IInv, Base, HeadsAreStored, Shared, Hist
    <3>3. Grown
      BY GrownUnsealed DEF IInv, Base, Exists
    <3>4. \A d \in Devices : Window(d)'
      BY <3>3, WindowKept, HandoffAssumption DEF IInv, Base
    <3> QED BY <3>1, <3>2, <3>4 DEF Base
  <2>2. Kept'
    <3>1. WorkIsKept /\ \A d \in Devices : Over(d) /\ Boundary(d)
      BY DEF IInv, Kept
    <3>2. Reached' = Reached /\ Turns' = Turns
      BY DEF Reached, Shared, Hist, Turns
    <3>3. WorkIsKept'
      <4> HIDE DEF Reached
      <4> QED BY <3>1, <3>2 DEF WorkIsKept, Hist, Turns
    <3>4. ASSUME NEW d \in Devices PROVE Over(d)' /\ Boundary(d)'
      <4>2. Over(d)'
        BY <3>1 DEF Over, Hist
      <4>3. Boundary(d)'
        <5> HIDE DEF Reached
        <5> QED BY <3>1, <3>2 DEF Boundary, Hist
      <4> QED BY <4>2, <4>3
    <3> QED BY <3>3, <3>4 DEF Kept
  <2> QED BY <2>1, <2>2 DEF IInv, Advances
<1>2. CASE Lapse
  BY <1>2, LapseKept
<1>3. ASSUME NEW d \in Devices, StartSeal(d) \/ EndSeal(d) \/ SealAlone(d)
      PROVE  IInv' /\ Advances
  BY <1>3, StartSealKept, EndSealKept, SealAloneKept
<1>4. ASSUME NEW d \in Devices, Flush(d) \/ Create(d) \/ Resume(d) \/ Move(d)
      PROVE  IInv' /\ Advances
  BY <1>4, FlushKept, CreateKept, ResumeKept, MoveKept
<1>5. ASSUME NEW d \in Devices,
             Beat(d) \/ CheckLease(d) \/ Displaced(d) \/ KeepOrphans(d) \/ Close(d) \/ Quit(d)
      PROVE  IInv' /\ Advances
  BY <1>5, BeatKept, CheckLeaseKept, DisplacedKept, KeepOrphansKept, CloseKept, QuitKept
<1>6. ASSUME NEW d \in Devices, OpenRead(d) \/ OpenAcquire(d) \/ Crash(d)
      PROVE  IInv' /\ Advances
  BY <1>6, OpenReadKept, OpenAcquireKept, CrashKept
<1>7. ASSUME NEW d \in Devices,
             \/ TakeRead(d) \/ TakeKeep(d) \/ TakeClaim(d) \/ TakePlace(d)
             \/ TakeDone(d) \/ GiveBack(d)
      PROVE  IInv' /\ Advances
  BY <1>7, TakeReadKept, TakeKeepKept, TakeClaimKept, TakePlaceKept, TakeDoneKept, GiveBackKept
<1> QED BY <1>1, <1>2, <1>3, <1>4, <1>5, <1>6, <1>7 DEF Next

\* The handoff's inductive invariant: histories are closed, what is published
\* is stored, the noted turns are a line from the published head to the tip, a
\* window that has a lease publishes over a head it was sealed on, and
\* everything below an upload boundary has reached the directory.
THEOREM Invariant == Spec => []IInv
<1>1. IInv /\ [Next]_vars => IInv'
  BY HandoffStep
<1> QED BY HandoffStart, <1>1, PTL DEF Spec

\* The state keeps its shape: within the bound on turns, noted turns below the
\* tip, a window with orphans refusing new work (Batcher, Drive).
THEOREM HandoffTypeCorrect == Spec => []HandoffTypeOK
<1>1. IInv => HandoffTypeOK
  <2> SUFFICES ASSUME IInv PROVE HandoffTypeOK
    OBVIOUS
  <2>1. Base /\ Shapes /\ Histories /\ CellsKnown /\ Room
    BY DEF IInv, Base
  <2>2. Len(past) \in Nat /\ MaxTurns \in Nat /\ Cardinality(Sealing) \in Nat
    BY <2>1, FS_CardinalityType, HandoffAssumption DEF Shapes, Room
  <2>3. \A t : Known(t) => t \in 0 .. MaxTurns /\ t \in Turns \cup {Blank}
    BY <2>1, <2>2 DEF Room, Known, Turns, Blank
  <2>4. row \in [Cells -> RowType(Devices, 0 .. MaxTurns, 0 .. 1)]
    <3>1. \A c \in Cells : row[c] \in RowType(Devices, Nat, 0 .. 1) /\ row[c].head \in 0 .. MaxTurns
      BY <2>1, <2>3 DEF Shapes, CellsKnown
    <3>2. \A c \in Cells : row[c] \in RowType(Devices, 0 .. MaxTurns, 0 .. 1)
      BY <3>1 DEF RowType
    <3>3. row = [c \in Cells |-> row[c]]
      BY <2>1 DEF Shapes
    <3> QED BY <3>2, <3>3
  <2>5. stored \subseteq Turns /\ \A t \in Turns : t \in past[t] /\ past[t] \subseteq 1 .. t
    BY <2>1 DEF Base, Histories
  <2>6. ASSUME NEW d \in Devices
        PROVE  /\ {disk[d].tip, disk[d].mark} \subseteq Turns \cup {Blank}
               /\ proc[d].stale => proc[d].lost
               /\ disk[d].alias = Main \/ Exists(row[disk[d].alias])
               /\ \A i \in 1 .. Len(proc[d].noted) : proc[d].noted[i] \in Hist(disk[d].tip)
    <3>1. NamesKnown(d) /\ Modes(d) /\ Line(d)
      BY <2>1 DEF Base, Window
    <3>2. \A i \in 1 .. Len(proc[d].noted) : proc[d].noted[i] \in Hist(disk[d].tip)
      <4> DEFINE n == proc[d].noted
      <4> SUFFICES ASSUME NEW i \in 1 .. Len(n) PROVE n[i] \in Hist(disk[d].tip)
        OBVIOUS
      <4>1. Len(n) \in Nat /\ n # <<>>
        BY <2>1 DEF Shapes, ProcType
      <4>2. n[i] # Blank /\ Known(n[i]) /\ Newest(n) = disk[d].tip
        BY <3>1, <4>1 DEF Line, NamesKnown
      <4>3. i <= Len(n) /\ Len(n) \in 1 .. Len(n)
        BY <4>1
      <4>4. Hist(n[i]) \subseteq Hist(n[Len(n)])
        BY <3>1, <4>3 DEF Line
      <4>5. n[i] \in Turns
        BY <2>3, <4>2
      <4>6. n[i] \in Hist(n[i])
        BY <2>5, <4>2, <4>5 DEF Hist
      <4> QED BY <4>2, <4>4, <4>6 DEF Newest
    <3> QED BY <2>3, <3>1, <3>2 DEF NamesKnown, Modes
  <2> QED BY <2>4, <2>5, <2>6 DEF HandoffTypeOK
<1> QED BY <1>1, Invariant, PTL

\* A head never moves before every object it names is in the store, whatever
\* is lost or retried (Publisher.Publish, Brancher.Branch).
THEOREM WhatIsNamedIsStored == Spec => []HeadsAreStored
<1>1. IInv => HeadsAreStored
  BY DEF IInv, Base
<1> QED BY <1>1, Invariant, PTL

\* What "a takeover never destroys work" (handoff.go) comes to: every turn
\* sealed is below a head or in a tree, or was published and then overwritten by
\* the retry of a first publish.  No other road loses one, whatever is lost.
THEOREM TakeoversKeepWork == Spec => []WorkIsKept
<1>1. IInv => WorkIsKept
  BY DEF IInv, Kept
<1> QED BY <1>1, Invariant, PTL

\* A window that has nothing noted has nothing unpublished (durable, adopt).
THEOREM NothingIsForgotten == Spec => []NothingForgotten
<1>1. IInv => NothingForgotten
  BY DEF IInv, Kept, Boundary, NothingForgotten
<1> QED BY <1>1, Invariant, PTL

\* No window sends an older tree over a newer one (Drive.catchUp), but for the
\* retry of a first publish (Publisher.resume).
THEOREM OnlyLateRetriesOverwrite == Spec => HeadsMoveUp
<1> DEFINE Up == \A c \in Cells :
                   \/ Hist(row[c].head) \subseteq Hist(row'[c].head)
                   \/ \E d \in Devices :
                        LateRetry(d) /\ proc[d].id = c /\ row'[c].head = proc[d].up
<1>1. Advances => Up
  BY DEF Advances, LateOver
<1> HIDE DEF Up
<1>2. IInv /\ [Next]_vars => [Up]_row
  BY <1>1, HandoffStep
<1>3. Spec => [][Up]_row
  BY <1>2, Invariant, PTL DEF Spec
<1> QED BY <1>3 DEF HeadsMoveUp, Up

\* A lease is given back only when the window's every turn has reached the
\* directory (Batcher.Close, release).
THEOREM QuitsAreClean == Spec => CleanQuit
<1> DEFINE Clean == \A d \in Devices : Quit(d) => Hist(disk[d].tip) \subseteq Reached
<1>1. IInv => Clean
  BY DEF IInv, Kept, Boundary, Quit, Drained
<1> HIDE DEF Clean
<1>2. IInv /\ [Next]_vars => [Clean]_row
  BY <1>1
<1>3. Spec => [][Clean]_row
  BY <1>2, Invariant, PTL DEF Spec
<1> QED BY <1>3 DEF CleanQuit, Clean
=============================================================================
