--------------------------- MODULE DirectoryProofs ---------------------------
(* Theorems about the replicated directory, for every set of devices and    *)
(* sessions, every assignment of operations to them and every bound.        *)
EXTENDS Directory, FiniteSetTheorems, SequenceTheorems, TLAPS

Answered == [code : Codes, fence : 0 .. MaxFence, head : Heads]
Session == [seq : 0 .. MaxRequests, n : 0 .. MaxRequests, closed : BOOLEAN, answer : Answered]
Given == [by : Devices, req : Ids]
Version == [by : Devices, fence : 1 .. MaxFence, old : Heads, head : Ids]
Signed(s) == {c \in net : c.s = s}
GrantOps == {"create", "acquire", "take"}
WriteOps == {"create", "publish"}

\* What the histories, and the functions DirectoryTypeOK reads, are made of.
Shapes ==
    /\ sess \in [Sessions -> Session]
    /\ answers \subseteq [req : Ids, answer : Answered]
    /\ granted \in Seq(Given) /\ chain \in Seq(Version)

\* No time is ahead of the clock, and no lease runs past its TTL from the
\* directory's time.
TimesAgree ==
    /\ now <= clock /\ cell.expires <= now + TTL
    /\ \A c \in net : c.at <= clock
    /\ \A p \in pings : p.seen <= clock

\* A session's requests are numbered one after the other, and a directory
\* sequence number is never ahead of them.
Numbered ==
    /\ IsFiniteSet(net)
    /\ \A c \in net : c.seq <= c.n /\ c.n <= Cardinality(Signed(c.s))
    /\ \A b, c \in net : Id(b) = Id(c) => b = c
    /\ \A s \in Sessions : sess[s].seq <= Cardinality(Signed(s))

\* A row that exists has a device; who signs names a device where one is meant.
NamesDevices ==
    /\ Exists(cell) => cell.device \in Devices
    /\ \A c \in net : c.op \in DeviceOps => c.device \in Devices
    /\ \A d \in Devices : devices[d].revoked => devices[d].known

\* The row is the last grant and the last version.
RowIsLast ==
    /\ Len(granted) = cell.fence
    /\ Exists(cell) => granted[Len(granted)].by = cell.device
    /\ Exists(cell) <=> chain # <<>>
    /\ cell.head = IF chain = <<>> THEN Blank ELSE chain[Len(chain)].head
    /\ \A c \in net : c.op = "create" => c.old = Blank

\* Every answer is of a request a session has evaluated, the last one is what
\* the session keeps, and what took effect was answered "OK".
Remembered ==
    /\ \A a \in answers : /\ InSession(a.req)
                          /\ \E c \in net : Id(c) = a.req /\ c.seq <= sess[c.s].seq
    /\ \A s \in Sessions : known(s) =>
         \E a \in answers : a.req = <<s, sess[s].n>> /\ a.answer = sess[s].answer
    /\ \A req \in Ids : TookEffect(req) /\ InSession(req) =>
         \E a \in answers : a.req = req /\ a.answer.code = "OK"

IInv == DirectoryTypeOK /\ Shapes /\ TimesAgree /\ Numbered /\ NamesDevices /\ RowIsLast /\ Remembered

-----------------------------------------------------------------------------
(* What the lease rules make of a row.                                      *)

Rows == {r \in RowType(Devices, Heads, 0 .. MaxClock + TTL) : r.fence <= MaxFence}

\* Every cell operation accepted leaves the row with the device that asked,
\* holding a lease of at most one TTL; a grant takes the next fence and a
\* version the request's own name, and nothing else moves either.
LEMMA AcceptedRow ==
  ASSUME NEW c \in Request, c.op \in CellOps, NEW d \in Devices, NEW t \in Time,
         cell \in Rows, CellAccepts(c, d, t)
  PROVE  LET r == CellAfter(c, d, t) IN
         /\ r \in Rows /\ r.device = d /\ Exists(r)
         /\ r.expires <= t + TTL
         /\ r.fence = IF c.op \in GrantOps THEN cell.fence + 1 ELSE cell.fence
         /\ r.head = IF c.op \in WriteOps THEN Id(c) ELSE cell.head
         /\ c.op = "create" <=> ~Exists(cell)
         /\ c.op = "publish" => c.fence = cell.fence /\ c.old = cell.head
         /\ c.op \notin GrantOps => cell.device = d
<1> USE TTLAssumption, DirectoryAssumption
<1>0. Id(c) \in Heads
  BY DEF Id, Heads, Ids, Request
<1>9. {0, t, t + TTL} \subseteq 0 .. MaxClock + TTL
  BY DEF Time
<1>1. CASE c.op = "create"
  BY <1>0, <1>1 DEF CellAccepts, CellAfter, Created, Rows, RowType, Exists, Time, GrantOps, WriteOps
<1>2. CASE c.op \in {"acquire", "take"}
  <2>1. CellAfter(c, d, t) = Acquire(cell, d, t)
    BY <1>2 DEF CellAfter
  <2>2. Exists(cell) /\ cell.fence < MaxFence
    BY <1>2 DEF CellAccepts
  <2>3. Acquire(cell, d, t) \in Rows
    <3>1. cell.fence + 1 \in Nat /\ cell.fence + 1 <= MaxFence
      BY <2>2 DEF Rows, RowType
    <3> QED BY <1>9, <3>1 DEF Acquire, Rows, RowType
  <2> QED BY <1>2, <2>1, <2>2, <2>3 DEF Acquire, Rows, RowType, Exists, Time, GrantOps, WriteOps
<1>3. CASE c.op = "beat"
  BY <1>3 DEF CellAccepts, CellAfter, Heartbeat, holder, Rows, RowType, Exists, Time, GrantOps, WriteOps
<1>4. CASE c.op = "publish"
  <2>1. CellAfter(c, d, t) = PublishTo(cell, Id(c), t)
    BY <1>4 DEF CellAfter
  <2>2. Exists(cell) /\ holder(cell, d, c.fence) /\ c.old = cell.head
    BY <1>4 DEF CellAccepts, PublishAllowed
  <2>3. PublishTo(cell, Id(c), t) \in Rows
    BY <1>0, <1>9 DEF PublishTo, Rows, RowType
  <2> QED BY <1>4, <2>1, <2>2, <2>3 DEF PublishTo, holder, Rows, RowType, Exists, Time, GrantOps, WriteOps
<1>5. CASE c.op \in {"release", "quiet"}
  <2>1. PICK at \in {0, t} : CellAfter(c, d, t) = ReleaseOf(cell, at)
    BY <1>5 DEF CellAfter
  <2>2. Exists(cell) /\ holder(cell, d, c.fence)
    BY <1>5 DEF CellAccepts
  <2>3. ReleaseOf(cell, at) \in Rows
    BY <1>9 DEF ReleaseOf, Rows, RowType
  <2> QED BY <1>5, <2>1, <2>2, <2>3 DEF ReleaseOf, holder, Rows, RowType, Exists, Time, GrantOps, WriteOps
<1> QED BY <1>1, <1>2, <1>3, <1>4, <1>5 DEF CellOps

\* Evidence of a watch socket moves the expiry and nothing else.
LEMMA RenewedRow ==
  ASSUME NEW seen \in Time, NEW t \in Time, seen <= t, cell \in Rows, cell.expires <= t + TTL
  PROVE  LET r == Renewed(cell, seen, t) IN
         /\ r \in Rows /\ r.expires <= t + TTL
         /\ r.device = cell.device /\ r.fence = cell.fence /\ r.head = cell.head
BY TTLAssumption, DirectoryAssumption DEF Renewed, Rows, RowType, Time

\* The later of two times.
LEMMA LaterTime ==
  ASSUME NEW a \in Time, NEW b \in Time
  PROVE  /\ Later(a, b) \in Time /\ a <= Later(a, b) /\ b <= Later(a, b)
         /\ \A x \in Time : a <= x /\ b <= x => Later(a, b) <= x
BY DirectoryAssumption DEF Later, Time

-----------------------------------------------------------------------------
(* What evaluating one request does to the rows and to the session.         *)

\* Only a device that is not revoked changes the row, and it then holds it.
LEMMA EvaluateRow ==
  ASSUME IInv, NEW c \in net, Evaluate(c)
  PROVE  /\ c \in Request /\ Owner[c.s] \in Devices /\ ~devices[Owner[c.s]].revoked
         /\ now' = Later(now, c.at) /\ now' \in Time /\ now <= now' /\ now' <= clock
         /\ cell' \in Rows /\ cell'.expires <= now' + TTL
         /\ cell' = cell \/ cell'.device = Owner[c.s]
         /\ Exists(cell) => Exists(cell')
         /\ Exists(cell') => cell'.device \in Devices
<1> DEFINE d == Owner[c.s]
           t == Later(now, c.at)
<1>1. c \in Request /\ c.s \in Sessions /\ d \in Devices /\ ~devices[d].revoked
  BY DirectoryAssumption DEF IInv, DirectoryTypeOK, Request, Evaluate, Admitted, Revoked
<1>2. now' = t /\ t \in Time /\ now <= t /\ t <= clock
  <2>1. now \in Time /\ c.at \in Time /\ clock \in Time /\ now <= clock /\ c.at <= clock
    BY <1>1 DEF IInv, DirectoryTypeOK, TimesAgree, Request
  <2> QED BY <2>1, LaterTime DEF Evaluate
<1>3. cell \in Rows /\ cell.expires <= now + TTL /\ (Exists(cell) => cell.device \in Devices)
  BY DEF IInv, DirectoryTypeOK, TimesAgree, NamesDevices, Rows
<1>4. cell.expires <= t + TTL
  BY <1>2, <1>3, TTLAssumption, DirectoryAssumption DEF Rows, RowType, Time, IInv, DirectoryTypeOK
<1>5. CASE c.op \in CellOps /\ Accepts(c, d, t)
  <2>1. CellAccepts(c, d, t)
    BY <1>5 DEF Accepts, CellOps, DeviceOps, RotateOps
  <2>2. cell' = CellAfter(c, d, t)
    BY <1>5 DEF Evaluate, Effect
  <2>3. /\ cell' \in Rows /\ cell'.device = d /\ Exists(cell') /\ cell'.expires <= t + TTL
    BY <1>1, <1>2, <1>3, <1>5, <2>1, <2>2, AcceptedRow
  <2> QED BY <1>1, <1>2, <2>3
<1>6. CASE ~(c.op \in CellOps /\ Accepts(c, d, t))
  <2>1. cell' = cell
    BY <1>6 DEF Evaluate, Effect, rows
  <2> QED BY <1>1, <1>2, <1>3, <1>4, <2>1
<1> QED BY <1>5, <1>6

\* The registry only gains revocations, each dated with the directory's time.
LEMMA EvaluateDevices ==
  ASSUME IInv, NEW c \in net, Evaluate(c)
  PROVE  /\ devices' \in [Devices -> [known : BOOLEAN, revoked : BOOLEAN, since : Time]]
         /\ \A d \in Devices : /\ devices[d].revoked => devices'[d] = devices[d]
                               /\ devices'[d].revoked => devices'[d].known
                               /\ devices'[d].revoked /\ ~devices[d].revoked =>
                                    devices'[d].since = now'
         /\ devices' # devices => cell' = cell
<1> DEFINE t == Later(now, c.at)
<1>1. /\ devices \in [Devices -> [known : BOOLEAN, revoked : BOOLEAN, since : Time]]
      /\ \A d \in Devices : devices[d].revoked => devices[d].known
      /\ c.op \in DeviceOps => c.device \in Devices
  BY DEF IInv, DirectoryTypeOK, NamesDevices
<1>2. now' = t /\ t \in Time
  BY EvaluateRow
<1>3. CASE c.op \in DeviceOps /\ Accepts(c, Owner[c.s], t)
  <2>1. devices' = Stamped(c, t) /\ cell' = cell
    BY <1>3 DEF Evaluate, Effect, DeviceOps, CellOps
  <2> HIDE DEF t
  <2>2. Stamped(c, t) \in [Devices -> [known : BOOLEAN, revoked : BOOLEAN, since : Time]]
    BY <1>1, <1>2, <1>3 DEF Stamped
  <2>3. ASSUME NEW d \in Devices
        PROVE  /\ devices[d].revoked => Stamped(c, t)[d] = devices[d]
               /\ Stamped(c, t)[d].revoked => Stamped(c, t)[d].known
               /\ Stamped(c, t)[d].revoked /\ ~devices[d].revoked => Stamped(c, t)[d].since = t
    BY <1>1, <1>2, <1>3 DEF Stamped
  <2> QED BY <1>2, <2>1, <2>2, <2>3
<1>4. CASE ~(c.op \in DeviceOps /\ Accepts(c, Owner[c.s], t))
  <2>1. devices' = devices
    BY <1>4 DEF Evaluate, Effect, rows
  <2> QED BY <1>1, <2>1
<1> QED BY <1>3, <1>4

\* The three steps that leave a trace in the history, and the quiet one.
Creates(c) ==
    /\ ~Exists(cell) /\ cell'.fence = 1 /\ cell'.device = Owner[c.s] /\ cell'.head = Id(c)
    /\ granted' = Append(granted, [by |-> Owner[c.s], req |-> Id(c)])
    /\ chain' = Append(chain, [by |-> Owner[c.s], fence |-> 1, old |-> Blank, head |-> Id(c)])
Grants(c) ==
    /\ Exists(cell) /\ cell'.fence = cell.fence + 1 /\ cell'.device = Owner[c.s]
    /\ cell'.head = cell.head
    /\ granted' = Append(granted, [by |-> Owner[c.s], req |-> Id(c)])
    /\ chain' = chain
Writes(c) ==
    /\ Exists(cell) /\ cell'.fence = cell.fence /\ cell'.device = cell.device
    /\ cell.device = Owner[c.s] /\ cell'.head = Id(c)
    /\ granted' = granted
    /\ chain' = Append(chain, [by |-> Owner[c.s], fence |-> cell.fence, old |-> cell.head,
                               head |-> Id(c)])
Quiet ==
    /\ cell'.fence = cell.fence /\ cell'.device = cell.device /\ cell'.head = cell.head
    /\ granted' = granted /\ chain' = chain

\* Evaluating a request creates the cell, grants it, writes a version under
\* the current fence and on top of the current head, or leaves both alone.
LEMMA EvaluateHistory ==
  ASSUME IInv, NEW c \in net, Evaluate(c)
  PROVE  \/ c.op = "create" /\ Creates(c)
         \/ c.op \in {"acquire", "take"} /\ Grants(c)
         \/ c.op = "publish" /\ Writes(c)
         \/ Quiet
<1> DEFINE d == Owner[c.s]
           t == Later(now, c.at)
<1>1. c \in Request /\ d \in Devices /\ t \in Time /\ cell \in Rows
  BY EvaluateRow DEF IInv, DirectoryTypeOK, Rows
<1>2. CASE c.op \in CellOps /\ Accepts(c, d, t)
  <2> DEFINE r == CellAfter(c, d, t)
  <2>1. CellAccepts(c, d, t)
    BY <1>2 DEF Accepts, CellOps, DeviceOps, RotateOps
  <2>2. cell' = r /\ Effect(c, d, t)
    BY <1>2 DEF Evaluate, Effect
  <2>3. /\ r.device = d
        /\ r.fence = IF c.op \in GrantOps THEN cell.fence + 1 ELSE cell.fence
        /\ r.head = IF c.op \in WriteOps THEN Id(c) ELSE cell.head
        /\ c.op = "create" <=> ~Exists(cell)
        /\ c.op = "publish" => c.fence = cell.fence /\ c.old = cell.head
        /\ c.op \notin GrantOps => cell.device = d
    BY <1>1, <1>2, <2>1, AcceptedRow
  <2> HIDE DEF r, d
  <2>4. CASE c.op = "create"
    <3>1. c.old = Blank /\ cell.fence = 0 
      BY <2>3, <2>4 DEF IInv, RowIsLast, Exists
    <3> QED BY <2>2, <2>3, <2>4, <3>1 DEF Creates, Effect, GrantOps, WriteOps, d, CellOps
  <2>5. CASE c.op \in {"acquire", "take"}
    BY <2>2, <2>3, <2>5 DEF Grants, Effect, GrantOps, WriteOps, d, CellOps
  <2>6. CASE c.op = "publish"
    BY <2>2, <2>3, <2>6 DEF Writes, Effect, GrantOps, WriteOps, d, CellOps
  <2>7. CASE c.op \in {"beat", "release", "quiet"}
    BY <2>2, <2>3, <2>7 DEF Quiet, Effect, GrantOps, WriteOps, d, CellOps
  <2> QED BY <1>2, <2>4, <2>5, <2>6, <2>7 DEF CellOps
<1>3. CASE ~(c.op \in CellOps /\ Accepts(c, d, t))
  BY <1>3 DEF Evaluate, Effect, rows, Quiet, CellOps
<1> QED BY <1>2, <1>3

\* What is saved and told of a request in a session; the first protocol
\* saves and tells nothing.  Only what was told "OK" touches the history.
LEMMA EvaluateAnswer ==
  ASSUME IInv, NEW c \in net, Evaluate(c)
  PROVE  \/ c.s \in Old /\ sess' = sess /\ answers' = answers
         \/ /\ c.s \notin Old /\ c.seq = sess[c.s].seq + 1
            /\ \E code \in {"OK", "refused"} :
                 /\ code = "refused" => Quiet
                 /\ code = "OK" /\ c.op \in GrantOps =>
                      granted' = Append(granted, [by |-> Owner[c.s], req |-> Id(c)])
                 /\ code = "OK" /\ c.op = "publish" => Writes(c)
                 /\ sess' = [sess EXCEPT ![c.s] = [seq |-> c.seq, n |-> c.n,
                                 closed |-> c.op = "close", answer |-> Answer(code)]]
                 /\ answers' = answers \cup {[req |-> Id(c), answer |-> Answer(code)]}
<1> DEFINE d == Owner[c.s]
           t == Later(now, c.at)
<1>0. c.s \in Sessions
  BY EvaluateRow DEF Request
<1>1. CASE c.s \in Old
  BY <1>0, <1>1 DEF Evaluate, Save, Told, InSession, Id
<1>2. CASE c.s \notin Old
  <2>1. c.seq = sess[c.s].seq + 1
    BY <1>2 DEF Evaluate, Admitted, InOrder
  <2>2. CASE Accepts(c, d, t)
    <3>1. Effect(c, d, t) /\ Save(c, "OK") /\ Told(c, "OK")
      BY <2>2 DEF Evaluate
    <3>2. c.op \in GrantOps => granted' = Append(granted, [by |-> Owner[c.s], req |-> Id(c)])
      BY <3>1 DEF Effect, GrantOps
    <3>3. c.op = "publish" => Writes(c)
      <4>1. SUFFICES ASSUME c.op = "publish" PROVE Writes(c)
        OBVIOUS
      <4>2. CellAccepts(c, d, t)
        BY <2>2, <4>1 DEF Accepts, DeviceOps, RotateOps
      <4>3. Exists(cell) /\ holder(cell, d, c.fence)
        BY <4>1, <4>2 DEF CellAccepts, PublishAllowed
      <4>4. chain' # chain
        <5>1. chain' = Append(chain, [by |-> d, fence |-> c.fence, old |-> c.old, head |-> Id(c)])
          BY <3>1, <4>1 DEF Effect
        <5>2. chain \in Seq(Version)
          BY DEF IInv, Shapes
        <5> QED BY <5>1, <5>2
      <4> QED BY <4>1, <4>4, EvaluateHistory DEF Quiet
    <3> QED BY <1>2, <2>1, <3>1, <3>2, <3>3 DEF Save, Told, InSession, Id
  <2>3. CASE ~Accepts(c, d, t)
    <3>1. Save(c, "refused") /\ Told(c, "refused") /\ Quiet
      BY <2>3 DEF Evaluate, Quiet, rows
    <3> QED BY <1>2, <2>1, <3>1 DEF Save, Told, InSession, Id
  <2> QED BY <2>2, <2>3
<1> QED BY <1>1, <1>2

-----------------------------------------------------------------------------
(* The invariant, one lemma per action.                                     *)

\* A request's name, and the history entries it leaves, have their types.
LEMMA EntryTypes ==
  ASSUME DirectoryTypeOK, NEW c \in net, NEW d \in Devices
  PROVE  /\ c \in Request /\ c.s \in Sessions /\ Id(c) \in Ids /\ Id(c) \in Heads
         /\ [by |-> d, req |-> Id(c)] \in Given
         /\ \A f \in 1 .. MaxFence, h \in Heads :
              [by |-> d, fence |-> f, old |-> h, head |-> Id(c)] \in Version
BY DEF DirectoryTypeOK, Request, Id, Ids, Heads, Given, Version

\* The empty directory satisfies the invariant.
LEMMA InitInv == Init => IInv
<1> SUFFICES ASSUME Init PROVE IInv
  OBVIOUS
<1> USE DirectoryAssumption, TTLAssumption DEF Init, NoRow
<1>1. Blank \in Heads
  BY DEF Heads
<1>2. NoSession \in Session
  BY <1>1 DEF NoSession, Session, Answered, Codes
<1>3. sess \in [Sessions -> Session] /\ \A s \in Sessions : sess[s] = NoSession
  BY <1>2
<1>4. DirectoryTypeOK
  <2>1. clock \in Time /\ now \in Time
    BY DEF Time
  <2>2. cell \in RowType(Devices, Heads, 0 .. MaxClock + TTL) /\ cell.fence <= MaxFence
    BY <1>1 DEF RowType
  <2>3. devices \in [Devices -> [known : BOOLEAN, revoked : BOOLEAN, since : Time]]
    BY DEF Time
  <2> QED BY <1>3, <2>1, <2>2, <2>3 DEF DirectoryTypeOK, Session, Answered
<1>5. Shapes
  BY <1>3 DEF Shapes
<1>6. TimesAgree
  BY DEF TimesAgree
<1>7. Numbered
  <2>1. IsFiniteSet(net) /\ \A s : Signed(s) = {} 
    BY FS_EmptySet DEF Signed
  <2>2. \A s \in Sessions : sess[s].seq = 0 /\ Cardinality(Signed(s)) = 0
    BY <1>3, <2>1, FS_EmptySet DEF NoSession
  <2>3. net = {}
    OBVIOUS
  <2> QED BY <2>1, <2>2, <2>3 DEF Numbered
<1>8. NamesDevices /\ RowIsLast
  BY DEF NamesDevices, RowIsLast, Exists
<1>9. Remembered
  BY <1>3 DEF Remembered, known, NoSession, TookEffect
<1> QED BY <1>4, <1>5, <1>6, <1>7, <1>8, <1>9 DEF IInv

\* A tick of the clock, a witness of it, and evidence newly signed.
LEMMA ClockInv == IInv /\ (Tick \/ AdvanceTime \/ SignOfLife) => IInv'
<1> SUFFICES ASSUME IInv, Tick \/ AdvanceTime \/ SignOfLife PROVE IInv'
  OBVIOUS
<1> USE DirectoryAssumption, TTLAssumption DEF Tick, AdvanceTime, SignOfLife, rows
<1>1. UNCHANGED <<cell, devices, rotation, sess, net, answers, granted, chain>>
  OBVIOUS
<1>2. /\ clock' \in Time /\ now' \in Time /\ clock <= clock' /\ now <= now' /\ now' <= clock'
      /\ clock \in Nat /\ now \in Nat /\ clock' \in Nat /\ now' \in Nat
  BY DEF IInv, DirectoryTypeOK, TimesAgree, Time
<1>3. pings' \subseteq [device : Devices, fence : 1 .. MaxFence, seen : Time]
      /\ \A p \in pings' : p.seen <= clock'
  <2>1. CASE SignOfLife
    <3>1. cell.device \in Devices /\ cell.fence \in 1 .. MaxFence /\ clock \in Time
      BY <2>1 DEF IInv, DirectoryTypeOK, NamesDevices, RowType, Exists
    <3> QED BY <1>2, <2>1, <3>1 DEF IInv, DirectoryTypeOK, TimesAgree
  <2>2. CASE Tick \/ AdvanceTime
    <3>1. pings' = pings /\ \A p \in pings : p.seen \in Nat
      BY <2>2 DEF IInv, DirectoryTypeOK, Time
    <3> QED BY <1>2, <3>1 DEF IInv, DirectoryTypeOK, TimesAgree
  <2> QED BY <2>1, <2>2
<1>4. DirectoryTypeOK'
  BY <1>1, <1>2, <1>3 DEF IInv, DirectoryTypeOK
<1>5. TimesAgree'
  <2>1. cell.expires \in Nat /\ \A c \in net : c.at \in Nat
    BY DEF IInv, DirectoryTypeOK, RowType, Request, Time
  <2> QED BY <1>1, <1>2, <1>3, <2>1 DEF IInv, TimesAgree
<1>6. (Shapes /\ Numbered /\ NamesDevices /\ RowIsLast)'
  BY <1>1 DEF IInv, Shapes, Numbered, Signed, NamesDevices, RowIsLast
<1>7. Remembered'
  BY <1>1 DEF IInv, Remembered, known, TookEffect
<1> QED BY <1>4, <1>5, <1>6, <1>7 DEF IInv

\* Signing takes the next number, from the row and the session as they stand.
LEMMA SignInv ==
  ASSUME IInv, NEW s \in Sessions, NEW op \in Ops[s], NEW target \in Devices,
         NEW stored \in BOOLEAN, Sign(s, op, target, stored)
  PROVE  IInv'
<1> USE DirectoryAssumption, TTLAssumption
<1> DEFINE n == Cardinality(Signed(s)) + 1
           new == [s |-> s, n |-> n, seq |-> sess[s].seq + 1, at |-> clock, op |-> op,
                   device |-> IF op \in DeviceOps THEN target ELSE cell.device,
                   fence |-> cell.fence, old |-> cell.head,
                   stored |-> stored \/ s \in Old \/ op \notin {"create", "publish"}]
<1>1. /\ net' = net \cup {new} /\ n <= MaxRequests
      /\ UNCHANGED <<clock, now, cell, devices, rotation, sess, pings, answers, granted, chain>>
  BY DEF Sign, rows, Signed
<1>2. IsFiniteSet(Signed(s)) /\ Cardinality(Signed(s)) \in Nat
  <2>1. IsFiniteSet(net) /\ Signed(s) \subseteq net
    BY DEF IInv, Numbered, Signed
  <2> QED BY <2>1, FS_Subset, FS_CardinalityType
<1>3. n \in 1 .. MaxRequests /\ sess[s].seq \in Nat /\ sess[s].seq + 1 <= n
  BY <1>1, <1>2, SMTT(30) DEF IInv, Shapes, Session, Numbered
<1>4. /\ new \in Request /\ new.s = s /\ new.n = n /\ new.seq = sess[s].seq + 1
      /\ new.at = clock /\ new.op = op /\ new.old = cell.head
      /\ op \in DeviceOps => new.device \in Devices
  <2>1. op \in AllOps /\ cell.device \in Devices \cup {NoDevice} /\ cell.fence \in 0 .. MaxFence
        /\ cell.head \in Heads /\ clock \in Time /\ sess[s].seq + 1 \in 1 .. MaxRequests
    BY <1>1, <1>3 DEF IInv, DirectoryTypeOK, RowType
  <2>2. (IF op \in DeviceOps THEN target ELSE cell.device) \in Devices \cup {NoDevice}
    BY <2>1
  <2> QED BY <1>3, <2>1, <2>2 DEF Request
<1> HIDE DEF n, new
<1>5. new \notin Signed(s) /\ \A c \in net : Id(c) # Id(new)
  <2>1. ASSUME NEW c \in net, c.s = s PROVE c.n # n
    <3>1. c.n \in Nat /\ c.n <= Cardinality(Signed(s))
      BY <2>1 DEF IInv, DirectoryTypeOK, Request, Numbered
    <3> QED BY <1>2, <3>1 DEF n
  <2> QED BY <1>4, <2>1 DEF Signed, Id
<1>6. /\ Signed(s)' = Signed(s) \cup {new}
      /\ \A x \in Sessions : x # s => Signed(x)' = Signed(x)
  BY <1>1, <1>4 DEF Signed
<1>7. Cardinality(Signed(s)') = n
  BY <1>2, <1>5, <1>6, FS_AddElement DEF n
<1>8. DirectoryTypeOK' /\ Shapes'
  BY <1>1, <1>4 DEF IInv, DirectoryTypeOK, Shapes
<1>9. TimesAgree'
  BY <1>1, <1>4 DEF IInv, DirectoryTypeOK, Time, TimesAgree
<1>10. Numbered'
  <2>1. IsFiniteSet(net')
    BY <1>1, FS_AddElement DEF IInv, Numbered
  <2>2. ASSUME NEW x \in Sessions
        PROVE  /\ Cardinality(Signed(x)) <= Cardinality(Signed(x)')
               /\ Cardinality(Signed(x)) \in Nat /\ Cardinality(Signed(x)') \in Nat
    <3>1. CASE x = s
      BY <1>2, <1>3, <1>7, <3>1 DEF n
    <3>2. CASE x # s
      <4>1. IsFiniteSet(net) /\ Signed(x) \subseteq net
        BY DEF IInv, Numbered, Signed
      <4> QED BY <1>6, <3>2, <4>1, FS_Subset, FS_CardinalityType
    <3> QED BY <3>1, <3>2
  <2>3. ASSUME NEW c \in net' PROVE c.seq <= c.n /\ c.n <= Cardinality(Signed(c.s)')
    <3>1. CASE c = new
      BY <1>2, <1>3, <1>4, <1>7, <3>1 DEF n
    <3>2. CASE c \in net
      <4>1. c.s \in Sessions /\ c.n \in Nat /\ c.seq <= c.n /\ c.n <= Cardinality(Signed(c.s))
        BY <3>2 DEF IInv, DirectoryTypeOK, Request, Numbered
      <4> QED BY <2>2, <4>1
    <3> QED BY <1>1, <3>1, <3>2
  <2>4. ASSUME NEW b \in net', NEW c \in net', Id(b) = Id(c) PROVE b = c
    BY <1>1, <1>5, <2>4 DEF IInv, Numbered
  <2>5. ASSUME NEW x \in Sessions PROVE sess'[x].seq <= Cardinality(Signed(x)')
    <3>1. sess' = sess /\ sess[x].seq \in Nat /\ sess[x].seq <= Cardinality(Signed(x))
      BY <1>1 DEF IInv, Shapes, Session, Numbered
    <3> QED BY <2>2, <3>1
  <2>6. \A c \in net' : c.seq <= c.n /\ c.n <= Cardinality(Signed(c.s)')
    BY <2>3
  <2> QED BY <2>1, <2>4, <2>5, <2>6 DEF Numbered, Signed
<1>11. NamesDevices'
  BY <1>1, <1>4 DEF IInv, NamesDevices
<1>12. RowIsLast'
  <2>1. op = "create" => cell.head = Blank
    BY DEF Sign, IInv, RowIsLast
  <2> QED BY <1>1, <1>4, <2>1 DEF IInv, RowIsLast
<1>13. Remembered'
  BY <1>1 DEF IInv, Remembered, known, TookEffect
<1> QED BY <1>8, <1>9, <1>10, <1>11, <1>12, <1>13 DEF IInv

\* A retry repeats what the session keeps.
LEMMA ReplayInv == ASSUME IInv, NEW c \in net, Replay(c) PROVE IInv'
<1>1. /\ UNCHANGED <<clock, now, cell, devices, rotation, sess, net, pings, granted, chain>>
      /\ answers' = answers \cup {[req |-> Id(c), answer |-> sess[c.s].answer]}
      /\ c.s \notin Old /\ c.seq = sess[c.s].seq
  BY DEF Replay, rows, SameRequest
<1>2. c.s \in Sessions /\ Id(c) \in Ids /\ c.seq \in Nat /\ sess[c.s].answer \in Answered
  BY DEF IInv, DirectoryTypeOK, Shapes, Session, Request, Id, Ids
<1>3. DirectoryTypeOK' /\ Shapes'
  BY <1>1, <1>2 DEF IInv, DirectoryTypeOK, Shapes
<1>4. (TimesAgree /\ Numbered /\ NamesDevices /\ RowIsLast)'
  BY <1>1 DEF IInv, TimesAgree, Numbered, Signed, NamesDevices, RowIsLast
<1>5. Remembered'
  <2>1. InSession(Id(c)) /\ c.seq <= sess[c.s].seq
    BY <1>1, <1>2 DEF InSession, Id
  <2>2. \A a \in answers' : /\ InSession(a.req)
                            /\ \E x \in net' : Id(x) = a.req /\ x.seq <= sess'[x.s].seq
    <3> SUFFICES ASSUME NEW a \in answers' 
                 PROVE  InSession(a.req) /\ \E x \in net' : Id(x) = a.req /\ x.seq <= sess'[x.s].seq
      OBVIOUS
    <3>1. CASE a \in answers
      BY <1>1, <3>1 DEF IInv, Remembered
    <3>2. CASE a.req = Id(c)
      BY <1>1, <2>1, <3>2
    <3> QED BY <1>1, <3>1, <3>2
  <2>3. \A s \in Sessions : known(s)' =>
           \E a \in answers' : a.req = <<s, sess'[s].n>> /\ a.answer = sess'[s].answer
    BY <1>1 DEF IInv, Remembered, known
  <2>4. \A req \in Ids : TookEffect(req)' /\ InSession(req) =>
           \E a \in answers' : a.req = req /\ a.answer.code = "OK"
    BY <1>1 DEF IInv, Remembered, TookEffect
  <2> QED BY <2>2, <2>3, <2>4 DEF Remembered
<1> QED BY <1>3, <1>4, <1>5 DEF IInv

\* What evidence of a watch socket does to the row.
LEMMA RenewRow ==
  ASSUME IInv, NEW p \in pings, RenewHolds(p)
  PROVE  /\ UNCHANGED <<clock, devices, rotation, sess, net, pings, answers, granted, chain>>
         /\ now' \in Time /\ now <= now' /\ now' <= clock
         /\ cell' \in Rows /\ cell'.expires <= now' + TTL
         /\ cell'.device = cell.device /\ cell'.fence = cell.fence /\ cell'.head = cell.head
         /\ cell' # cell => ~devices[cell.device].revoked /\ rotation.state = "none"
<1> DEFINE t == Later(now, p.seen)
<1>1. /\ now' = t /\ UNCHANGED <<clock, devices, rotation, sess, net, pings, answers, granted, chain>>
  BY DEF RenewHolds
<1>2. /\ p.seen \in Time /\ now \in Time /\ clock \in Time
      /\ now <= clock /\ p.seen <= clock
  BY DEF IInv, DirectoryTypeOK, TimesAgree
<1>3. t \in Time /\ now <= t /\ p.seen <= t /\ t <= clock
  BY <1>2, LaterTime
<1>4. cell \in Rows /\ cell.expires <= now + TTL
  BY DEF IInv, DirectoryTypeOK, TimesAgree, Rows
<1>5. cell.expires <= t + TTL
  BY <1>2, <1>3, <1>4, TTLAssumption DEF Rows, RowType, Time
<1> HIDE DEF t
<1>6. CASE cell' = cell
  BY <1>1, <1>3, <1>4, <1>5, <1>6
<1>7. CASE cell' # cell
  <2>1. RenewAccepts(p, t) /\ cell' = Renewed(cell, p.seen, t)
    BY <1>7 DEF RenewHolds, t
  <2>2. ~devices[cell.device].revoked /\ rotation.state = "none"
    BY <2>1 DEF RenewAccepts, holder
  <2> QED BY <1>1, <1>2, <1>3, <1>4, <1>5, <2>1, <2>2, RenewedRow
<1> QED BY <1>6, <1>7

\* Evidence of a watch socket, fresh, late or of a lost lease, keeps it.
LEMMA RenewInv == ASSUME IInv, NEW p \in pings, RenewHolds(p) PROVE IInv'
<1>1. DirectoryTypeOK' /\ Shapes'
  BY RenewRow DEF IInv, DirectoryTypeOK, Shapes, Rows
<1>2. TimesAgree'
  BY RenewRow DEF IInv, TimesAgree
<1>3. (Numbered /\ NamesDevices /\ RowIsLast)'
  BY RenewRow DEF IInv, Numbered, Signed, NamesDevices, RowIsLast, Exists
<1>4. Remembered'
  <2>1. UNCHANGED <<sess, net, answers, granted, chain>>
    BY RenewRow
  <2> QED BY <2>1 DEF IInv, Remembered, known, TookEffect
<1> QED BY <1>1, <1>2, <1>3, <1>4 DEF IInv

\* The row stays the last grant and the last version.
LEMMA EvaluateLast ==
  ASSUME IInv, NEW c \in net, Evaluate(c)
  PROVE  RowIsLast' /\ granted' \in Seq(Given) /\ chain' \in Seq(Version)
<1> DEFINE d == Owner[c.s]
<1>1. /\ d \in Devices /\ net' = net /\ DirectoryTypeOK /\ RowIsLast
      /\ granted \in Seq(Given) /\ chain \in Seq(Version)
      /\ cell.fence \in 0 .. MaxFence /\ cell.head \in Heads /\ MaxFence \in Nat \ {0}
  <2>1. d \in Devices /\ net' = net
    BY EvaluateRow DEF Evaluate
  <2>2. cell.fence \in 0 .. MaxFence /\ cell.head \in Heads
    BY DirectoryAssumption DEF IInv, DirectoryTypeOK, RowType
  <2> QED BY <2>1, <2>2, DirectoryAssumption DEF IInv, Shapes
<1>2. [by |-> d, req |-> Id(c)] \in Given
  BY <1>1, EntryTypes
<1>3. CASE Creates(c)
  <2>1. [by |-> d, fence |-> 1, old |-> Blank, head |-> Id(c)] \in Version
    <3>1. Blank \in Heads /\ 1 \in 1 .. MaxFence
      BY <1>1 DEF Heads
    <3> HIDE DEF d
    <3> QED BY <1>1, <3>1, EntryTypes
  <2>2. granted = <<>> /\ chain = <<>> /\ cell.fence = 0
    BY <1>1, <1>3 DEF Creates, RowIsLast, Exists
  <2> QED BY <1>1, <1>2, <1>3, <2>1, <2>2 DEF Creates, RowIsLast, Exists
<1>4. CASE Grants(c)
  BY <1>1, <1>2, <1>4 DEF Grants, RowIsLast, Exists
<1>5. CASE Writes(c)
  <2>1. [by |-> d, fence |-> cell.fence, old |-> cell.head, head |-> Id(c)] \in Version
    <3>1. cell.fence \in 1 .. MaxFence
      BY <1>1, <1>5 DEF Writes, Exists
    <3> HIDE DEF d
    <3> QED BY <1>1, <3>1, EntryTypes
  <2> QED BY <1>1, <1>5, <2>1 DEF Writes, RowIsLast, Exists
<1>6. CASE Quiet
  BY <1>1, <1>6 DEF Quiet, RowIsLast, Exists
<1> QED BY <1>3, <1>4, <1>5, <1>6, EvaluateHistory

\* What a session is told of one more request.
LEMMA EvaluateSession ==
  ASSUME IInv, NEW c \in net, Evaluate(c)
  PROVE  /\ sess' \in [Sessions -> Session]
         /\ answers' \subseteq [req : Ids, answer : Answered]
         /\ \A s \in Sessions : sess'[s].seq <= Cardinality(Signed(s))
         /\ \A s \in Sessions : sess[s].seq <= sess'[s].seq
<1>1. /\ c \in Request /\ c.s \in Sessions /\ Id(c) \in Ids
      /\ c.seq \in 1 .. MaxRequests /\ c.n \in 1 .. MaxRequests
  BY DEF IInv, DirectoryTypeOK, Request, Id, Ids
<1>2. \A code \in {"OK", "refused"} : Answer(code) \in Answered
  <2>1. cell'.fence \in 0 .. MaxFence /\ cell'.head \in Heads
    BY EvaluateRow, DirectoryAssumption DEF Rows, RowType
  <2> QED BY <2>1 DEF Answer, Answered, Codes
<1>3. /\ sess \in [Sessions -> Session] /\ answers \subseteq [req : Ids, answer : Answered]
      /\ \A s \in Sessions : sess[s].seq <= Cardinality(Signed(s)) /\ sess[s].seq \in Nat
  BY DEF IInv, Shapes, Session, Numbered
<1>4. CASE c.s \in Old
  <2>1. sess' = sess /\ answers' = answers
    BY <1>4, EvaluateAnswer
  <2> QED BY <1>3, <2>1
<1>5. CASE c.s \notin Old
  <2>1. PICK code \in {"OK", "refused"} :
          /\ sess' = [sess EXCEPT ![c.s] = [seq |-> c.seq, n |-> c.n,
                                 closed |-> c.op = "close", answer |-> Answer(code)]]
          /\ answers' = answers \cup {[req |-> Id(c), answer |-> Answer(code)]}
    BY <1>5, EvaluateAnswer
  <2>2. c.seq = sess[c.s].seq + 1
    BY <1>5, EvaluateAnswer
  <2>3. Answer(code) \in Answered
    BY <1>2
  <2> DEFINE keep == [seq |-> c.seq, n |-> c.n, closed |-> c.op = "close", answer |-> Answer(code)]
  <2>4. keep \in Session /\ keep.seq = c.seq
    BY <1>1, <2>3 DEF Session
  <2> HIDE DEF keep
  <2>5. sess' = [sess EXCEPT ![c.s] = keep]
    BY <2>1 DEF keep
  <2>6. c.seq <= Cardinality(Signed(c.s))
    <3>1. IsFiniteSet(Signed(c.s))
      <4>1. IsFiniteSet(net) /\ Signed(c.s) \subseteq net
        BY DEF IInv, Numbered, Signed
      <4> QED BY <4>1, FS_Subset
    <3>2. Cardinality(Signed(c.s)) \in Nat
      BY <3>1, FS_CardinalityType
    <3> QED BY <1>1, <3>2 DEF IInv, Numbered
  <2>7. sess' \in [Sessions -> Session] /\ answers' \subseteq [req : Ids, answer : Answered]
    BY <1>1, <1>3, <2>1, <2>3, <2>4, <2>5
  <2>8. \A s \in Sessions : sess'[s].seq <= Cardinality(Signed(s)) /\ sess[s].seq <= sess'[s].seq
    BY <1>1, <1>3, <2>2, <2>4, <2>5, <2>6
  <2> QED BY <2>7, <2>8
<1> QED BY <1>4, <1>5

\* A request evaluated has not been answered before.
LEMMA AnsweredOnce ==
  ASSUME IInv, NEW c \in net, c.s \notin Old, c.seq = sess[c.s].seq + 1
  PROVE  /\ \A a \in answers : a.req # Id(c)
         /\ ~TookEffect(Id(c))
<1>1. Id(c) \in Ids /\ c.s \in Sessions /\ sess[c.s].seq \in Nat
  BY DEF IInv, DirectoryTypeOK, Shapes, Session, Request, Id, Ids
<1>2. ASSUME NEW a \in answers, a.req = Id(c) PROVE FALSE
  <2>1. PICK x \in net : Id(x) = a.req /\ x.seq <= sess[x.s].seq
    BY DEF IInv, Remembered
  <2>2. x = c
    BY <1>2, <2>1 DEF IInv, Numbered
  <2> QED BY <1>1, <2>1, <2>2
<1>3. InSession(Id(c))
  BY DEF InSession, Id
<1> QED BY <1>1, <1>2, <1>3 DEF IInv, Remembered

\* Evaluating a request takes effect for it or for none, and effects stay.
LEMMA EffectGrows ==
  ASSUME IInv, NEW c \in net, Evaluate(c)
  PROVE  \A req : /\ TookEffect(req) => TookEffect(req)'
                  /\ TookEffect(req)' => TookEffect(req) \/ req = Id(c)
<1> TAKE req
<1>0. granted \in Seq(Given) /\ chain \in Seq(Version)
  BY DEF IInv, Shapes
<1>1. ASSUME NEW g, granted' = Append(granted, g)
      PROVE  /\ DOMAIN granted' = DOMAIN granted \cup {Len(granted) + 1}
             /\ granted'[Len(granted) + 1] = g
             /\ \A i \in DOMAIN granted : granted'[i] = granted[i]
  BY <1>0, <1>1
<1>2. ASSUME NEW v, chain' = Append(chain, v)
      PROVE  /\ DOMAIN chain' = DOMAIN chain \cup {Len(chain) + 1}
             /\ chain'[Len(chain) + 1] = v
             /\ \A i \in DOMAIN chain : chain'[i] = chain[i]
  BY <1>0, <1>2
<1>3. CASE Creates(c)
  BY <1>1, <1>2, <1>3 DEF Creates, TookEffect
<1>4. CASE Grants(c)
  BY <1>1, <1>4 DEF Grants, TookEffect
<1>5. CASE Writes(c)
  BY <1>2, <1>5 DEF Writes, TookEffect
<1>6. CASE Quiet
  BY <1>6 DEF Quiet, TookEffect
<1> QED BY <1>3, <1>4, <1>5, <1>6, EvaluateHistory

\* Sessions still remember all they were told after one more request.
LEMMA EvaluateRemembered == ASSUME IInv, NEW c \in net, Evaluate(c) PROVE Remembered'
<1>0. /\ c.s \in Sessions /\ Id(c) \in Ids /\ net' = net /\ c.seq \in Nat /\ c.n \in Nat
      /\ granted \in Seq(Given) /\ chain \in Seq(Version)
      /\ sess \in [Sessions -> Session]
  BY DEF IInv, DirectoryTypeOK, Shapes, Request, Id, Ids, Evaluate
<1>1. \A req : TookEffect(req)' => TookEffect(req) \/ req = Id(c)
  BY EffectGrows
<1>2. CASE c.s \in Old
  <2>1. sess' = sess /\ answers' = answers /\ ~InSession(Id(c))
    BY <1>2, EvaluateAnswer DEF InSession, Id
  <2>2. \A req \in Ids : TookEffect(req)' /\ InSession(req) =>
           \E a \in answers' : a.req = req /\ a.answer.code = "OK"
    BY <1>1, <2>1 DEF IInv, Remembered
  <2> QED BY <1>0, <2>1, <2>2 DEF IInv, Remembered, known
<1>3. CASE c.s \notin Old
  <2>1. PICK code \in {"OK", "refused"} :
          /\ code = "refused" => Quiet
          /\ sess' = [sess EXCEPT ![c.s] = [seq |-> c.seq, n |-> c.n,
                                 closed |-> c.op = "close", answer |-> Answer(code)]]
          /\ answers' = answers \cup {[req |-> Id(c), answer |-> Answer(code)]}
    BY <1>3, EvaluateAnswer
  <2> DEFINE told == [req |-> Id(c), answer |-> Answer(code)]
  <2>2. told \in answers' /\ told.req = Id(c) /\ told.answer.code = code
    BY <2>1 DEF Answer
  <2>3. /\ sess'[c.s].seq = c.seq /\ sess'[c.s].n = c.n /\ sess'[c.s].answer = told.answer
        /\ \A s \in Sessions : s # c.s => sess'[s] = sess[s]
    BY <1>0, <2>1
  <2>4. answers' = answers \cup {told}
    BY <2>1
  <2> HIDE DEF told
  <2>5. InSession(Id(c))
    BY <1>3 DEF InSession, Id
  <2>6. \A s \in Sessions : /\ sess[s].seq \in Nat /\ sess'[s].seq \in Nat
                            /\ sess[s].seq <= sess'[s].seq
    BY <1>0, EvaluateSession DEF Session
  <2>7. ASSUME NEW a \in answers'
        PROVE  InSession(a.req) /\ \E x \in net' : Id(x) = a.req /\ x.seq <= sess'[x.s].seq
    <3>1. CASE a \in answers
      <4>1. PICK x \in net : Id(x) = a.req /\ x.seq <= sess[x.s].seq
        BY <3>1 DEF IInv, Remembered
      <4>2. x.s \in Sessions /\ x.seq \in Nat
        BY DEF IInv, DirectoryTypeOK, Request
      <4>3. x.seq <= sess'[x.s].seq
        BY <2>6, <4>1, <4>2
      <4> QED BY <1>0, <3>1, <4>1, <4>3 DEF IInv, Remembered
    <3>2. CASE a = told
      BY <1>0, <2>2, <2>3, <2>5, <3>2
    <3> QED BY <2>4, <3>1, <3>2
  <2>8. ASSUME NEW s \in Sessions, known(s)'
        PROVE  \E a \in answers' : a.req = <<s, sess'[s].n>> /\ a.answer = sess'[s].answer
    <3>1. CASE s = c.s
      BY <2>2, <2>3, <3>1 DEF Id
    <3>2. CASE s # c.s
      <4>1. sess'[s] = sess[s] /\ known(s)
        BY <2>3, <2>8, <3>2 DEF known
      <4> QED BY <2>4, <4>1 DEF IInv, Remembered
    <3> QED BY <3>1, <3>2
  <2>9. ASSUME NEW req \in Ids, TookEffect(req)', InSession(req)
        PROVE  \E a \in answers' : a.req = req /\ a.answer.code = "OK"
    <3>1. CASE TookEffect(req)
      BY <2>4, <2>9, <3>1 DEF IInv, Remembered
    <3>2. CASE ~TookEffect(req)
      <4>1. req = Id(c)
        BY <1>1, <2>9, <3>2
      <4>2. code # "refused"
        BY <2>1, <2>9, <3>2 DEF Quiet, TookEffect
      <4> QED BY <2>2, <4>1, <4>2
    <3> QED BY <3>1, <3>2
  <2> QED BY <2>7, <2>8, <2>9 DEF Remembered
<1> QED BY <1>2, <1>3

\* Evaluating a request, accepted or refused, keeps the invariant.
LEMMA EvaluateInv == ASSUME IInv, NEW c \in net, Evaluate(c) PROVE IInv'
<1>1. UNCHANGED <<clock, net, pings>>
  BY DEF Evaluate
<1>2. rotation' \in [state : {"none", "frozen", "retired"}, by : Devices \cup {NoDevice}]
  <2>1. Owner[c.s] \in Devices
    BY EvaluateRow
  <2>2. CASE c.op \in RotateOps /\ Accepts(c, Owner[c.s], Later(now, c.at))
    <3>1. rotation' = RotateAfter(c, Owner[c.s])
      BY <2>2 DEF Evaluate, Effect
    <3> QED BY <2>1, <2>2, <3>1 DEF RotateAfter, RotateOps, IInv, DirectoryTypeOK
  <2>3. CASE ~(c.op \in RotateOps /\ Accepts(c, Owner[c.s], Later(now, c.at)))
    BY <2>3 DEF Evaluate, Effect, rows, IInv, DirectoryTypeOK
  <2> QED BY <2>2, <2>3
<1>3. DirectoryTypeOK'
  <2>1. \A s \in Sessions : sess'[s] \in Session
    BY EvaluateSession
  <2>2. cell' \in RowType(Devices, Heads, 0 .. MaxClock + TTL) /\ cell'.fence <= MaxFence
    BY EvaluateRow DEF Rows
  <2>3. clock' \in Time /\ now' \in Time
    BY <1>1, EvaluateRow DEF IInv, DirectoryTypeOK
  <2> QED BY <1>1, <1>2, <2>1, <2>2, <2>3, EvaluateDevices DEF IInv, DirectoryTypeOK, Session, Answered
<1>4. Shapes'
  BY EvaluateSession, EvaluateLast DEF Shapes
<1>5. TimesAgree'
  BY <1>1, EvaluateRow DEF IInv, TimesAgree
<1>6. Numbered'
  <2>1. \A s : Signed(s)' = Signed(s)
    BY <1>1 DEF Signed
  <2> QED BY <1>1, <2>1, EvaluateSession DEF IInv, Numbered
<1>7. NamesDevices'
  <2>1. Exists(cell') => cell'.device \in Devices
    BY EvaluateRow
  <2> QED BY <1>1, <2>1, EvaluateDevices DEF IInv, NamesDevices, Exists
<1> QED BY <1>3, <1>4, <1>5, <1>6, <1>7, EvaluateLast, EvaluateRemembered DEF IInv

\* Every step keeps the invariant.
LEMMA NextInv == IInv /\ [Next]_dirVars => IInv'
<1> SUFFICES ASSUME IInv, [Next]_dirVars PROVE IInv'
  OBVIOUS
<1>1. CASE UNCHANGED dirVars
  <2>1. UNCHANGED <<clock, now, cell, devices, rotation, sess, net, pings, answers, granted, chain>>
    BY <1>1 DEF dirVars
  <2>2. (DirectoryTypeOK /\ Shapes /\ TimesAgree)'
    BY <2>1 DEF IInv, DirectoryTypeOK, Shapes, TimesAgree
  <2>3. (Numbered /\ NamesDevices /\ RowIsLast)'
    BY <2>1 DEF IInv, Numbered, Signed, NamesDevices, RowIsLast
  <2>4. Remembered'
    BY <2>1 DEF IInv, Remembered, known, TookEffect
  <2> QED BY <2>2, <2>3, <2>4 DEF IInv
<1>2. CASE Tick \/ AdvanceTime \/ SignOfLife
  BY <1>2, ClockInv
<1>3. CASE \E s \in Sessions : \E op \in Ops[s], d \in Devices, u \in BOOLEAN : Sign(s, op, d, u)
  BY <1>3, SignInv
<1>4. CASE \E c \in net : Evaluate(c)
  BY <1>4, EvaluateInv
<1>5. CASE \E c \in net : Replay(c)
  BY <1>5, ReplayInv
<1>6. CASE \E p \in pings : RenewHolds(p)
  BY <1>6, RenewInv
<1> QED BY <1>1, <1>2, <1>3, <1>4, <1>5, <1>6 DEF Next, TurnAway

\* The invariant holds of every behaviour: times agree, requests are numbered
\* apart, the row is the last grant and the last version, and sessions
\* remember what they told.
THEOREM Invariant == Spec => []IInv
BY InitInv, NextInv, PTL DEF Spec

\* Type correctness of the directory: rows, sessions, requests and evidence
\* keep their types, and the fence never passes the largest one.
THEOREM DirectoryTypeCorrect == Spec => []DirectoryTypeOK
<1>1. IInv => DirectoryTypeOK
  BY DEF IInv
<1> QED BY <1>1, Invariant, PTL

-----------------------------------------------------------------------------
(* The directory implements the fenced cell.                                *)

\* The owners of the fences, as FencedCell sees them.
Owners == [i \in DOMAIN granted |-> granted[i].by]

\* One owner per grant, in the order of the fences.
LEMMA OwnersOf ==
  ASSUME Shapes
  PROVE  /\ Owners \in Seq(Devices) /\ Len(Owners) = Len(granted)
         /\ \A i \in 1 .. Len(granted) : Owners[i] = granted[i].by
         /\ granted = <<>> <=> Owners = <<>>
<1>1. granted \in Seq(Given)
  BY DEF Shapes
<1>2. Len(granted) \in Nat /\ DOMAIN granted = 1 .. Len(granted)
  BY <1>1
<1>3. \A i \in 1 .. Len(granted) : granted[i].by \in Devices
  <2>1. \A i \in 1 .. Len(granted) : granted[i] \in Given
    BY <1>1, ElementOfSeq
  <2> QED BY <2>1 DEF Given
<1>4. Owners \in Seq(Devices) /\ Len(Owners) = Len(granted)
  BY <1>2, <1>3 DEF Owners
<1> QED BY <1>1, <1>2, <1>4 DEF Owners

\* One more grant is one more owner.
LEMMA OwnersGrow ==
  ASSUME Shapes, Shapes', NEW d \in Devices, NEW r \in Ids,
         granted' = Append(granted, [by |-> d, req |-> r])
  PROVE  Owners' = Append(Owners, d)
<1>1. granted \in Seq(Given) /\ [by |-> d, req |-> r] \in Given
  BY DEF Shapes, Given
<1>2. /\ Len(granted') = Len(granted) + 1 /\ granted'[Len(granted) + 1].by = d
      /\ \A i \in 1 .. Len(granted) : granted'[i] = granted[i]
  BY <1>1
<1>3. Owners' \in Seq(Devices) /\ Len(Owners') = Len(granted)+1
      /\ \A i \in 1 .. Len(granted') : Owners'[i] = granted'[i].by
  <2>1. granted' \in Seq(Given)
    BY DEF Shapes
  <2>2. Len(granted') \in Nat /\ DOMAIN granted' = 1 .. Len(granted')
    BY <2>1
  <2>3. \A i \in 1 .. Len(granted') : granted'[i].by \in Devices
    <3>1. \A i \in 1 .. Len(granted') : granted'[i] \in Given
      BY <2>1, ElementOfSeq
    <3> QED BY <3>1 DEF Given
  <2> QED BY <1>2, <2>2, <2>3 DEF Owners
<1>4. /\ Append(Owners, d) \in Seq(Devices) /\ Len(Append(Owners, d)) = Len(granted) + 1
      /\ Append(Owners, d)[Len(granted) + 1] = d
      /\ \A i \in 1 .. Len(granted) : Append(Owners, d)[i] = granted[i].by
  BY OwnersOf
<1>5. Len(granted) \in Nat
  BY <1>1
<1>6. \A i \in 1 .. Len(granted) + 1 : Owners'[i] = Append(Owners, d)[i]
  BY <1>2, <1>3, <1>4, <1>5
<1> QED BY <1>3, <1>4, <1>5, <1>6, SeqEqual

\* The initial state is the fenced cell's, and a step of the directory is a
\* create, a grant or a write of the fenced cell, or leaves it as it was.
THEOREM ImplementsFencedCell == Spec => FencedCellSpec
<1>1. Init => Fenced!Init
  BY DEF Init, Fenced!Init
<1>2. IInv /\ IInv' /\ [Next]_dirVars => [Fenced!Next]_(Fenced!cellVars)
  <2> SUFFICES ASSUME IInv, IInv', [Next]_dirVars
               PROVE  Fenced!Next \/ (Owners' = Owners /\ chain' = chain)
    BY DEF Fenced!cellVars, Owners
  <2>0. Shapes /\ Shapes' /\ RowIsLast
    BY DEF IInv
  <2>1. CASE UNCHANGED <<granted, chain>>
    BY <2>1 DEF Owners
  <2>2. ASSUME NEW c \in net, Evaluate(c)
        PROVE  Fenced!Next \/ (Owners' = Owners /\ chain' = chain)
    <3> DEFINE d == Owner[c.s]
    <3>1. d \in Devices /\ Id(c) \in Ids /\ chain \in Seq(Version)
      BY <2>0, <2>2, EvaluateRow, EntryTypes DEF IInv, Shapes
    <3>2. CASE Creates(c)
      <4>1. granted = <<>> /\ chain = <<>> /\ Owners = <<>>
        BY <2>0, <3>2, OwnersOf DEF Creates, RowIsLast, Exists, Shapes
      <4>2. Owners' = Append(Owners, d)
        BY <2>0, <3>1, <3>2, OwnersGrow DEF Creates
      <4>3. Owners' = <<d>>
        BY <4>1, <4>2
      <4>4. chain' = <<[by |-> d, fence |-> 1, old |-> Blank, head |-> Id(c)]>>
        BY <3>2, <4>1 DEF Creates
      <4>5. Fenced!Create(d, Id(c))
        BY <4>1, <4>3, <4>4 DEF Fenced!Create, Fenced!Entry, Owners
      <4> QED BY <3>1, <4>5 DEF Fenced!Next
    <3>3. CASE Grants(c)
      <4>1. Owners # <<>> 
        BY <2>0, <3>3, OwnersOf DEF Grants, RowIsLast, Exists, Shapes
      <4>2. Owners' = Append(Owners, d) /\ chain' = chain
        BY <2>0, <3>1, <3>3, OwnersGrow DEF Grants
      <4>3. Fenced!Grant(d)
        BY <4>1, <4>2 DEF Fenced!Grant, Owners
      <4> QED BY <3>1, <4>3 DEF Fenced!Next
    <3>4. CASE Writes(c)
      <4>1. /\ Owners # <<>> /\ Owners' = Owners /\ Len(Owners) = cell.fence
            /\ Owners[Len(Owners)] = d
        <5>1. /\ Len(granted) = cell.fence /\ cell.fence # 0 /\ granted[Len(granted)].by = d
              /\ granted' = granted
          BY <2>0, <3>4 DEF Writes, RowIsLast, Exists
        <5>2. granted \in Seq(Given) /\ Len(granted) \in Nat
          BY <2>0 DEF Shapes
        <5>3. granted # <<>> /\ Len(granted) \in 1 .. Len(granted)
          BY <5>1, <5>2
        <5> HIDE DEF d
        <5> QED BY <2>0, <5>1, <5>3, OwnersOf DEF Owners
      <4>2. cell.head = Fenced!HeadOf(chain)
        BY <2>0 DEF RowIsLast, Fenced!HeadOf
      <4>3. chain' = Append(chain, Fenced!Entry(Owners[Len(Owners)], Len(Owners),
                                                Fenced!HeadOf(chain), Id(c)))
        BY <3>4, <4>1, <4>2 DEF Writes, Fenced!Entry
      <4>4. Fenced!Write(Id(c))
        BY <4>1, <4>3 DEF Fenced!Write, Fenced!fence, Owners
      <4> QED BY <3>1, <4>4 DEF Fenced!Next
    <3>5. CASE Quiet
      BY <3>5 DEF Quiet, Owners
    <3> QED BY <2>2, <3>2, <3>3, <3>4, <3>5, EvaluateHistory
  <2> QED BY <2>1, <2>2 DEF Next, Tick, AdvanceTime, SignOfLife, Sign, Replay, TurnAway, RenewHolds,
                          dirVars
<1> QED BY <1>1, <1>2, Invariant, PTL DEF Spec, FencedCellSpec, Fenced!Spec

-----------------------------------------------------------------------------
(* What sessions are told, and what becomes of revoked devices.             *)

EffectOps == {"create", "acquire", "take", "publish"}

\* Answers stay true while what took effect, of those answered, stays the same.
LEMMA AnswersKept ==
  ASSUME IInv, AnswersAgree, answers' = answers, net' = net,
         \A a \in answers : TookEffect(a.req)' <=> TookEffect(a.req)
  PROVE  AnswersAgree'
<1>1. ASSUME NEW a \in answers, NEW c \in net, Id(c) = a.req, c.op \in EffectOps
      PROVE  TookEffect(a.req)' <=> a.answer.code = "OK"
  <2>1. TookEffect(a.req) <=> a.answer.code = "OK"
    BY <1>1 DEF AnswersAgree, EffectOps
  <2>2. TookEffect(a.req)' <=> TookEffect(a.req)
    OBVIOUS
  <2> QED BY <2>1, <2>2
<1> QED BY <1>1 DEF AnswersAgree, EffectOps

\* One more answer, of a request not answered before.
LEMMA AnswersAdded ==
  ASSUME IInv, AnswersAgree, NEW c \in net, NEW told, told.req = Id(c),
         answers' = answers \cup {told}, net' = net,
         \A a \in answers : a.req # Id(c),
         \A a \in answers : TookEffect(a.req)' <=> TookEffect(a.req),
         c.op \in EffectOps => (TookEffect(Id(c))' <=> told.answer.code = "OK")
  PROVE  AnswersAgree'
<1>1. ASSUME NEW a \in answers', NEW x \in net, Id(x) = a.req, x.op \in EffectOps
      PROVE  TookEffect(a.req)' <=> a.answer.code = "OK"
  <2>1. CASE a \in answers
    <3>1. TookEffect(a.req) <=> a.answer.code = "OK"
      BY <1>1, <2>1 DEF AnswersAgree, EffectOps
    <3>2. TookEffect(a.req)' <=> TookEffect(a.req)
      BY <2>1
    <3> QED BY <3>1, <3>2
  <2>2. CASE a = told
    <3>1. x = c
      BY <1>1, <2>2 DEF IInv, Numbered
    <3>2. TookEffect(Id(c))' <=> told.answer.code = "OK"
      BY <1>1, <3>1
    <3> QED BY <2>2, <3>2
  <2> QED BY <2>1, <2>2
<1>2. ASSUME NEW a \in answers', NEW b \in answers', b.req = a.req PROVE b.answer = a.answer
  BY <1>2 DEF AnswersAgree
<1> QED BY <1>1, <1>2 DEF AnswersAgree, EffectOps

\* Every step keeps the answers true: a retry repeats, a first answer is new.
LEMMA AnswersStep == IInv /\ IInv' /\ AnswersAgree /\ [Next]_dirVars => AnswersAgree'
<1> SUFFICES ASSUME IInv, IInv', AnswersAgree, [Next]_dirVars PROVE AnswersAgree'
  OBVIOUS
<1>1. CASE UNCHANGED <<net, answers, granted, chain>>
  BY <1>1 DEF AnswersAgree, TookEffect
<1>2. ASSUME NEW s \in Sessions, NEW op \in Ops[s], NEW target \in Devices, NEW u \in BOOLEAN,
             Sign(s, op, target, u)
      PROVE  AnswersAgree'
  <2>1. UNCHANGED <<answers, granted, chain>>
    BY <1>2 DEF Sign
  <2>2. net \subseteq net'
    BY <1>2 DEF Sign
  <2>3. ASSUME NEW a \in answers, NEW c \in net', Id(c) = a.req PROVE c \in net
    <3>1. PICK x \in net : Id(x) = a.req
      BY DEF IInv, Remembered
    <3>2. x = c
      BY <2>2, <2>3, <3>1 DEF IInv, Numbered
    <3> QED BY <3>1, <3>2
  <2> QED BY <2>1, <2>3 DEF AnswersAgree, TookEffect
<1>3. ASSUME NEW c \in net, Replay(c) PROVE AnswersAgree'
  <2> DEFINE told == [req |-> Id(c), answer |-> sess[c.s].answer]
  <2>1. answers' = answers \cup {told} /\ UNCHANGED <<net, granted, chain>>
    BY <1>3 DEF Replay
  <2>2. told \in answers
    <3>1. known(c.s) /\ c.n = sess[c.s].n /\ c.s \in Sessions
      BY <1>3 DEF Replay, SameRequest, IInv, DirectoryTypeOK, Request
    <3>2. PICK a \in answers : a.req = <<c.s, c.n>> /\ a.answer = sess[c.s].answer
      <4>1. \E a \in answers : a.req = <<c.s, sess[c.s].n>> /\ a.answer = sess[c.s].answer
        BY <3>1 DEF IInv, Remembered
      <4> QED BY <3>1, <4>1
    <3>3. a = told
      BY <3>2 DEF IInv, Shapes, Id
    <3> QED BY <3>2, <3>3
  <2>3. answers' = answers
    BY <2>1, <2>2
  <2> QED BY <2>1, <2>3 DEF AnswersAgree, TookEffect
<1>4. ASSUME NEW c \in net, Evaluate(c) PROVE AnswersAgree'
  <2>0. /\ net' = net /\ granted \in Seq(Given) /\ chain \in Seq(Version)
        /\ \A x, y \in net : Id(x) = Id(y) => x = y
    BY <1>4 DEF Evaluate, IInv, Shapes, Numbered
  <2>1. \A req : /\ TookEffect(req) => TookEffect(req)'
                 /\ TookEffect(req)' => TookEffect(req) \/ req = Id(c)
    BY <1>4, EffectGrows
  <2>2. CASE c.s \in Old
    <3>1. answers' = answers /\ \A a \in answers : a.req # Id(c)
      <4>1. answers' = answers
        BY <1>4, <2>2, EvaluateAnswer
      <4>2. ~InSession(Id(c)) /\ \A a \in answers : InSession(a.req)
        BY <2>2 DEF IInv, Remembered, InSession, Id
      <4> QED BY <4>1, <4>2
    <3>2. \A a \in answers : TookEffect(a.req)' <=> TookEffect(a.req)
      BY <2>1, <3>1
    <3> QED BY <2>0, <3>1, <3>2, AnswersKept
  <2>3. CASE c.s \notin Old
    <3>1. PICK code \in {"OK", "refused"} :
            /\ code = "refused" => Quiet
            /\ code = "OK" /\ c.op \in GrantOps =>
                 granted' = Append(granted, [by |-> Owner[c.s], req |-> Id(c)])
            /\ code = "OK" /\ c.op = "publish" => Writes(c)
            /\ answers' = answers \cup {[req |-> Id(c), answer |-> Answer(code)]}
      BY <1>4, <2>3, EvaluateAnswer
    <3> DEFINE told == [req |-> Id(c), answer |-> Answer(code)]
    <3>2. /\ told.req = Id(c) /\ told.answer.code = code /\ answers' = answers \cup {told}
      BY <3>1 DEF Answer
    <3> HIDE DEF told
    <3>3. /\ \A a \in answers : a.req # Id(c)
          /\ ~TookEffect(Id(c))
      BY <1>4, <2>3, EvaluateAnswer, AnsweredOnce
    <3>4. CASE code = "refused"
      <4>1. \A req : TookEffect(req)' <=> TookEffect(req)
        BY <3>1, <3>4 DEF Quiet, TookEffect
      <4>2. ~TookEffect(Id(c))' /\ told.answer.code # "OK"
        BY <3>2, <3>3, <3>4, <4>1
      <4> QED BY <2>0, <3>2, <3>3, <4>1, <4>2, AnswersAdded
    <3>5. CASE code = "OK"
      <4>1. c.op \in EffectOps => TookEffect(Id(c))'
        <5>1. CASE c.op \in GrantOps
          <6>1. /\ Len(granted') = Len(granted) + 1 /\ Len(granted) + 1 \in DOMAIN granted'
                /\ granted'[Len(granted) + 1].req = Id(c)
            BY <2>0, <3>1, <3>5, <5>1
          <6> QED BY <6>1 DEF TookEffect
        <5>2. CASE c.op = "publish"
          <6>1. Len(chain) + 1 \in DOMAIN chain' /\ chain'[Len(chain) + 1].head = Id(c)
            BY <2>0, <3>1, <3>5, <5>2 DEF Writes
          <6> QED BY <6>1 DEF TookEffect
        <5> QED BY <5>1, <5>2 DEF GrantOps, EffectOps
      <4>2. \A a \in answers : TookEffect(a.req)' <=> TookEffect(a.req)
        BY <2>1, <3>3
      <4> QED BY <2>0, <3>2, <3>3, <3>5, <4>1, <4>2, AnswersAdded
    <3> QED BY <3>4, <3>5
  <2> QED BY <2>2, <2>3
<1> QED BY <1>1, <1>2, <1>3, <1>4 DEF Next, Tick, AdvanceTime, SignOfLife, TurnAway, RenewHolds, dirVars

\* A retry never hears another answer than the first, a request told "OK" has
\* taken effect and a refused one never does, however requests are repeated.
THEOREM AnswersStayTrue == Spec => []AnswersAgree
<1>1. Init => AnswersAgree
  BY DEF Init, AnswersAgree
<1> QED BY <1>1, AnswersStep, Invariant, PTL DEF Spec

\* After a revocation no request, retry or evidence moves the lease of the
\* device: it ends at most one TTL after the directory took the revocation.
THEOREM RevokedLeaseEnds == Spec => []RevokedRunsOut
<1>1. Init => RevokedRunsOut
  BY DEF Init, RevokedRunsOut
<1>2. IInv /\ RevokedRunsOut /\ [Next]_dirVars => RevokedRunsOut'
  <2> SUFFICES ASSUME IInv, RevokedRunsOut, [Next]_dirVars,
                      NEW d \in Devices, devices'[d].revoked, cell'.device = d
               PROVE  cell'.expires <= devices'[d].since + TTL
    BY DEF RevokedRunsOut
  <2>1. CASE UNCHANGED <<cell, devices>>
    BY <2>1 DEF RevokedRunsOut
  <2>2. ASSUME NEW c \in net, Evaluate(c) PROVE cell'.expires <= devices'[d].since + TTL
    <3>1. CASE devices[d].revoked
      <4>1. devices'[d] = devices[d] /\ cell' = cell
        BY <2>2, <3>1, EvaluateRow, EvaluateDevices
      <4> QED BY <3>1, <4>1 DEF RevokedRunsOut
    <3>2. CASE ~devices[d].revoked
      BY <2>2, <3>2, EvaluateRow, EvaluateDevices
    <3> QED BY <3>1, <3>2
  <2>3. ASSUME NEW p \in pings, RenewHolds(p) PROVE cell'.expires <= devices'[d].since + TTL
    <3>1. devices' = devices /\ cell.device = d /\ cell' = cell
      BY <2>3, RenewRow
    <3> QED BY <3>1 DEF RevokedRunsOut
  <2> QED BY <2>1, <2>2, <2>3 DEF Next, Tick, AdvanceTime, SignOfLife, Sign, Replay, TurnAway, rows, dirVars
<1> QED BY <1>1, <1>2, Invariant, PTL DEF Spec

\* No write, by the device itself or by another, brings a revoked device back.
THEOREM RevocationIsForGood == Spec => RevokedStays
<1>1. IInv /\ [Next]_dirVars => \A d \in Devices : devices[d].revoked => devices[d]' = devices[d]
  <2> SUFFICES ASSUME IInv, [Next]_dirVars
               PROVE  \A d \in Devices : devices[d].revoked => devices'[d] = devices[d]
    OBVIOUS
  <2>1. CASE UNCHANGED devices
    BY <2>1
  <2>2. CASE \E c \in net : Evaluate(c)
    BY <2>2, EvaluateDevices
  <2> QED BY <2>1, <2>2 DEF Next, Tick, AdvanceTime, SignOfLife, Sign, Replay, TurnAway, RenewHolds,
                          rows, dirVars
<1> QED BY <1>1, Invariant, PTL DEF Spec, RevokedStays

\* A directory being moved takes no cell or device write, from requests or
\* from evidence, and once retired its rotation stays as it is.
THEOREM MovedDirectoryStands == Spec => FrozenStands
<1> DEFINE Stands == rotation.state # "none" =>
                       /\ cell' = cell /\ devices' = devices
                       /\ rotation.state = "retired" => rotation' = rotation
<1>1. IInv /\ [Next]_dirVars => Stands
  <2> SUFFICES ASSUME IInv, [Next]_dirVars, rotation.state # "none"
               PROVE  /\ cell' = cell /\ devices' = devices
                      /\ rotation.state = "retired" => rotation' = rotation
    OBVIOUS
  <2>1. CASE UNCHANGED <<cell, devices, rotation>>
    BY <2>1
  <2>2. ASSUME NEW c \in net, Evaluate(c)
        PROVE  /\ cell' = cell /\ devices' = devices
               /\ rotation.state = "retired" => rotation' = rotation
    <3> DEFINE d == Owner[c.s]
               t == Later(now, c.at)
    <3>1. CASE Accepts(c, d, t)
      <4>1. c.op \in RotateOps \cup {"close"} /\ Effect(c, d, t)
        BY <2>2, <3>1 DEF Accepts, Rotated, Evaluate
      <4>2. cell' = cell /\ devices' = devices
        BY <4>1 DEF Effect, CellOps, DeviceOps, RotateOps
      <4>3. CASE c.op = "close"
        BY <4>1, <4>2, <4>3 DEF Effect, RotateOps
      <4>4. CASE c.op \in RotateOps /\ rotation.state = "retired"
        <5>1. RotateAccepts(c, d)
          BY <3>1, <4>4 DEF Accepts, CellOps, DeviceOps, RotateOps
        <5>2. c.op \in {"freeze", "retire"} /\ rotation' = RotateAfter(c, d)
          BY <4>1, <4>4, <5>1 DEF RotateAccepts, Effect
        <5>3. rotation \in [state : {"none", "frozen", "retired"}, by : Devices \cup {NoDevice}]
          BY DEF IInv, DirectoryTypeOK
        <5>4. RotateAfter(c, d) = rotation
          BY <4>4, <5>2, <5>3 DEF RotateAfter
        <5> QED BY <4>2, <5>2, <5>4
      <4> QED BY <4>1, <4>2, <4>3, <4>4
    <3>2. CASE ~Accepts(c, d, t)
      BY <2>2, <3>2 DEF Evaluate, rows
    <3> QED BY <3>1, <3>2
  <2>3. ASSUME NEW p \in pings, RenewHolds(p)
        PROVE  UNCHANGED <<cell, devices, rotation>>
    BY <2>3, RenewRow
  <2> QED BY <2>1, <2>2, <2>3 DEF Next, Tick, AdvanceTime, SignOfLife, Sign, Replay, TurnAway, rows, dirVars
<1> QED BY <1>1, Invariant, PTL DEF Spec, FrozenStands
=============================================================================
