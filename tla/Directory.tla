----------------------------- MODULE Directory -----------------------------
(***************************************************************************)
(* The replicated directory's state machine (internal/clusterstate), seen  *)
(* by the personal devices: one cell row, the device registry, an identity *)
(* being moved (rotation) and the request sessions.  A committed command   *)
(* is evaluated in one step against the applied rows (evaluateCommand), so *)
(* a command is one action; the network before it delays, reorders, repeats*)
(* and loses, so `net' keeps every request ever signed and any of them may *)
(* be committed again at any time.                                         *)
(*                                                                         *)
(* A request is signed from the row as it stands and committed later, which*)
(* is how a stale fence or head arises.  Signatures, certificates and byte *)
(* budgets are left out; a refusal saved in the session is "refused", one  *)
(* that leaves no trace is "turned away".  The upload receipt a publish    *)
(* needs is content-addressed and never deleted: `stored' says whether it  *)
(* is there.  `granted' and `chain' are history: they record what the      *)
(* accepted requests claimed, for FencedCell to judge.                     *)
(***************************************************************************)
EXTENDS LeaseRules, FiniteSets, Sequences

CONSTANTS
    Devices,        \* personal devices of the identity
    Sessions,       \* request sessions
    Owner,          \* Owner[s]: the device a session belongs to
    Old,            \* sessions of the first protocol: no sequence, no dedup
    Ops,            \* input: Ops[s], the operations session s issues
    Window,         \* EvidenceWindowMillis
    Skew,           \* V1SkewMillis
    MaxFence,       \* the largest fence, ^uint64(0) in the code
    MaxLive,        \* MaxLiveSessions
    MaxRetained,    \* MaxRetainedSessions
    MaxClock,       \* bound: the last time
    MaxRequests,    \* bound: requests one session signs
    MaxPings        \* bound: signs of life in all

CellOps == {"create", "acquire", "take", "beat", "publish", "release", "quiet"}
DeviceOps == {"put", "revoke"}
RotateOps == {"freeze", "thaw", "retire"}
AllOps == CellOps \cup DeviceOps \cup RotateOps \cup {"close"}

ASSUME DirectoryAssumption ==
    /\ Owner \in [Sessions -> Devices] /\ Old \subseteq Sessions
    /\ Ops \in [Sessions -> SUBSET AllOps]
    /\ NoDevice \notin Devices
    /\ Window \in Nat /\ Skew \in Nat /\ MaxFence \in Nat \ {0}
    /\ MaxLive \in Nat /\ MaxRetained \in Nat
    /\ MaxClock \in Nat \ {0} /\ MaxRequests \in Nat /\ MaxPings \in Nat

VARIABLES
    clock,      \* the wall clock of devices and hosts
    now,        \* committed directory time
    cell,       \* the cell row
    devices,    \* per device: is it registered, is it revoked, since when
    rotation,   \* identity.Rotation
    sess,       \* per session: the last request evaluated and its answer
    net,        \* requests signed
    pings,      \* signed evidence of open watch sockets (RenewHolds)
    answers,    \* history: answers that said what became of a request
    granted,    \* history: who was given which fence, by which request
    chain       \* history: the versions accepted, as their requests claim

rows == <<cell, devices, rotation>>
dirVars == <<clock, now, cell, devices, rotation, sess, net, pings, answers, granted, chain>>

Time == 0 .. MaxClock
Id(c) == <<c.s, c.n>>
Ids == Sessions \X (1 .. MaxRequests)
Blank == <<>>
Heads == Ids \cup {Blank}

Codes == {"none", "OK", "refused"}
Answer(code) == [code |-> code, fence |-> cell'.fence, head |-> cell'.head]

Request == [s : Sessions, n : 1 .. MaxRequests, seq : 1 .. MaxRequests, at : Time,
            op : AllOps, device : Devices \cup {NoDevice}, fence : 0 .. MaxFence,
            old : Heads, stored : BOOLEAN]

NoSession == [seq |-> 0, n |-> 0, closed |-> FALSE,
              answer |-> [code |-> "none", fence |-> 0, head |-> Blank]]

DirectoryTypeOK ==
    /\ clock \in Time /\ now \in Time
    /\ cell \in RowType(Devices, Heads, 0 .. MaxClock + TTL) /\ cell.fence <= MaxFence
    /\ devices \in [Devices -> [known : BOOLEAN, revoked : BOOLEAN, since : Time]]
    /\ rotation \in [state : {"none", "frozen", "retired"}, by : Devices \cup {NoDevice}]
    /\ \A s \in Sessions :
         sess[s] \in [seq : 0 .. MaxRequests, n : 0 .. MaxRequests, closed : BOOLEAN,
                      answer : [code : Codes, fence : 0 .. MaxFence, head : Heads]]
    /\ net \subseteq Request
    /\ pings \subseteq [device : Devices, fence : 1 .. MaxFence, seen : Time]

Init ==
    /\ clock = 1 /\ now = 1
    /\ cell = NoRow(Blank)
    /\ devices = [d \in Devices |-> [known |-> TRUE, revoked |-> FALSE, since |-> 0]]
    /\ rotation = [state |-> "none", by |-> NoDevice]
    /\ sess = [s \in Sessions |-> NoSession]
    /\ net = {} /\ pings = {} /\ answers = {}
    /\ granted = <<>> /\ chain = <<>>

-----------------------------------------------------------------------------
(* The clients.                                                            *)

Tick ==
    /\ clock < MaxClock
    /\ clock' = clock + 1
    /\ UNCHANGED <<now, rows, sess, net, pings, answers, granted, chain>>

\* A client signs a request from what the directory now shows it.  It numbers
\* the request after the last one the directory has evaluated, so a client
\* that lost its state may use one number for two different requests.
Sign(s, op, target, stored) ==
    LET signed == {c \in net : c.s = s}
        n == Cardinality(signed) + 1 IN
    /\ n <= MaxRequests
    /\ op = "create" => ~Exists(cell)
    /\ op \in CellOps \ {"create"} => Exists(cell)
    /\ op \in {"beat", "publish", "release", "quiet"} => cell.device = Owner[s]
    /\ op = "take" => cell.device # Owner[s]
    /\ net' = net \cup {[s |-> s, n |-> n, seq |-> sess[s].seq + 1, at |-> clock, op |-> op,
                         device |-> IF op \in DeviceOps THEN target ELSE cell.device,
                         fence |-> cell.fence, old |-> cell.head,
                         stored |-> stored \/ s \in Old \/ op \notin {"create", "publish"}]}
    /\ UNCHANGED <<clock, now, rows, sess, pings, answers, granted, chain>>

\* The host of a holder's watch socket signs what it saw.
SignOfLife ==
    /\ Exists(cell) /\ Cardinality(pings) < MaxPings
    /\ pings' = pings \cup {[device |-> cell.device, fence |-> cell.fence, seen |-> clock]}
    /\ UNCHANGED <<clock, now, rows, sess, net, answers, granted, chain>>

-----------------------------------------------------------------------------
(* What the rules make of one request at directory time t.                 *)

Later(a, b) == IF a > b THEN a ELSE b
known(s) == sess[s].seq # 0

\* The old protocol may take the lease without saying what it saw, and then
\* it cannot force.
Expected(c) ==
    IF c.s \in Old /\ c.op = "acquire" THEN {} ELSE {[device |-> c.device, fence |-> c.fence]}

\* Variant: the stale holder is told its head is old before its fence is.
PublishByHead(c, d) == c.old = cell.head /\ cell.device = d
PublishAllowed(c, d) == holder(cell, d, c.fence) /\ c.old = cell.head

\* Variant: the fence is not checked for the last value its type holds.
CellAcceptsUnbounded(c, d, t) ==
    \/ c.op = "create" /\ ~Exists(cell)
    \/ /\ c.op \in {"acquire", "take"} /\ Exists(cell)
       /\ AcquireAllowed(cell, d, t, c.op = "take", Expected(c))
    \/ c.op # "create" /\ Exists(cell) /\ holder(cell, d, c.fence)

\* applyMutation, the cell operations it accepts.
CellAccepts(c, d, t) ==
    \/ c.op = "create" /\ ~Exists(cell) /\ (c.stored \/ c.s \in Old)
    \/ /\ c.op \in {"acquire", "take"} /\ Exists(cell)
       /\ AcquireAllowed(cell, d, t, c.op = "take", Expected(c))
       /\ cell.fence < MaxFence
    \/ c.op \in {"beat", "release", "quiet"} /\ Exists(cell) /\ holder(cell, d, c.fence)
    \/ c.op = "publish" /\ Exists(cell) /\ PublishAllowed(c, d) /\ (c.stored \/ c.s \in Old)

CellAfter(c, d, t) ==
    CASE c.op = "create" -> Created(d, Id(c), t)
      [] c.op \in {"acquire", "take"} -> Acquire(cell, d, t)
      [] c.op = "beat" -> Heartbeat(cell, t)
      [] c.op = "publish" -> PublishTo(cell, Id(c), t)
      [] c.op = "release" -> ReleaseOf(cell, t)
      [] c.op = "quiet" -> ReleaseOf(cell, 0)

\* RevokeOf and Stamped: nobody revokes itself, no write brings a device back.
DeviceAccepts(c, d) ==
    c.op = "revoke" => devices[c.device].known /\ c.device # d

\* Variant: a device that announces itself again is a new device.
StampedAnew(c, t) ==
    [devices EXCEPT ![c.device] = [known |-> TRUE, revoked |-> c.op = "revoke", since |-> t]]

Stamped(c, t) ==
    [devices EXCEPT ![c.device] =
        [known |-> TRUE, revoked |-> @.revoked \/ c.op = "revoke",
         since |-> IF c.op = "revoke" /\ ~@.revoked THEN t ELSE @.since]]

\* Rotate: one device moves the identity, and only a move not yet retired is undone.
RotateAccepts(c, d) ==
    \/ c.op = "freeze" /\ rotation.state = "none"
    \/ c.op \in {"freeze", "retire"} /\ rotation.state # "none" /\ rotation.by = d
    \/ c.op = "thaw" /\ rotation.state # "retired"

RotateAfter(c, d) ==
    CASE c.op = "freeze" /\ rotation.state = "none" -> [state |-> "frozen", by |-> d]
      [] c.op = "freeze" /\ rotation.state # "none" -> rotation
      [] c.op = "thaw" -> [state |-> "none", by |-> NoDevice]
      [] c.op = "retire" -> [rotation EXCEPT !.state = "retired"]

\* Variant: a directory being moved still takes device writes.
RotatedCellsOnly(c) == rotation.state # "none" /\ c.op \in CellOps
Rotated(c) == rotation.state # "none" /\ c.op \notin RotateOps \cup {"close"}

Accepts(c, d, t) ==
    /\ ~Rotated(c)
    /\ \/ c.op \in CellOps /\ CellAccepts(c, d, t)
       \/ c.op \in DeviceOps /\ DeviceAccepts(c, d)
       \/ c.op \in RotateOps /\ RotateAccepts(c, d)
       \/ c.op = "close"

\* The rows and the history after an accepted request.
Effect(c, d, t) ==
    /\ cell' = IF c.op \in CellOps THEN CellAfter(c, d, t) ELSE cell
    /\ devices' = IF c.op \in DeviceOps THEN Stamped(c, t) ELSE devices
    /\ rotation' = IF c.op \in RotateOps THEN RotateAfter(c, d) ELSE rotation
    /\ granted' = IF c.op \in {"create", "acquire", "take"}
                  THEN Append(granted, [by |-> d, req |-> Id(c)]) ELSE granted
    /\ chain' = IF c.op \in {"create", "publish"}
                THEN Append(chain, [by |-> d, fence |-> IF c.op = "create" THEN 1 ELSE c.fence,
                                    old |-> c.old, head |-> Id(c)])
                ELSE chain

-----------------------------------------------------------------------------
(* evaluateCommand.                                                        *)

Revoked(c) == devices[Owner[c.s]].revoked

\* Variant: a number the session has passed is evaluated like a new one.
InOrderLoose(c) == c.seq <= sess[c.s].seq + 1 /\ ~sess[c.s].closed

\* The session takes the number after its last one; a new one starts at 1.
InOrder(c) == c.seq = sess[c.s].seq + 1 /\ ~sess[c.s].closed

SameRequest(c) == known(c.s) /\ c.seq = sess[c.s].seq /\ c.n = sess[c.s].n /\ ~sess[c.s].closed

\* A session nobody closed counts as live; a closed one is kept for ever.
SessionRoom(s) ==
    known(s) \/ /\ Cardinality({x \in Sessions : known(x) /\ ~sess[x].closed}) < MaxLive
                /\ Cardinality({x \in Sessions : known(x)}) < MaxRetained

\* The old protocol has no session: its signed time bounds how late it may come.
Fresh(c, t) == c.at + Skew >= t

Admitted(c, t) ==
    /\ ~Revoked(c)
    /\ IF c.s \in Old THEN Fresh(c, t) ELSE InOrder(c) /\ SessionRoom(c.s)

InSession(req) == req[1] \notin Old
Told(c, code) ==
    answers' = IF InSession(Id(c)) THEN answers \cup {[req |-> Id(c), answer |-> Answer(code)]}
               ELSE answers

\* Saved whatever the answer is; an old request saves nothing.
Save(c, code) ==
    sess' = IF c.s \in Old THEN sess
            ELSE [sess EXCEPT ![c.s] = [seq |-> c.seq, n |-> c.n,
                                        closed |-> c.op = "close", answer |-> Answer(code)]]

Evaluate(c) ==
    LET d == Owner[c.s]
        t == Later(now, c.at) IN
    /\ Admitted(c, t)
    /\ now' = t
    /\ \/ Accepts(c, d, t) /\ Effect(c, d, t) /\ Save(c, "OK") /\ Told(c, "OK")
       \/ /\ ~Accepts(c, d, t)
          /\ UNCHANGED <<rows, granted, chain>>
          /\ Save(c, "refused") /\ Told(c, "refused")
    /\ UNCHANGED <<clock, net, pings>>

\* A retry is answered with the saved bytes and changes nothing.
Replay(c) ==
    /\ ~Revoked(c) /\ c.s \notin Old /\ SameRequest(c)
    /\ answers' = answers \cup {[req |-> Id(c), answer |-> sess[c.s].answer]}
    /\ UNCHANGED <<clock, now, rows, sess, net, pings, granted, chain>>

\* Revoked, out of order, closed, no room: nothing is written.
TurnAway(c) ==
    /\ ~Admitted(c, Later(now, c.at))
    /\ Revoked(c) \/ c.s \in Old \/ ~SameRequest(c)
    /\ UNCHANGED dirVars

\* Variant: the evidence of a revoked device still counts.
RenewAcceptsRevoked(p, t) ==
    /\ rotation.state = "none" /\ t - p.seen <= Window
    /\ holder(cell, p.device, p.fence)
    /\ cell.expires # 0 /\ p.seen > cell.released

\* renewHolds' refusals.
RenewAccepts(p, t) ==
    /\ rotation.state = "none" /\ t - p.seen <= Window
    /\ ~devices[p.device].revoked
    /\ holder(cell, p.device, p.fence)
    /\ cell.expires # 0 /\ p.seen > cell.released

\* RenewHolds: signed by the service, in no session; any copy may come late.
RenewHolds(p) ==
    LET t == Later(now, p.seen) IN
    /\ now' = t
    /\ cell' = IF RenewAccepts(p, t) THEN Renewed(cell, p.seen, t) ELSE cell
    /\ UNCHANGED <<clock, devices, rotation, sess, net, pings, answers, granted, chain>>

\* AdvanceTime and DeviceSeen: a witness of the clock, frozen directory or not.
AdvanceTime ==
    /\ now < clock
    /\ now' = clock
    /\ UNCHANGED <<clock, rows, sess, net, pings, answers, granted, chain>>

Next ==
    \/ Tick \/ AdvanceTime \/ SignOfLife
    \/ \E s \in Sessions : \E op \in Ops[s], d \in Devices, u \in BOOLEAN : Sign(s, op, d, u)
    \/ \E c \in net : Evaluate(c) \/ Replay(c) \/ TurnAway(c)
    \/ \E p \in pings : RenewHolds(p)

Spec == Init /\ [][Next]_dirVars

-----------------------------------------------------------------------------
(* Properties.                                                             *)

\* The directory implements the fenced cell: fences are given out one by one,
\* and every accepted version was written by the device that held the fence
\* its request names, on top of the version before it.
Fenced == INSTANCE FencedCell WITH
    Owners <- Devices, Versions <- Ids,
    granted <- [i \in DOMAIN granted |-> granted[i].by]
FencedCellSpec == Fenced!Spec

TookEffect(req) == \/ \E i \in DOMAIN granted : granted[i].req = req
                   \/ \E i \in DOMAIN chain : chain[i].head = req

\* What a session is told of a request stays true: every retry answered from
\* the session repeats the first answer; a request told "OK" has taken effect
\* and one that was refused never will.
AnswersAgree ==
    \A a \in answers :
        /\ \A b \in answers : b.req = a.req => b.answer = a.answer
        /\ \A c \in net : Id(c) = a.req /\ c.op \in {"create", "acquire", "take", "publish"} =>
             (TookEffect(a.req) <=> a.answer.code = "OK")

\* The lease of a revoked device runs out: neither its requests still under
\* way, nor a retry, nor evidence of its socket keeps the cell from others.
RevokedRunsOut ==
    \A d \in Devices : devices[d].revoked /\ cell.device = d =>
        cell.expires <= devices[d].since + TTL

\* Revocation is for good.
RevokedStays ==
    [][\A d \in Devices : devices[d].revoked => devices[d]' = devices[d]]_dirVars

\* While an identity is being moved the directory stands still: what the mover
\* copied is what it retires, and a retired identity stays retired.
FrozenStands ==
    [][rotation.state # "none" =>
         /\ cell' = cell /\ devices' = devices
         /\ rotation.state = "retired" => rotation' = rotation]_dirVars
=============================================================================
