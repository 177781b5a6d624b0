----------------------------- MODULE LeaseRules -----------------------------
(***************************************************************************)
(* The lease rules of one cell row (internal/clusterstate/rules.go): pure  *)
(* functions of the row, the caller and the directory time.  A rule of the *)
(* code returns the changed row or an error; here the error is a guard     *)
(* (holder, AcquireAllowed) and the changed row an operator.  Title, size, *)
(* class, frames and the pending count are carried by the row and read by  *)
(* no rule, so they are left out.                                          *)
(***************************************************************************)
EXTENDS Naturals

CONSTANTS
    NoDevice,   \* the lease device of a row nobody has written
    TTL         \* LeaseTTLMillis

ASSUME TTLAssumption == TTL \in Nat \ {0}

\* An absent row: no fence has been given out.
NoRow(blank) ==
    [device |-> NoDevice, fence |-> 0, expires |-> 0, released |-> 0, head |-> blank]

RowType(owners, heads, times) ==
    [device : owners \cup {NoDevice}, fence : Nat, expires : times,
     released : times, head : heads]

Exists(c) == c.fence # 0
Live(c, now) == c.expires > now

\* holder: the device still holds the lease at this fence.
holder(c, d, f) == c.fence = f /\ c.device = d

\* Acquire's two refusals.  expect is the lease the caller saw, or {} when
\* the old protocol sent none.
AcquireAllowed(c, d, now, force, expect) ==
    /\ \A e \in expect : c.device = e.device /\ c.fence = e.fence
    /\ force \/ ~Live(c, now) \/ c.device = d

\* Acquire: every grant raises the fence, the holder's own included.
Acquire(c, d, now) ==
    [c EXCEPT !.device = d, !.fence = @ + 1, !.expires = now + TTL, !.released = 0]

\* Heartbeat: an expired lease that nobody took may be renewed.
Heartbeat(c, now) == [c EXCEPT !.expires = now + TTL]

\* PublishTo: the head moves and the lease is renewed.
PublishTo(c, head, now) == [c EXCEPT !.head = head, !.expires = now + TTL]

\* ReleaseOf: the fence and the device stay in the row.
ReleaseOf(c, at) == [c EXCEPT !.expires = 0, !.released = at]

\* Created: the creator holds fence 1.
Created(d, head, now) ==
    [device |-> d, fence |-> 1, expires |-> now + TTL, released |-> 0, head |-> head]

\* renewHolds, one item: the evidence fixes the expiry, not its delivery.
Renewed(c, seen, now) ==
    IF seen + TTL > c.expires THEN [c EXCEPT !.expires = seen + TTL] ELSE c
=============================================================================
