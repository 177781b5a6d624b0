----------------------------- MODULE FencedCell -----------------------------
(***************************************************************************)
(* What the directory promises about the ownership of one conversation (a  *)
(* cell).  Ownership is granted again and again, each grant with the next  *)
(* fence number; versions are written one on top of the other, each by the *)
(* owner of the fence that is current when it is written.  Nothing here    *)
(* speaks of time, sessions, retries or processes: Directory (by device)   *)
(* and Assignments (by process) are shown to implement this specification. *)
(***************************************************************************)
EXTENDS Naturals, Sequences

CONSTANTS
    Owners,     \* devices and workers that may own the conversation
    Versions,   \* heads a writer may publish
    Blank       \* the head before the first version

VARIABLES
    granted,    \* granted[f]: who was given fence f
    chain       \* the versions written, oldest first

cellVars == <<granted, chain>>

fence == Len(granted)
HeadOf(log) == IF log = <<>> THEN Blank ELSE log[Len(log)].head

\* One version: who wrote it, under which fence, on top of which version.
Entry(by, f, old, head) == [by |-> by, fence |-> f, old |-> old, head |-> head]

Init == granted = <<>> /\ chain = <<>>

\* The first grant comes with the first version: the creator publishes it.
Create(d, h) ==
    /\ granted = <<>>
    /\ granted' = <<d>>
    /\ chain' = <<Entry(d, 1, Blank, h)>>

Grant(d) ==
    /\ granted # <<>>
    /\ granted' = Append(granted, d)
    /\ UNCHANGED chain

Write(h) ==
    /\ granted # <<>>
    /\ chain' = Append(chain, Entry(granted[fence], fence, HeadOf(chain), h))
    /\ UNCHANGED granted

Next ==
    \/ \E d \in Owners, h \in Versions : Create(d, h)
    \/ \E d \in Owners : Grant(d)
    \/ \E h \in Versions : Write(h)

Spec == Init /\ [][Next]_cellVars
=============================================================================
