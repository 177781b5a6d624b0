----------------------------- MODULE MCHandoff -----------------------------
EXTENDS Handoff

\* A fence is only ever compared with 0 and with the fence that stands in the
\* row, so all that matters of one is whether it still stands: states that
\* agree on that have the same futures, however many grants went before.
Standing(f, c) == IF f = 0 THEN "none" ELSE IF f = row[c].fence THEN "stands" ELSE "past"

Fenceless ==
    <<[c \in Cells |-> [row[c] EXCEPT !.fence = Exists(row[c])]],
      [d \in Devices |->
         [proc[d] EXCEPT !.fence = Standing(@, proc[d].id),
                         !.call = [@ EXCEPT !.fence = Standing(@, proc[d].id)],
                         !.asked = {proc[d].fence = f : f \in @}]],
      past, stored, disk, faults, overwritten>>
=============================================================================
