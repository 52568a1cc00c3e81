----------------------------- MODULE MCStateStore -----------------------------
(* Instances of StateStore for TLC.                                        *)
EXTENDS StateStore

NoEvent == [method |-> "thread/updated", id |-> None, threadId |-> None, turnId |-> None,
            itemId |-> None, status |-> None, payload |-> None]

On(m, t, u, i, s, d) == [NoEvent EXCEPT !.method = m, !.threadId = t, !.turnId = u,
                                         !.itemId = i, !.status = s, !.payload = d]

\* Every kind of event but item/updated; usage, diffs and plans are written
\* once, diffs and plans on one turn only, and an event without an id comes too.
AllEvents ==
    {NoEvent} \cup {[NoEvent EXCEPT !.id = t] : t \in ThreadID}
    \cup {On("thread/tokenUsage/updated", t, None, None, None, "d") : t \in ThreadID}
    \cup {On("turn/updated", t, u, None, "completed", "") : t \in ThreadID, u \in TurnID}
    \cup {On(m, t, "u1", None, None, "d") :
            m \in {"turn/plan/updated", "turn/diff/updated"}, t \in ThreadID}
    \cup {On(m, t, u, i, None, "") :
            m \in {"item/started", "item/completed"}, t \in ThreadID, u \in TurnID, i \in ItemID}
=============================================================================
