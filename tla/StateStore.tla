------------------------------ MODULE StateStore ------------------------------
(***************************************************************************)
(* The projected state of pkg/state: the projector turns app-server events *)
(* into updates of a store of threads, their turns and their items, each   *)
(* level bounded.  Every store operation is one critical section of mu, so *)
(* an event is one step; events come in any order, repeated or late.       *)
(***************************************************************************)
EXTENDS Naturals, Sequences, FiniteSets, SequencesExt

CONSTANTS
    ThreadID, TurnID, ItemID,                        \* ids events carry
    MaxThreads, MaxTurnsPerThread, MaxItemsPerTurn,  \* Config
    Status,     \* non-empty status strings, with "inProgress" and "completed"
    Diff,       \* diffs, the empty one included
    Events      \* the events that may arrive

None == ""      \* asString of a field that is absent or not a string

\* "thread/updated" stands for thread/started too, and "turn/updated" for
\* turn/started and turn/completed: the projector treats them alike.
Methods == {"thread/updated", "thread/tokenUsage/updated", "turn/updated",
            "turn/diff/updated", "turn/plan/updated",
            "item/started", "item/completed", "item/updated"}

\* The parameters of an event, as the projector reads them:
\*   id        thread.id, or id (thread events)     threadId  threadId
\*   turnId    turn.id, or turnId                   itemId    item.id
\*   status    status of the object                 payload   diff, plan or usage
Event == [method : Methods,
          id : ThreadID \cup {None}, threadId : ThreadID \cup {None},
          turnId : TurnID \cup {None}, itemId : ItemID \cup {None},
          status : Status \cup {None}, payload : Diff]

ASSUME BoundsAssumption == {MaxThreads, MaxTurnsPerThread, MaxItemsPerTurn} \subseteq Nat \ {0}
ASSUME EventsAssumption == Events \subseteq Event

VARIABLES
    store,      \* the table of threads
    last        \* history: the events applied last, <<>> or one

vars == <<store, last>>

-----------------------------------------------------------------------------
(* A level of the store: a map of records and their ids in order of         *)
(* creation.                                                               *)

EmptyTable == [map |-> <<>>, order |-> <<>>]
Keys(tab)  == DOMAIN tab.map

\* Mutations of Evicted: one record too many leaves; the newest one leaves.
EvictedTooMany(order, max) ==
    IF Len(order) > max THEN ToSet(SubSeq(order, 1, Len(order) - max + 1)) ELSE {}
EvictedNewest(order, max) ==
    IF Len(order) > max THEN ToSet(SubSeq(order, max + 1, Len(order))) ELSE {}

\* The ids that enforceThreadBoundLocked and its siblings drop from the front.
Evicted(order, max) ==
    IF Len(order) > max THEN ToSet(SubSeq(order, 1, Len(order) - max)) ELSE {}

\* Mutation of Ensure: an access moves the id to the back but leaves it in front.
EnsureTouches(tab, k, blank, max) ==
    LET order == Append(tab.order, k)
        gone  == Evicted(order, max)
    IN [map   |-> [j \in (Keys(tab) \cup {k}) \ gone |->
                      IF j \in Keys(tab) THEN tab.map[j] ELSE blank],
        order |-> SubSeq(order, Cardinality(gone) + 1, Len(order))]

\* ensureThreadLocked, ensureTurnLocked, and the first half of UpsertItem: the
\* record of k, created at the end of the order when there is none.
Ensure(tab, k, blank, max) ==
    IF k \in Keys(tab) THEN tab
    ELSE LET order == Append(tab.order, k)
             gone  == Evicted(order, max)
         IN [map   |-> [j \in (Keys(tab) \cup {k}) \ gone |-> IF j = k THEN blank ELSE tab.map[j]],
             order |-> SubSeq(order, Cardinality(gone) + 1, Len(order))]

\* The record of k after f; a record evicted meanwhile is no longer reachable.
Update(tab, k, rec) == IF k \in Keys(tab) THEN [tab EXCEPT !.map[k] = rec] ELSE tab

BlankThread(t)     == [id |-> t, status |-> None, usage |-> None, turns |-> EmptyTable]
BlankTurn(t, u)    == [id |-> u, threadId |-> t, status |-> None, diff |-> None,
                       plan |-> None, items |-> EmptyTable]
BlankItem(t, u, i) == [id |-> i, threadId |-> t, turnId |-> u, status |-> None]

\* A non-empty value overwrites, an empty one does not.
Merge(old, new) == IF new = None THEN old ELSE new

-----------------------------------------------------------------------------
(* The operations of the store.                                            *)

WithThread(s, t)  == Ensure(s, t, BlankThread(t), MaxThreads)
WithTurn(th, t, u) == [th EXCEPT !.turns = Ensure(@, u, BlankTurn(t, u), MaxTurnsPerThread)]

UpsertThread(s, t, status) ==
    LET s1 == WithThread(s, t)
    IN Update(s1, t, [s1.map[t] EXCEPT !.status = Merge(@, status)])

SetThreadTokenUsage(s, t, usage) ==
    LET s1 == WithThread(s, t)
    IN Update(s1, t, [s1.map[t] EXCEPT !.usage = usage])

\* The operations on a turn ensure thread and turn, then change the turn.
TurnOf(s, t, u) == WithTurn(WithThread(s, t).map[t], t, u).turns.map[u]

PutTurn(s, t, u, turn) ==
    LET s1 == WithThread(s, t)
        th == WithTurn(s1.map[t], t, u)
    IN Update(s1, t, [th EXCEPT !.turns = Update(@, u, turn)])

UpsertTurn(s, t, u, status) ==
    PutTurn(s, t, u, [TurnOf(s, t, u) EXCEPT !.threadId = t, !.status = Merge(@, status)])

SetTurnDiff(s, t, u, diff) == PutTurn(s, t, u, [TurnOf(s, t, u) EXCEPT !.diff = diff])

SetTurnPlan(s, t, u, plan) == PutTurn(s, t, u, [TurnOf(s, t, u) EXCEPT !.plan = plan])

UpsertItem(s, t, u, i, status) ==
    LET turn  == TurnOf(s, t, u)
        items == Ensure(turn.items, i, BlankItem(t, u, i), MaxItemsPerTurn)
        item  == [items.map[i] EXCEPT !.threadId = t, !.turnId = u, !.status = Merge(@, status)]
    IN PutTurn(s, t, u, [turn EXCEPT !.items = Update(items, i, item)])

-----------------------------------------------------------------------------
(* The projector.                                                          *)

\* The status of an item event that carries none.
ItemStatus(e) ==
    CASE e.status # None               -> e.status
      [] e.method = "item/started"     -> "inProgress"
      [] e.method = "item/completed"   -> "completed"
      [] OTHER                         -> None

\* The store after event e: unchanged when an id is missing.
Applied(e, s) ==
    CASE e.method = "thread/updated" /\ e.id # None ->
           UpsertThread(s, e.id, e.status)
      [] e.method = "thread/tokenUsage/updated" /\ e.threadId # None /\ e.payload # None ->
           SetThreadTokenUsage(s, e.threadId, e.payload)
      [] e.method = "turn/updated" /\ e.threadId # None /\ e.turnId # None ->
           UpsertTurn(s, e.threadId, e.turnId, e.status)
      [] e.method = "turn/diff/updated" /\ e.threadId # None /\ e.turnId # None ->
           SetTurnDiff(s, e.threadId, e.turnId, e.payload)
      [] e.method = "turn/plan/updated" /\ e.threadId # None /\ e.turnId # None ->
           SetTurnPlan(s, e.threadId, e.turnId, e.payload)
      [] e.method \in {"item/started", "item/completed", "item/updated"}
           /\ e.threadId # None /\ e.turnId # None /\ e.itemId # None ->
           UpsertItem(s, e.threadId, e.turnId, e.itemId, ItemStatus(e))
      [] OTHER -> s

Apply(e) == store' = Applied(e, store) /\ last' = <<e>>

Init == store = EmptyTable /\ last = <<>>
Next == \E e \in Events : Apply(e)
Spec == Init /\ [][Next]_vars
-----------------------------------------------------------------------------
(* What the store promises.                                                *)

TableOK(tab, max) ==
    /\ Keys(tab) = ToSet(tab.order)
    /\ IsInjective(tab.order)
    /\ Len(tab.order) <= max

TurnFits(turn, t, u) ==
    /\ turn.id = u /\ turn.threadId = t
    /\ TableOK(turn.items, MaxItemsPerTurn)
    /\ \A i \in Keys(turn.items) :
         LET item == turn.items.map[i] IN
         item.id = i /\ item.turnId = u /\ item.threadId = t

ThreadFits(th, t) ==
    /\ th.id = t
    /\ TableOK(th.turns, MaxTurnsPerThread)
    /\ \A u \in Keys(th.turns) : TurnFits(th.turns.map[u], t, u)

\* At every level the order lists each record once and no other, and the
\* configured bound holds, whatever events came.
StoreOK ==
    /\ TableOK(store, MaxThreads)
    /\ \A t \in Keys(store) : ThreadFits(store.map[t], t)

Has(s, t, u, i) ==
    /\ t \in Keys(s)
    /\ u # None => /\ u \in Keys(s.map[t].turns)
                   /\ i # None => i \in Keys(s.map[t].turns.map[u].items)

\* The item that an item/started or item/completed event writes is in the store
\* when the event has been applied, with its status: such an event goes through
\* all three levels, and enforcing the bounds drops neither the item nor the turn
\* or thread just created for it, on full levels included.
WriteLands ==
    \A e \in ToSet(last) :
        e.method \in {"item/started", "item/completed"} /\ None \notin {e.threadId, e.turnId, e.itemId}
        => /\ Has(store, e.threadId, e.turnId, e.itemId)
           /\ store.map[e.threadId].turns.map[e.turnId].items.map[e.itemId].status = ItemStatus(e)

\* A record leaves only to make room: its level was full, a new id was created
\* in it, and it was the oldest by creation.
OldestLeaves(old, new, max) ==
    \A k \in Keys(old) \ Keys(new) :
        /\ Len(old.order) = max /\ old.order[1] = k
        /\ Keys(new) \ Keys(old) # {}
TurnsEvict(th, new) ==
    /\ OldestLeaves(th.turns, new.turns, MaxTurnsPerThread)
    /\ \A u \in Keys(th.turns) \cap Keys(new.turns) :
         OldestLeaves(th.turns.map[u].items, new.turns.map[u].items, MaxItemsPerTurn)
StoreEvicts(s, new) ==
    /\ OldestLeaves(s, new, MaxThreads)
    /\ \A t \in Keys(s) \cap Keys(new) : TurnsEvict(s.map[t], new.map[t])
EvictsOldest == [][StoreEvicts(store, store')]_vars
=============================================================================
