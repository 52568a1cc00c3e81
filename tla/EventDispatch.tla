---------------------------- MODULE EventDispatch ----------------------------
(***************************************************************************)
(* How the client of pkg/codexrpc hands the events of its read loop to its *)
(* subscribers, and the ring of recent events.  Notifications and requests *)
(* have a registry, a lock and a ring each, alike in everything: Kind is   *)
(* the one or the other.                                                   *)
(*                                                                         *)
(* Any goroutine, a running handler included, may subscribe and            *)
(* unsubscribe between the steps of a dispatch.  An unsubscribe function   *)
(* remembers the index of its slot and empties it.                         *)
(***************************************************************************)
EXTENDS Integers, Sequences, SequencesExt

CONSTANTS
    Kind,       \* "notification", "request"
    Method,     \* methods of events
    RingSize,   \* RingSize[k]: size of the ring of kind k
    MaxSubs,    \* bound: subscriptions made
    MaxEvents   \* bound: events received

AnyMethod == "*"
Pattern == Method \cup {AnyMethod}

ASSUME MethodAssumption == AnyMethod \notin Method
ASSUME RingAssumption   == RingSize \in [Kind -> Nat \ {0}]

VARIABLES
    slots,      \* slots[k][p]: the handlers registered for p, Nil where emptied
    sub,        \* sub[s]: the s-th subscription: its kind, pattern and slot
    active,     \* history: the subscriptions not yet ended
    ring,       \* ring[k]: the recent events
    received,   \* history: all events, by kind
    reader,     \* the read loop: where it is, and the event it dispatches
    todo,       \* handlers still to run, from the snapshot
    called,     \* history: the handlers run for this event
    due         \* history: the subscriptions it is for: to its method, to any

vars == <<slots, sub, active, ring, received, reader, todo, called, due>>

Nil  == 0
Subs == DOMAIN sub

Init ==
    /\ slots = [k \in Kind |-> [p \in Pattern |-> <<>>]]
    /\ sub = <<>>
    /\ active = {}
    /\ ring = [k \in Kind |-> <<>>]
    /\ received = [k \in Kind |-> <<>>]
    /\ reader = [at |-> "recv"]
    /\ todo = <<>> /\ called = <<>> /\ due = <<{}, {}>>

-----------------------------------------------------------------------------
(* OnNotification, OnRequest and the functions they return.                *)

Subscribe(k, p) ==
    /\ Len(sub) < MaxSubs
    /\ LET s == Len(sub) + 1 IN
         /\ slots' = [slots EXCEPT ![k][p] = Append(@, s)]
         /\ sub' = Append(sub, [kind |-> k, pattern |-> p, slot |-> Len(slots[k][p]) + 1])
         /\ active' = active \cup {s}
    /\ UNCHANGED <<ring, received, reader, todo, called, due>>

\* Mutation: the slot is cut out, and the later ones move up.
UnsubscribeCompacts(s) ==
    /\ LET x == sub[s] IN
         slots' = [slots EXCEPT ![x.kind][x.pattern] =
                      IF x.slot <= Len(@) THEN RemoveAt(@, x.slot) ELSE @]
    /\ active' = active \ {s}
    /\ UNCHANGED <<sub, ring, received, reader, todo, called, due>>

\* May be called more than once.
Unsubscribe(s) ==
    /\ LET x == sub[s] IN
         slots' = [slots EXCEPT ![x.kind][x.pattern] =
                      IF x.slot <= Len(@) THEN [@ EXCEPT ![x.slot] = Nil] ELSE @]
    /\ active' = active \ {s}
    /\ UNCHANGED <<sub, ring, received, reader, todo, called, due>>

-----------------------------------------------------------------------------
(* dispatchNotification, dispatchRequest.                                  *)

\* Mutation: the ring is cut before the event is added.
RecordedLate(k, e) ==
    LET old == IF Len(ring[k]) > RingSize[k] THEN Tail(ring[k]) ELSE ring[k] IN Append(old, e)

\* The ring of kind k with event e: recordNotification, recordRequest.
Recorded(k, e) ==
    LET all == Append(ring[k], e)
    IN IF Len(all) > RingSize[k] THEN SubSeq(all, Len(all) - RingSize[k] + 1, Len(all)) ELSE all

Record(k, m) ==
    /\ reader.at = "recv"
    /\ MapThenSumSet(LAMBDA j : Len(received[j]), Kind) < MaxEvents
    /\ LET e == [method |-> m, seq |-> Len(received[k]) + 1] IN
         /\ ring' = [ring EXCEPT ![k] = Recorded(k, e)]
         /\ received' = [received EXCEPT ![k] = Append(@, e)]
    /\ reader' = [at |-> "snapshot", kind |-> k, method |-> m]
    /\ called' = <<>> /\ due' = <<{}, {}>>
    /\ UNCHANGED <<slots, sub, active, todo>>

\* Mutation: "*" is taken as a fallback.
HandlersFallback(k, m) == IF slots[k][m] = <<>> THEN slots[k][AnyMethod] ELSE slots[k][m]

\* The copy made under the read lock: specific handlers first.
Handlers(k, m) == slots[k][m] \o slots[k][AnyMethod]

\* The subscriptions in force for a pattern; they are numbered by age.
InForce(k, p) == {s \in active : sub[s].kind = k /\ sub[s].pattern = p}

Snapshot ==
    /\ reader.at = "snapshot"
    /\ todo' = Handlers(reader.kind, reader.method)
    /\ due' = <<InForce(reader.kind, reader.method), InForce(reader.kind, AnyMethod)>>
    /\ reader' = [reader EXCEPT !.at = "run"]
    /\ UNCHANGED <<slots, sub, active, ring, received, called>>

\* The next handler runs, on the read loop; empty slots are passed over.
RunHandler ==
    /\ reader.at = "run" /\ todo # <<>>
    /\ todo' = Tail(todo)
    /\ called' = IF Head(todo) = Nil THEN called ELSE Append(called, Head(todo))
    /\ UNCHANGED <<slots, sub, active, ring, received, reader, due>>

Dispatched ==
    /\ reader.at = "run" /\ todo = <<>>
    /\ reader' = [at |-> "recv"]
    /\ UNCHANGED <<slots, sub, active, ring, received, todo, called, due>>

Next ==
    \/ \E k \in Kind, p \in Pattern : Subscribe(k, p)
    \/ \E s \in Subs : Unsubscribe(s)
    \/ \E k \in Kind, m \in Method : Record(k, m)
    \/ Snapshot \/ RunHandler \/ Dispatched

Spec == Init /\ [][Next]_vars

-----------------------------------------------------------------------------
(* What subscribers may rely on.                                           *)

Held(q) == {i \in DOMAIN q : q[i] # Nil}

\* An unsubscribe function ends its own subscription and no other, however
\* often it is called and whatever was subscribed and unsubscribed meanwhile:
\* the registry holds exactly the subscriptions in force, oldest first.
RegistryExact ==
    \A k \in Kind, p \in Pattern :
        LET q == slots[k][p] IN
        /\ {q[i] : i \in Held(q)} = InForce(k, p)
        /\ \A i, j \in Held(q) : i < j => q[i] < q[j]

\* The order of the calls: the subscriptions to the method of the event before
\* those to any, the older before the younger.
Before(x, y) == \/ x \in due[1] /\ y \in due[2]
                \/ x < y /\ \E part \in {due[1], due[2]} : {x, y} \subseteq part

\* An event goes to each subscription in force when its handlers were copied,
\* once, in order; subscribing and unsubscribing during the dispatch neither
\* adds nor drops a call.
DeliveredExactly ==
    reader.at # "snapshot" =>
        LET run == called \o todo IN
        /\ {run[i] : i \in Held(run)} = due[1] \cup due[2]
        /\ \A i, j \in Held(run) : i < j => Before(run[i], run[j])

\* The ring holds the newest events, as many as it has room for, in order.
RingIsTail ==
    \A k \in Kind :
        LET all == received[k]
            kept == ring[k]
        IN /\ Len(kept) = IF Len(all) < RingSize[k] THEN Len(all) ELSE RingSize[k]
           /\ \A i \in 1 .. Len(kept) : kept[i] = all[Len(all) - Len(kept) + i]
=============================================================================
