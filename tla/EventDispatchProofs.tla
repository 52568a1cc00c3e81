-------------------------- MODULE EventDispatchProofs --------------------------
(***************************************************************************)
(* The rings of recent events, the registry and the delivery of an event,  *)
(* for any sizes and any number of events and subscriptions.               *)
(***************************************************************************)
EXTENDS EventDispatch, SequenceTheorems, TLAPS

Entry == [method : Method, seq : Nat]

RingTyped ==
    /\ received \in [Kind -> Seq(Entry)]
    /\ ring \in [Kind -> Seq(Entry)]

\* One ring.
IsTail(kept, all, size) ==
    /\ Len(kept) = IF Len(all) < size THEN Len(all) ELSE size
    /\ \A i \in 1 .. Len(kept) : kept[i] = all[Len(all) - Len(kept) + i]

LEMMA RingIs == RingIsTail <=> \A k \in Kind : IsTail(ring[k], received[k], RingSize[k])
BY DEF RingIsTail, IsTail

LEMMA Shift ==
    /\ \A a, b \in Int : a - b + b = a
    /\ \A a, b, c, d, i \in Int : a = c + 1 /\ b = d + 1 => a - b + i = c - d + i
    /\ \A a, b, d, i \in Int : b = d + 1 => a - b + (i + 1) = a - d + i
OBVIOUS

Extends(long, short) ==
    Len(long) = Len(short) + 1 /\ \A i \in 1 .. Len(short) : long[i] = short[i]
Cut(short, long, size) ==
    IF Len(long) > size
    THEN Len(short) = Len(long) - 1 /\ \A i \in 1 .. Len(short) : short[i] = long[i + 1]
    ELSE short = long

\* Adding an event and cutting what is too much keeps the newest ones: `more'
\* and `now' are `kept' and `all' with one event more.
LEMMA CutIsTail ==
    ASSUME NEW S, NEW all \in Seq(S), NEW kept \in Seq(S), NEW now \in Seq(S), NEW more \in Seq(S),
           NEW next \in Seq(S), NEW size \in Nat \ {0}, IsTail(kept, all, size),
           Extends(now, all), Extends(more, kept), Cut(next, more, size),
           now[Len(now)] = more[Len(more)]
    PROVE  IsTail(next, now, size)
<1>1. /\ Len(all) \in Nat /\ Len(kept) \in Nat /\ Len(kept) <= Len(all) /\ Len(kept) <= size
      /\ Len(kept) = IF Len(all) < size THEN Len(all) ELSE size
  BY DEF IsTail
<1>. /\ Len(now) \in Nat /\ Len(more) \in Nat /\ Len(next) \in Nat
     /\ Len(now) = Len(all) + 1 /\ Len(more) = Len(kept) + 1
     /\ \A i \in 1 .. Len(all) : now[i] = all[i]
     /\ \A i \in 1 .. Len(kept) : more[i] = kept[i]
  BY DEF Extends
<1>2. ASSUME NEW i \in 1 .. Len(more) PROVE more[i] = now[Len(now) - Len(more) + i]
  <2>1. CASE i = Len(more)
    <3>1. Len(now) - Len(more) + i = Len(now)
      BY <2>1, Shift
    <3> QED  BY <2>1, <3>1
  <2>2. CASE i # Len(more)
    <3>1. i \in 1 .. Len(kept) /\ Len(all) - Len(kept) + i \in 1 .. Len(all)
      BY <1>1, <2>2
    <3>2. Len(now) - Len(more) + i = Len(all) - Len(kept) + i
      BY <1>1, Shift
    <3>3. kept[i] = all[Len(all) - Len(kept) + i]
      BY <3>1 DEF IsTail
    <3> QED  BY <3>1, <3>2, <3>3
  <2> QED  BY <2>1, <2>2
<1>3. CASE Len(more) > size
  <2>1. Len(next) = size /\ Len(kept) = size /\ ~(Len(now) < size)
    BY <1>1, <1>3 DEF Cut
  <2>2. ASSUME NEW i \in 1 .. Len(next) PROVE next[i] = now[Len(now) - Len(next) + i]
    <3>1. i + 1 \in 1 .. Len(more) /\ Len(more) = Len(next) + 1
      <4>1. Len(next) = Len(more) - 1
        BY <1>3 DEF Cut
      <4> QED  BY <4>1
    <3>3. Len(now) - Len(more) + (i + 1) = Len(now) - Len(next) + i
      <4> DEFINE a == Len(now)  b == Len(more)  d == Len(next)
      <4>1. a \in Int /\ b \in Int /\ d \in Int /\ i \in Int /\ b = d + 1
        BY <3>1
      <4> HIDE DEF a, b, d
      <4>2. a - b + (i + 1) = a - d + i
        BY ONLY <4>1
      <4> QED  BY <4>2 DEF a, b, d
    <3>2. next[i] = more[i + 1]
      BY <1>3 DEF Cut
    <3> QED  BY <1>2, <3>1, <3>2, <3>3
  <2> QED  BY <2>1, <2>2 DEF IsTail
<1>4. CASE ~(Len(more) > size)
  <2>1. next = more /\ Len(more) = IF Len(now) < size THEN Len(now) ELSE size
    BY <1>1, <1>4 DEF Cut
  <2> QED  BY <1>2, <2>1 DEF IsTail
<1> QED  BY <1>3, <1>4

LEMMA AppendedIsTail ==
    ASSUME NEW S, NEW all \in Seq(S), NEW kept \in Seq(S), NEW size \in Nat \ {0}, NEW e \in S,
           IsTail(kept, all, size)
    PROVE  LET more == Append(kept, e)
               next == IF Len(more) > size THEN SubSeq(more, Len(more) - size + 1, Len(more)) ELSE more
           IN next \in Seq(S) /\ IsTail(next, Append(all, e), size)
<1> DEFINE now  == Append(all, e)
           more == Append(kept, e)
           next == IF Len(more) > size THEN SubSeq(more, Len(more) - size + 1, Len(more)) ELSE more
<1>1. /\ now \in Seq(S) /\ Len(now) = Len(all) + 1 /\ now[Len(now)] = e
      /\ \A i \in 1 .. Len(all) : now[i] = all[i]
  BY AppendProperties
<1>2. /\ more \in Seq(S) /\ Len(more) = Len(kept) + 1 /\ more[Len(more)] = e
      /\ \A i \in 1 .. Len(kept) : more[i] = kept[i]
  BY AppendProperties
<1>3. Len(kept) \in Nat /\ Len(kept) <= size
  BY DEF IsTail
<1> HIDE DEF now, more
<1>6. Extends(now, all) /\ Extends(more, kept)
  BY <1>1, <1>2 DEF Extends
<1>4. CASE Len(more) > size
  <2>1. Len(more) - size + 1 = 2 /\ Len(more) \in Nat /\ next = SubSeq(more, 2, Len(more))
    <3> DEFINE m == Len(more)
    <3>1. m \in Nat /\ m <= size + 1 /\ m > size
      BY <1>2, <1>3, <1>4
    <3> HIDE DEF m
    <3>2. m - size + 1 = 2
      BY <3>1
    <3> QED  BY <1>4, <3>1, <3>2 DEF m
  <2>2. /\ next \in Seq(S) /\ Len(next) = Len(more) - 1
        /\ \A i \in 1 .. Len(next) : next[i] = more[i + 1]
    <3>1. \A i \in 2 .. Len(more) : more[i] \in S
      BY <1>2
    <3>2. 2 <= Len(more)
      BY <1>2, <1>3, <1>4
    <3> HIDE DEF next
    <3>3. /\ next \in Seq(S) /\ Len(next) = Len(more) - 2 + 1
          /\ \A i \in 1 .. Len(more) - 2 + 1 : next[i] = more[2 + i - 1]
      BY <2>1, <3>1, <3>2, SubSeqProperties
    <3>4. \A i \in Nat : 2 + i - 1 = i + 1
      OBVIOUS
    <3>5. Len(more) - 2 + 1 = Len(more) - 1
      BY <2>1
    <3>6. \A i \in 1 .. Len(more) - 1 : i \in Nat
      BY <2>1
    <3> QED  BY <3>3, <3>4, <3>5, <3>6
  <2> HIDE DEF next
  <2>3. Cut(next, more, size) /\ now[Len(now)] = more[Len(more)]
    BY <1>1, <1>2, <1>4, <2>2 DEF Cut
  <2>4. IsTail(next, now, size)
    BY <1>1, <1>2, <1>6, <2>2, <2>3, CutIsTail
  <2> QED  BY <2>2, <2>4 DEF next, now, more
<1>5. CASE ~(Len(more) > size)
  <2>1. next = more
    BY <1>5
  <2> HIDE DEF next
  <2>2. Cut(next, more, size) /\ now[Len(now)] = more[Len(more)]
    BY <1>1, <1>2, <1>5, <2>1 DEF Cut
  <2>3. IsTail(next, now, size)
    BY <1>1, <1>2, <1>6, <2>1, <2>2, CutIsTail
  <2> QED  BY <1>2, <2>1, <2>3 DEF next, now, more
<1> QED  BY <1>4, <1>5

RingInv == RingTyped /\ RingIsTail

LEMMA RingNext == ASSUME RingInv, [Next]_vars PROVE RingInv'
<1>1. CASE UNCHANGED <<ring, received>>
  BY <1>1 DEF RingInv, RingTyped, RingIsTail
<1>2. ASSUME NEW k \in Kind, NEW m \in Method, Record(k, m) PROVE RingInv'
  <2> DEFINE e == [method |-> m, seq |-> Len(received[k]) + 1]
  <2>1. /\ ring' = [ring EXCEPT ![k] = Recorded(k, e)]
        /\ received' = [received EXCEPT ![k] = Append(@, e)]
    BY <1>2 DEF Record
  <2>2. received[k] \in Seq(Entry) /\ ring[k] \in Seq(Entry) /\ e \in Entry
    <3>1. received[k] \in Seq(Entry) /\ ring[k] \in Seq(Entry)
      BY DEF RingInv, RingTyped
    <3>2. Len(received[k]) + 1 \in Nat
      BY <3>1
    <3> QED  BY <3>1, <3>2 DEF Entry
  <2> HIDE DEF e
  <2>3. IsTail(ring[k], received[k], RingSize[k]) /\ RingSize[k] \in Nat \ {0}
    BY RingIs, RingAssumption DEF RingInv
  <2>4. /\ Recorded(k, e) \in Seq(Entry)
        /\ IsTail(Recorded(k, e), Append(received[k], e), RingSize[k])
    BY <2>2, <2>3, AppendedIsTail DEF Recorded
  <2>5. RingTyped'
    BY <2>1, <2>2, <2>4 DEF RingInv, RingTyped
  <2>6. \A j \in Kind : IsTail(ring'[j], received'[j], RingSize[j])
    BY <2>1, <2>4, RingIs DEF RingInv, RingTyped
  <2> QED  BY <2>5, <2>6 DEF RingInv, RingIsTail, IsTail
<1> QED  BY <1>1, <1>2 DEF Next, vars, Subscribe, Unsubscribe, Snapshot, RunHandler, Dispatched

\* Both rings always hold the newest events received, in order and as many as
\* they have room for.
THEOREM RingHoldsNewest == Spec => []RingIsTail
<1>1. Init => RingInv
  BY RingAssumption DEF Init, RingInv, RingTyped, RingIsTail
<1>2. RingInv => RingIsTail
  BY DEF RingInv
<1> QED  BY <1>1, <1>2, RingNext, PTL DEF Spec

-----------------------------------------------------------------------------
(* The registry.                                                           *)

Subscription == [kind : Kind, pattern : Pattern, slot : Nat \ {0}]

RegistryTyped ==
    /\ slots \in [Kind -> [Pattern -> Seq(Nat)]]
    /\ sub \in Seq(Subscription)
    /\ active \subseteq 1 .. Len(sub)

SlotOf(x) == slots[x.kind][x.pattern][x.slot]

\* Every subscription has a slot of its own, which it fills while it is in force.
SlotsOwned ==
    /\ \A s \in 1 .. Len(sub) :
         /\ sub[s].slot \in 1 .. Len(slots[sub[s].kind][sub[s].pattern])
         /\ SlotOf(sub[s]) = IF s \in active THEN s ELSE Nil
    /\ \A s, t \in 1 .. Len(sub) : sub[s] = sub[t] => s = t

\* What is in a slot is the subscription that has it, the older before the younger.
SlotsHold ==
    \A k \in Kind, p \in Pattern :
        /\ \A i \in 1 .. Len(slots[k][p]) : slots[k][p][i] # Nil =>
             /\ slots[k][p][i] \in 1 .. Len(sub)
             /\ sub[slots[k][p][i]] = [kind |-> k, pattern |-> p, slot |-> i]
        /\ \A i, j \in 1 .. Len(slots[k][p]) :
             slots[k][p][i] # Nil /\ slots[k][p][j] # Nil /\ i < j => slots[k][p][i] < slots[k][p][j]

\* The inductive invariant.
RegistryInv == RegistryTyped /\ SlotsOwned /\ SlotsHold

LEMMA Subscribed ==
    ASSUME RegistryInv, NEW k \in Kind, NEW p \in Pattern, Subscribe(k, p)
    PROVE  RegistryInv'
<1> DEFINE s == Len(sub) + 1
           x == [kind |-> k, pattern |-> p, slot |-> Len(slots[k][p]) + 1]
           q == slots[k][p]
<1>1. /\ slots \in [Kind -> [Pattern -> Seq(Nat)]] /\ q \in Seq(Nat) /\ Len(q) \in Nat
      /\ sub \in Seq(Subscription) /\ Len(sub) \in Nat /\ s \in Nat /\ s # Nil
      /\ x \in Subscription /\ Nil = 0
  BY DEF RegistryInv, RegistryTyped, Subscription, Nil
<1> DEFINE new == Append(q, s)
<1>2. /\ slots' = [slots EXCEPT ![k] = [slots[k] EXCEPT ![p] = new]]
      /\ sub' = Append(sub, x) /\ active' = active \cup {s}
  <2>1. slots' = [slots EXCEPT ![k][p] = Append(@, s)]
    BY DEF Subscribe
  <2>2. sub' = Append(sub, x) /\ active' = active \cup {s}
    BY DEF Subscribe
  <2>3. \A v : [slots EXCEPT ![k][p] = v] = [slots EXCEPT ![k] = [slots[k] EXCEPT ![p] = v]]
    BY <1>1
  <2>4. slots' = [slots EXCEPT ![k][p] = new]
    BY <1>1, <2>1
  <2> QED  BY <2>2, <2>3, <2>4
<1>3. /\ slots'[k][p] = new
      /\ slots' \in [Kind -> [Pattern -> Seq(Nat)]]
      /\ \A j \in Kind, r \in Pattern : (j # k \/ r # p) => slots'[j][r] = slots[j][r]
  <2>1. new \in Seq(Nat)
    BY <1>1, AppendProperties
  <2> HIDE DEF new
  <2>2. [slots[k] EXCEPT ![p] = new] \in [Pattern -> Seq(Nat)]
    BY <1>1, <2>1
  <2> QED  BY <1>1, <1>2, <2>1, <2>2
<1>4. /\ Len(slots'[k][p]) = Len(q) + 1 /\ slots'[k][p][Len(q) + 1] = s
      /\ \A i \in 1 .. Len(q) : slots'[k][p][i] = q[i]
  BY <1>1, <1>3, AppendProperties
<1>5. /\ sub' \in Seq(Subscription) /\ Len(sub') = s /\ sub'[s] = x
      /\ \A t \in 1 .. Len(sub) : sub'[t] = sub[t]
  BY <1>1, <1>2, AppendProperties
<1>6. \A t \in 1 .. Len(sub') : t = s \/ t \in 1 .. Len(sub)
  BY <1>1, <1>5
<1>7. ASSUME NEW j \in Kind, NEW r \in Pattern, NEW i \in 1 .. Len(slots[j][r])
      PROVE  i \in 1 .. Len(slots'[j][r]) /\ slots'[j][r][i] = slots[j][r][i]
  <2>1. CASE j = k /\ r = p
    <3>1. 1 .. Len(q) \subseteq 1 .. Len(q) + 1
      BY <1>1
    <3> QED  BY <1>4, <2>1, <3>1
  <2> QED  BY <1>3, <2>1
<1>8. \A t \in 1 .. Len(sub) : sub[t].kind \in Kind /\ sub[t].pattern \in Pattern /\ sub[t] # x
  <2> SUFFICES ASSUME NEW t \in 1 .. Len(sub)
               PROVE  sub[t].kind \in Kind /\ sub[t].pattern \in Pattern /\ sub[t] # x
    OBVIOUS
  <2>1. sub[t] \in Subscription
    BY <1>1
  <2>2. sub[t] = x => x.slot \in 1 .. Len(slots[x.kind][x.pattern])
    BY DEF RegistryInv, SlotsOwned
  <2>3. sub[t] # x
    BY <1>1, <2>2
  <2> QED  BY <2>1, <2>3 DEF Subscription
<1> HIDE DEF s, x, q, new
<1>9. RegistryTyped'
  <2>1. active' \subseteq 1 .. Len(sub')
    <3>1. 1 .. Len(sub) \subseteq 1 .. Len(sub') /\ s \in 1 .. Len(sub')
      BY <1>1, <1>5 DEF s
    <3> QED  BY <1>2, <3>1 DEF RegistryInv, RegistryTyped
  <2> QED  BY <1>3, <1>5, <2>1 DEF RegistryTyped
<1>10. SlotsOwned'
  <2>1. ASSUME NEW t \in 1 .. Len(sub')
        PROVE  /\ sub'[t].slot \in 1 .. Len(slots'[sub'[t].kind][sub'[t].pattern])
               /\ SlotOf(sub[t])' = IF t \in active' THEN t ELSE Nil
    <3>1. CASE t = s
      <4>1. sub'[t] = x /\ x.kind = k /\ x.pattern = p /\ x.slot = Len(q) + 1 /\ t \in active'
        BY <1>2, <1>5, <3>1 DEF x, q
      <4>2. Len(q) + 1 \in 1 .. Len(q) + 1
        BY <1>1
      <4> QED  BY <1>4, <3>1, <4>1, <4>2 DEF SlotOf
    <3>2. CASE t \in 1 .. Len(sub) /\ t # s
      <4>1. /\ sub'[t] = sub[t] /\ (t \in active' <=> t \in active)
            /\ sub[t].slot \in 1 .. Len(slots[sub[t].kind][sub[t].pattern])
            /\ SlotOf(sub[t]) = IF t \in active THEN t ELSE Nil
        BY <1>2, <1>5, <3>2 DEF RegistryInv, SlotsOwned
      <4> DEFINE j == sub[t].kind  r == sub[t].pattern  i == sub[t].slot
      <4>2. j \in Kind /\ r \in Pattern /\ i \in 1 .. Len(slots[j][r])
        BY <1>8, <3>2, <4>1
      <4>3. i \in 1 .. Len(slots'[j][r]) /\ slots'[j][r][i] = slots[j][r][i]
        BY <1>7, <4>2
      <4> QED  BY <4>1, <4>3 DEF SlotOf
    <3> QED  BY <1>6, <3>1, <3>2
  <2>2. \A t, u \in 1 .. Len(sub') : sub'[t] = sub'[u] => t = u
    BY <1>5, <1>6, <1>8 DEF RegistryInv, SlotsOwned
  <2> QED  BY <2>1, <2>2 DEF SlotsOwned
<1>11. SlotsHold'
  <2> SUFFICES ASSUME NEW j \in Kind, NEW r \in Pattern
               PROVE  /\ \A i \in 1 .. Len(slots'[j][r]) : slots'[j][r][i] # Nil =>
                           /\ slots'[j][r][i] \in 1 .. Len(sub')
                           /\ sub'[slots'[j][r][i]] = [kind |-> j, pattern |-> r, slot |-> i]
                      /\ \A i, h \in 1 .. Len(slots'[j][r]) :
                           slots'[j][r][i] # Nil /\ slots'[j][r][h] # Nil /\ i < h =>
                               slots'[j][r][i] < slots'[j][r][h]
    BY DEF SlotsHold
  <2>1. \A i \in 1 .. Len(slots[j][r]) : slots[j][r][i] # Nil =>
           /\ slots[j][r][i] \in 1 .. Len(sub) /\ slots[j][r][i] \in 1 .. Len(sub') /\ slots[j][r][i] < s
           /\ sub'[slots[j][r][i]] = [kind |-> j, pattern |-> r, slot |-> i]
    <3> SUFFICES ASSUME NEW i \in 1 .. Len(slots[j][r]), slots[j][r][i] # Nil
                 PROVE  /\ slots[j][r][i] \in 1 .. Len(sub) /\ slots[j][r][i] \in 1 .. Len(sub')
                        /\ slots[j][r][i] < s
                        /\ sub'[slots[j][r][i]] = [kind |-> j, pattern |-> r, slot |-> i]
      OBVIOUS
    <3> DEFINE y == slots[j][r][i]
    <3>1. y \in 1 .. Len(sub) /\ sub[y] = [kind |-> j, pattern |-> r, slot |-> i]
      BY DEF RegistryInv, SlotsHold
    <3> HIDE DEF y
    <3>2. y \in 1 .. Len(sub') /\ y < s
      BY <1>1, <1>5, <3>1 DEF s
    <3>3. sub'[y] = sub[y]
      BY <1>5, <3>1
    <3> QED  BY <3>1, <3>2, <3>3 DEF y
  <2>2. \A i, h \in 1 .. Len(slots[j][r]) :
          slots[j][r][i] # Nil /\ slots[j][r][h] # Nil /\ i < h => slots[j][r][i] < slots[j][r][h]
    BY DEF RegistryInv, SlotsHold
  <2>3. CASE j # k \/ r # p
    BY <1>3, <2>1, <2>2, <2>3
  <2>4. CASE j = k /\ r = p
    <3>1. \A i \in 1 .. Len(slots'[j][r]) : i = Len(q) + 1 \/ (i \in 1 .. Len(q) /\ i < Len(q) + 1)
      BY <1>1, <1>4, <2>4
    <3>2. slots[j][r] = q /\ x = [kind |-> j, pattern |-> r, slot |-> Len(q) + 1]
      BY <2>4 DEF q, x
    <3>3. s \in 1 .. Len(sub') /\ Len(q) \in Nat
      BY <1>1, <1>5 DEF s
    <3>4. ASSUME NEW i \in 1 .. Len(slots'[j][r]), slots'[j][r][i] # Nil
          PROVE  /\ slots'[j][r][i] \in 1 .. Len(sub')
                 /\ sub'[slots'[j][r][i]] = [kind |-> j, pattern |-> r, slot |-> i]
      BY <1>4, <1>5, <2>1, <2>4, <3>1, <3>2, <3>3, <3>4
    <3>5. ASSUME NEW i \in 1 .. Len(slots'[j][r]), NEW h \in 1 .. Len(slots'[j][r]),
                 slots'[j][r][i] # Nil, slots'[j][r][h] # Nil, i < h
          PROVE  slots'[j][r][i] < slots'[j][r][h]
      <4>1. i \in 1 .. Len(q) /\ slots'[j][r][i] = slots[j][r][i]
        BY <1>4, <2>4, <3>1, <3>2, <3>3, <3>5
      <4>2. CASE h = Len(q) + 1
        BY <1>4, <2>1, <2>4, <3>2, <3>5, <4>1, <4>2
      <4>3. CASE h \in 1 .. Len(q)
        BY <1>4, <2>2, <2>4, <3>2, <3>5, <4>1, <4>3
      <4> QED  BY <3>1, <4>2, <4>3
    <3> QED  BY <3>4, <3>5
  <2> QED  BY <2>3, <2>4
<1> QED  BY <1>9, <1>10, <1>11 DEF RegistryInv

LEMMA Unsubscribed ==
    ASSUME RegistryInv, NEW s \in 1 .. Len(sub), Unsubscribe(s)
    PROVE  RegistryInv'
<1> DEFINE x == sub[s]
           q == slots[x.kind][x.pattern]
<1>1. /\ slots \in [Kind -> [Pattern -> Seq(Nat)]] /\ x \in Subscription /\ sub \in Seq(Subscription)
      /\ x.slot \in 1 .. Len(q) /\ Len(sub) \in Nat
  BY DEF RegistryInv, RegistryTyped, SlotsOwned
<1>2. /\ x.kind \in Kind /\ x.pattern \in Pattern /\ q \in Seq(Nat) /\ Len(q) \in Nat /\ x.slot <= Len(q)
      /\ x = [kind |-> x.kind, pattern |-> x.pattern, slot |-> x.slot]
  BY <1>1 DEF Subscription
<1>3. /\ slots' = [slots EXCEPT ![x.kind] = [@ EXCEPT ![x.pattern] = [q EXCEPT ![x.slot] = Nil]]]
      /\ active' = active \ {s} /\ sub' = sub
  BY <1>1, <1>2 DEF Unsubscribe
<1> HIDE DEF x, q
<1>4. /\ slots' \in [Kind -> [Pattern -> Seq(Nat)]]
      /\ slots'[x.kind][x.pattern] = [q EXCEPT ![x.slot] = Nil]
      /\ \A j \in Kind, r \in Pattern : <<j, r>> # <<x.kind, x.pattern>> => slots'[j][r] = slots[j][r]
  <2>1. [q EXCEPT ![x.slot] = Nil] \in Seq(Nat)
    BY <1>1, <1>2 DEF Nil
  <2> HIDE DEF Nil
  <2> DEFINE e == [q EXCEPT ![x.slot] = Nil]
  <2> HIDE DEF e
  <2>2. e \in Seq(Nat) /\ slots' = [slots EXCEPT ![x.kind] = [@ EXCEPT ![x.pattern] = e]]
    BY <1>3, <2>1 DEF e
  <2>3. /\ slots' \in [Kind -> [Pattern -> Seq(Nat)]]
        /\ slots'[x.kind][x.pattern] = e
        /\ \A j \in Kind, r \in Pattern : <<j, r>> # <<x.kind, x.pattern>> => slots'[j][r] = slots[j][r]
    BY ONLY <1>1, <1>2, <2>2
  <2> QED  BY <2>3 DEF e
<1>5. /\ Len(slots'[x.kind][x.pattern]) = Len(q)
      /\ slots'[x.kind][x.pattern][x.slot] = Nil
      /\ \A i \in 1 .. Len(q) : i # x.slot => slots'[x.kind][x.pattern][i] = q[i]
  BY <1>1, <1>2, <1>4
\* Only the slot of s has changed.
<1>6. \A j \in Kind, r \in Pattern :
        /\ Len(slots'[j][r]) = Len(slots[j][r])
        /\ \A i \in 1 .. Len(slots[j][r]) :
             IF [kind |-> j, pattern |-> r, slot |-> i] = x
             THEN slots'[j][r][i] = Nil ELSE slots'[j][r][i] = slots[j][r][i]
  <2> SUFFICES ASSUME NEW j \in Kind, NEW r \in Pattern
               PROVE  /\ Len(slots'[j][r]) = Len(slots[j][r])
                      /\ \A i \in 1 .. Len(slots[j][r]) :
                           IF [kind |-> j, pattern |-> r, slot |-> i] = x
                           THEN slots'[j][r][i] = Nil ELSE slots'[j][r][i] = slots[j][r][i]
    OBVIOUS
  <2>1. CASE <<j, r>> # <<x.kind, x.pattern>>
    BY <1>2, <1>4, <2>1
  <2>2. CASE j = x.kind /\ r = x.pattern
    BY <1>2, <1>5, <2>2 DEF q
  <2> QED  BY <2>1, <2>2
<1>7. RegistryTyped'
  BY <1>1, <1>3, <1>4 DEF RegistryInv, RegistryTyped
<1>8. SlotsOwned'
  <2>1. \A t, u \in 1 .. Len(sub') : sub'[t] = sub'[u] => t = u
    BY <1>3 DEF RegistryInv, SlotsOwned
  <2>2. ASSUME NEW t \in 1 .. Len(sub')
        PROVE  /\ sub'[t].slot \in 1 .. Len(slots'[sub'[t].kind][sub'[t].pattern])
               /\ SlotOf(sub[t])' = IF t \in active' THEN t ELSE Nil
    <3>1. /\ t \in 1 .. Len(sub) /\ sub'[t] = sub[t] /\ sub[t] \in Subscription
          /\ sub[t].slot \in 1 .. Len(slots[sub[t].kind][sub[t].pattern])
          /\ SlotOf(sub[t]) = IF t \in active THEN t ELSE Nil
      BY <1>1, <1>3 DEF RegistryInv, SlotsOwned
    <3>2. /\ sub[t].kind \in Kind /\ sub[t].pattern \in Pattern
          /\ sub[t] = [kind |-> sub[t].kind, pattern |-> sub[t].pattern, slot |-> sub[t].slot]
      BY <3>1 DEF Subscription
    <3>3. sub[t] = x <=> t = s
      BY <1>3, <3>1 DEF RegistryInv, SlotsOwned, x
    <3>4. IF t = s THEN SlotOf(sub[t])' = Nil ELSE SlotOf(sub[t])' = SlotOf(sub[t])
      BY <1>6, <3>1, <3>2, <3>3 DEF SlotOf
    <3> QED  BY <1>3, <1>6, <3>1, <3>2, <3>4
  <2> QED  BY <2>1, <2>2 DEF SlotsOwned
<1>9. SlotsHold'
  <2>1. \A j \in Kind, r \in Pattern : \A i \in 1 .. Len(slots'[j][r]) :
          i \in 1 .. Len(slots[j][r]) /\ (slots'[j][r][i] # Nil => slots'[j][r][i] = slots[j][r][i])
    BY <1>6
  <2> QED  BY <1>3, <2>1 DEF RegistryInv, SlotsHold
<1> QED  BY <1>7, <1>8, <1>9 DEF RegistryInv

LEMMA InitRegistry == Init => RegistryInv
<1> SUFFICES ASSUME Init PROVE RegistryInv
  OBVIOUS
<1>1. /\ \A k \in Kind, p \in Pattern : slots[k][p] = <<>>
      /\ slots \in [Kind -> [Pattern -> Seq(Nat)]] /\ sub = <<>> /\ active = {}
  BY DEF Init
<1>2. <<>> \in Seq(Subscription) /\ Len(<<>>) = 0 /\ 1 .. 0 = {}
  OBVIOUS
<1> QED  BY <1>1, <1>2 DEF RegistryInv, RegistryTyped, SlotsOwned, SlotsHold

LEMMA NextRegistry == RegistryInv /\ [Next]_vars => RegistryInv'
<1> SUFFICES ASSUME RegistryInv, [Next]_vars PROVE RegistryInv'
  OBVIOUS
<1>1. CASE UNCHANGED <<slots, sub, active>>
  BY <1>1 DEF RegistryInv, RegistryTyped, SlotsOwned, SlotOf, SlotsHold
<1>2. Subs = 1 .. Len(sub)
  BY DEF Subs, RegistryInv, RegistryTyped
<1> QED  BY <1>1, <1>2, Subscribed, Unsubscribed DEF Next, vars, Record, Snapshot, RunHandler, Dispatched

\* What the registry holds of a pattern.
LEMMA RegistryIs ==
    ASSUME RegistryInv, NEW k \in Kind, NEW p \in Pattern
    PROVE  /\ slots[k][p] \in Seq(Nat)
           /\ {slots[k][p][i] : i \in Held(slots[k][p])} = InForce(k, p)
           /\ \A i, j \in Held(slots[k][p]) : i < j => slots[k][p][i] < slots[k][p][j]
<1>1. slots[k][p] \in Seq(Nat) /\ Held(slots[k][p]) \subseteq 1 .. Len(slots[k][p])
  BY DEF RegistryInv, RegistryTyped, Held
<1>2. ASSUME NEW i \in Held(slots[k][p]) PROVE slots[k][p][i] \in InForce(k, p)
  <2> DEFINE x == slots[k][p][i]
  <2>1. x # Nil /\ x \in 1 .. Len(sub) /\ sub[x] = [kind |-> k, pattern |-> p, slot |-> i]
    BY <1>1, <1>2 DEF RegistryInv, SlotsHold, Held
  <2>2. x \in active
    BY <2>1 DEF RegistryInv, SlotsOwned, SlotOf
  <2> HIDE DEF x
  <2>3. x \in InForce(k, p)
    BY <2>1, <2>2 DEF InForce
  <2> QED  BY <2>3 DEF x
<1>3. ASSUME NEW s \in InForce(k, p) PROVE \E i \in Held(slots[k][p]) : slots[k][p][i] = s
  <2>1. /\ s \in active /\ s \in 1 .. Len(sub) /\ sub[s].kind = k /\ sub[s].pattern = p /\ s # Nil
    BY DEF InForce, RegistryInv, RegistryTyped, Nil
  <2>2. sub[s].slot \in 1 .. Len(slots[k][p]) /\ slots[k][p][sub[s].slot] = s
    BY <2>1 DEF RegistryInv, SlotsOwned, SlotOf
  <2>3. sub[s].slot \in Held(slots[k][p])
    BY <1>1, <2>1, <2>2 DEF Held
  <2> QED  BY <2>2, <2>3
<1>4. \A i, j \in Held(slots[k][p]) : i < j => slots[k][p][i] < slots[k][p][j]
  BY <1>1 DEF RegistryInv, SlotsHold, Held
<1> QED  BY <1>1, <1>2, <1>3, <1>4

\* The registry holds exactly the subscriptions in force, oldest first (OnRequest,
\* OnNotification), whatever is subscribed and unsubscribed, how often, and when.
THEOREM RegistryIsExact == Spec => []RegistryExact
<1>1. RegistryInv => RegistryExact
  BY RegistryIs DEF RegistryExact
<1> QED  BY <1>1, InitRegistry, NextRegistry, PTL DEF Spec

-----------------------------------------------------------------------------
(* The delivery of an event.                                               *)

Values(q) == {q[i] : i \in Held(q)}

\* Before, for a given pair of sets of subscriptions.
Earlier(d, x, y) == \/ x \in d[1] /\ y \in d[2]
                    \/ x < y /\ \E part \in {d[1], d[2]} : {x, y} \subseteq part

InOrder(d, q)     == \A i, j \in Held(q) : i < j => Earlier(d, q[i], q[j])
Precedes(d, a, b) == \A i \in Held(a), j \in Held(b) : Earlier(d, a[i], b[j])

\* What two sequences hold, one after the other.
LEMMA Joined ==
    ASSUME NEW a \in Seq(Nat), NEW b \in Seq(Nat), NEW d
    PROVE  /\ Values(a \o b) = Values(a) \cup Values(b)
           /\ InOrder(d, a) /\ InOrder(d, b) /\ Precedes(d, a, b) => InOrder(d, a \o b)
<1> DEFINE c == a \o b
           m == Len(a)
           n == Len(b)
<1>1. /\ c \in Seq(Nat) /\ m \in Nat /\ n \in Nat /\ Len(c) = m + n
      /\ DOMAIN a = 1 .. m /\ DOMAIN b = 1 .. n /\ DOMAIN c = 1 .. m + n
      /\ \A i \in 1 .. m + n : c[i] = IF i <= m THEN a[i] ELSE b[i - m]
  <2>1. c \in Seq(Nat) /\ Len(c) = m + n /\ \A i \in 1 .. m + n : c[i] = IF i <= m THEN a[i] ELSE b[i - m]
    BY ConcatProperties
  <2> HIDE DEF c
  <2> QED  BY <2>1, LenProperties
<1> HIDE DEF c, m, n
<1>2. ASSUME NEW i \in Held(a) PROVE i \in Held(c) /\ c[i] = a[i] /\ i <= m
  <2>1. i \in 1 .. m /\ a[i] # Nil /\ i <= m /\ i \in 1 .. m + n
    BY <1>1 DEF Held
  <2> QED  BY <1>1, <2>1 DEF Held
<1>3. ASSUME NEW j \in Held(b) PROVE m + j \in Held(c) /\ c[m + j] = b[j]
  <2>1. j \in 1 .. n /\ b[j] # Nil /\ m + j \in 1 .. m + n /\ ~(m + j <= m) /\ (m + j) - m = j
    BY <1>1 DEF Held
  <2> QED  BY <1>1, <2>1 DEF Held
<1>4. ASSUME NEW i \in Held(c)
      PROVE  \/ i \in Held(a) /\ c[i] = a[i] /\ i <= m
             \/ i - m \in Held(b) /\ c[i] = b[i - m] /\ i > m
  <2>1. i \in 1 .. m + n /\ c[i] # Nil
    BY <1>1 DEF Held
  <2>2. CASE i <= m
    <3>1. i \in 1 .. m
      BY <1>1, <2>1, <2>2
    <3> QED  BY <1>1, <2>1, <2>2, <3>1 DEF Held
  <2>3. CASE ~(i <= m)
    <3>1. i - m \in 1 .. n /\ i > m
      BY <1>1, <2>1, <2>3
    <3> QED  BY <1>1, <2>1, <2>3, <3>1 DEF Held
  <2> QED  BY <2>2, <2>3
<1>5. Values(c) = Values(a) \cup Values(b)
  <2>1. \A x \in Values(c) : x \in Values(a) \cup Values(b)
    BY <1>4 DEF Values
  <2>2. \A x \in Values(a) \cup Values(b) : x \in Values(c)
    BY <1>2, <1>3 DEF Values
  <2> QED  BY <2>1, <2>2
<1>6. ASSUME InOrder(d, a), InOrder(d, b), Precedes(d, a, b), NEW i \in Held(c), NEW j \in Held(c), i < j
      PROVE  Earlier(d, c[i], c[j])
  <2>1. i \in Int /\ j \in Int
    BY <1>1 DEF Held
  <2>2. CASE i \in Held(a) /\ c[i] = a[i] /\ j \in Held(a) /\ c[j] = a[j]
    BY <1>6, <2>2 DEF InOrder
  <2>3. CASE i \in Held(a) /\ c[i] = a[i] /\ j - m \in Held(b) /\ c[j] = b[j - m]
    BY <1>6, <2>3 DEF Precedes
  <2>4. CASE i - m \in Held(b) /\ c[i] = b[i - m] /\ j - m \in Held(b) /\ c[j] = b[j - m]
    <3>1. i - m < j - m
      BY <1>1, <1>6, <2>1
    <3> QED  BY <1>6, <2>4, <3>1 DEF InOrder
  <2>5. ~(i > m /\ j <= m)
    BY <1>1, <1>6, <2>1
  <2> QED  BY <1>4, <2>2, <2>3, <2>4, <2>5
<1> QED  BY <1>5, <1>6 DEF InOrder, c

\* The inductive invariant: what has been called and what is still to be are
\* the subscriptions the event is for, in their order.
Dispatching ==
    /\ Values(called) \cup Values(todo) = due[1] \cup due[2]
    /\ InOrder(due, called) /\ InOrder(due, todo) /\ Precedes(due, called, todo)

DeliveryInv ==
    /\ called \in Seq(Nat) /\ todo \in Seq(Nat)
    /\ reader.at \in {"recv", "snapshot", "run"}
    /\ reader.at = "snapshot" => reader.kind \in Kind /\ reader.method \in Method /\ called = <<>>
    /\ reader.at = "run" => Dispatching
    /\ reader.at = "recv" => Dispatching

LEMMA NothingHeld == Held(<<>>) = {} /\ Values(<<>>) = {}
BY DEF Held, Values

LEMMA DispatchingNext ==
    Dispatching' <=> /\ Values(called') \cup Values(todo') = due'[1] \cup due'[2]
                     /\ InOrder(due', called') /\ InOrder(due', todo') /\ Precedes(due', called', todo')
BY DEF Dispatching, InOrder, Precedes, Values, Held, Earlier

LEMMA Snapped ==
    ASSUME RegistryInv, DeliveryInv, Snapshot
    PROVE  DeliveryInv'
<1> DEFINE k == reader.kind
           m == reader.method
           a == slots[k][m]
           b == slots[k][AnyMethod]
<1>1. k \in Kind /\ m \in Method /\ m \in Pattern /\ AnyMethod \in Pattern /\ called = <<>>
  BY DEF DeliveryInv, Snapshot, Pattern
<1>2. /\ a \in Seq(Nat) /\ Values(a) = InForce(k, m) /\ \A i, j \in Held(a) : i < j => a[i] < a[j]
      /\ b \in Seq(Nat) /\ Values(b) = InForce(k, AnyMethod) /\ \A i, j \in Held(b) : i < j => b[i] < b[j]
  BY <1>1, RegistryIs DEF Values
<1>3. /\ todo' = a \o b /\ due' = <<InForce(k, m), InForce(k, AnyMethod)>> /\ called' = called
      /\ reader' = [reader EXCEPT !.at = "run"]
  BY DEF Snapshot, Handlers
<1> HIDE DEF a, b
<1>4. due'[1] = Values(a) /\ due'[2] = Values(b)
  BY <1>2, <1>3
<1>5. InOrder(due', a) /\ InOrder(due', b) /\ Precedes(due', a, b)
  <2>1. (\A i \in Held(a) : a[i] \in due'[1]) /\ \A i \in Held(b) : b[i] \in due'[2]
    BY <1>4 DEF Values
  <2> QED  BY <1>2, <2>1 DEF InOrder, Precedes, Earlier
<1>6. a \o b \in Seq(Nat) /\ Values(a \o b) = due'[1] \cup due'[2] /\ InOrder(due', a \o b)
  BY <1>2, <1>4, <1>5, Joined, ConcatProperties
<1>7. Dispatching'
  <2>1. /\ Values(called') = {} /\ Held(called') = {}
        /\ Values(todo') = due'[1] \cup due'[2] /\ InOrder(due', todo')
    BY <1>1, <1>3, <1>6, NothingHeld
  <2>2. InOrder(due', called') /\ Precedes(due', called', todo')
    BY <2>1 DEF InOrder, Precedes
  <2> QED  BY <2>1, <2>2, DispatchingNext
<1>8. reader'.at = "run"
  BY <1>3 DEF Snapshot, DeliveryInv
<1> QED  BY <1>3, <1>6, <1>7, <1>8 DEF DeliveryInv

\* What a sequence holds behind its head.
LEMMA HeldBehind ==
    ASSUME NEW q \in Seq(Nat), q # <<>>
    PROVE  /\ Head(q) \in Nat /\ Tail(q) \in Seq(Nat)
           /\ \A i \in Held(Tail(q)) : i \in Nat \ {0} /\ i + 1 \in Held(q) /\ q[i + 1] = Tail(q)[i]
           /\ \A i \in Held(q) : \/ i = 1 /\ q[i] = Head(q)
                                 \/ i - 1 \in Held(Tail(q)) /\ q[i] = Tail(q)[i - 1]
           /\ Head(q) # Nil => 1 \in Held(q) /\ q[1] = Head(q)
           /\ Head(q) = Nil => 1 \notin Held(q)
<1> DEFINE t == Tail(q)
           h == Head(q)
<1>1. /\ h \in Nat /\ t \in Seq(Nat) /\ Len(t) = Len(q) - 1 /\ h = q[1]
      /\ \A i \in 1 .. Len(t) : t[i] = q[i + 1]
  BY HeadTailProperties
<1>2. Len(q) \in Nat \ {0} /\ DOMAIN q = 1 .. Len(q) /\ DOMAIN t = 1 .. Len(t)
  BY <1>1, EmptySeq, LenProperties
<1> HIDE DEF t, h
<1>3. ASSUME NEW i \in Held(t) PROVE i \in Nat \ {0} /\ i + 1 \in Held(q) /\ q[i + 1] = t[i]
  <2>1. i \in 1 .. Len(t) /\ i + 1 \in 1 .. Len(q) /\ t[i] # Nil
    BY <1>1, <1>2 DEF Held
  <2>2. q[i + 1] = t[i] /\ i + 1 \in DOMAIN q /\ i \in Nat \ {0}
    BY <1>1, <1>2, <2>1
  <2> QED  BY <2>1, <2>2 DEF Held
<1>4. ASSUME NEW i \in Held(q) PROVE \/ i = 1 /\ q[i] = h
                                     \/ i - 1 \in Held(t) /\ q[i] = t[i - 1]
  <2>1. i \in 1 .. Len(q) /\ q[i] # Nil
    BY <1>2 DEF Held
  <2>2. CASE i # 1
    <3>1. i - 1 \in 1 .. Len(t) /\ (i - 1) + 1 = i
      BY <1>1, <1>2, <2>1, <2>2
    <3> QED  BY <1>1, <1>2, <2>1, <3>1 DEF Held
  <2> QED  BY <1>1, <2>2
<1>5. 1 \in 1 .. Len(q)
  BY <1>2
<1> QED  BY <1>1, <1>2, <1>3, <1>4, <1>5 DEF Held, t, h

LEMMA HeldAppended ==
    ASSUME NEW q \in Seq(Nat), NEW h \in Nat, h # Nil
    PROVE  /\ Append(q, h) \in Seq(Nat)
           /\ \A i \in Held(q) : i \in Held(Append(q, h)) /\ Append(q, h)[i] = q[i]
           /\ \A i \in Held(Append(q, h)) : \/ i \in Held(q) /\ Append(q, h)[i] = q[i]
                                            \/ i = Len(q) + 1 /\ Append(q, h)[i] = h
           /\ Len(q) + 1 \in Held(Append(q, h)) /\ Append(q, h)[Len(q) + 1] = h
           /\ \A i \in Held(q) : i < Len(q) + 1 /\ i \in Nat
           /\ Len(q) \in Nat
<1> DEFINE a == Append(q, h)
<1>1. /\ a \in Seq(Nat) /\ Len(a) = Len(q) + 1 /\ Len(q) \in Nat
      /\ DOMAIN q = 1 .. Len(q) /\ DOMAIN a = 1 .. Len(a)
      /\ \A i \in 1 .. Len(q) : a[i] = q[i]
      /\ a[Len(q) + 1] = h
  BY AppendProperties, LenProperties
<1> HIDE DEF a
<1>2. \A i \in 1 .. Len(a) : i = Len(q) + 1 \/ i \in 1 .. Len(q)
  BY <1>1
<1>3. Len(q) + 1 \in 1 .. Len(a) /\ \A i \in 1 .. Len(q) : i \in 1 .. Len(a) /\ i < Len(q) + 1 /\ i \in Nat
  BY <1>1
<1> QED  BY <1>1, <1>2, <1>3 DEF Held, a

LEMMA Ran ==
    ASSUME DeliveryInv, RunHandler
    PROVE  DeliveryInv'
<1> DEFINE h == Head(todo)
           t == Tail(todo)
<1>1. /\ called \in Seq(Nat) /\ todo \in Seq(Nat) /\ todo # <<>> /\ Dispatching
      /\ todo' = t /\ due' = due /\ reader' = reader /\ reader.at = "run"
      /\ called' = IF h = Nil THEN called ELSE Append(called, h)
  BY DEF DeliveryInv, RunHandler
<1>2. /\ h \in Nat /\ t \in Seq(Nat)
      /\ \A i \in Held(t) : i \in Nat \ {0} /\ i + 1 \in Held(todo) /\ todo[i + 1] = t[i]
      /\ \A i \in Held(todo) : \/ i = 1 /\ todo[i] = h
                               \/ i - 1 \in Held(t) /\ todo[i] = t[i - 1]
      /\ h # Nil => 1 \in Held(todo) /\ todo[1] = h
      /\ h = Nil => 1 \notin Held(todo)
  BY <1>1, HeldBehind
<1> HIDE DEF h, t
<1>3. InOrder(due, t)
  <2> SUFFICES ASSUME NEW i \in Held(t), NEW j \in Held(t), i < j PROVE Earlier(due, t[i], t[j])
    BY DEF InOrder
  <2>1. i + 1 < j + 1 /\ i + 1 \in Held(todo) /\ j + 1 \in Held(todo)
    BY <1>2
  <2>2. Earlier(due, todo[i + 1], todo[j + 1])
    BY <1>1, <2>1 DEF Dispatching, InOrder
  <2> QED  BY <1>2, <2>2
<1>4. Precedes(due, called, t)
  BY <1>1, <1>2 DEF Dispatching, Precedes
<1>5. CASE h = Nil
  <2>1. Values(t) = Values(todo)
    <3>1. \A x \in Values(t) : x \in Values(todo)
      BY <1>2 DEF Values
    <3>2. \A x \in Values(todo) : x \in Values(t)
      BY <1>2, <1>5 DEF Values
    <3> QED  BY <3>1, <3>2
  <2>2. called' = called
    BY <1>1, <1>5
  <2>3. Dispatching'
    <3>1. Values(called) \cup Values(t) = due[1] \cup due[2] /\ InOrder(due, called)
      BY <1>1, <2>1 DEF Dispatching
    <3>2. /\ Values(called') \cup Values(todo') = due'[1] \cup due'[2]
          /\ InOrder(due', called') /\ InOrder(due', todo') /\ Precedes(due', called', todo')
      BY ONLY <1>1, <1>3, <1>4, <2>2, <3>1
    <3> QED  BY <3>2, DispatchingNext
  <2> QED  BY <1>1, <1>2, <2>2, <2>3 DEF DeliveryInv
<1>6. CASE h # Nil
  <2> DEFINE c == Append(called, h)
  <2>1. /\ c \in Seq(Nat)
        /\ \A i \in Held(called) : i \in Held(c) /\ c[i] = called[i]
        /\ \A i \in Held(c) : \/ i \in Held(called) /\ c[i] = called[i]
                              \/ i = Len(called) + 1 /\ c[i] = h
        /\ Len(called) + 1 \in Held(c) /\ c[Len(called) + 1] = h
        /\ \A i \in Held(called) : i < Len(called) + 1 /\ i \in Nat
        /\ Len(called) \in Nat
    BY <1>1, <1>2, <1>6, HeldAppended
  <2> HIDE DEF c
  <2>2. Values(c) \cup Values(t) = due[1] \cup due[2]
    <3>1. Values(c) = Values(called) \cup {h}
      BY <2>1 DEF Values
    <3>2. Values(todo) = Values(t) \cup {h}
      <4>1. \A x \in Values(t) \cup {h} : x \in Values(todo)
        BY <1>2, <1>6 DEF Values
      <4>2. \A x \in Values(todo) : x \in Values(t) \cup {h}
        BY <1>2 DEF Values
      <4> QED  BY <4>1, <4>2
    <3> QED  BY <1>1, <3>1, <3>2 DEF Dispatching
  <2>3. InOrder(due, c)
    <3> SUFFICES ASSUME NEW i \in Held(c), NEW j \in Held(c), i < j PROVE Earlier(due, c[i], c[j])
      BY DEF InOrder
    <3>1. CASE i \in Held(called) /\ j \in Held(called)
      BY <1>1, <2>1, <3>1 DEF Dispatching, InOrder
    <3>2. CASE i \in Held(called) /\ c[j] = h
      BY <1>1, <1>2, <1>6, <2>1, <3>2 DEF Dispatching, Precedes
    <3>3. i # Len(called) + 1
      BY <2>1
    <3> QED  BY <2>1, <3>1, <3>2, <3>3
  <2>4. Precedes(due, c, t)
    <3> SUFFICES ASSUME NEW i \in Held(c), NEW j \in Held(t) PROVE Earlier(due, c[i], t[j])
      BY DEF Precedes
    <3>1. CASE i \in Held(called)
      BY <1>4, <2>1, <3>1 DEF Precedes
    <3>2. CASE c[i] = h
      <4>1. 1 \in Held(todo) /\ todo[1] = h /\ j + 1 \in Held(todo) /\ todo[j + 1] = t[j] /\ 1 < j + 1
        BY <1>2, <1>6
      <4>2. Earlier(due, todo[1], todo[j + 1])
        BY <1>1, <4>1 DEF Dispatching, InOrder
      <4> QED  BY <3>2, <4>1, <4>2
    <3> QED  BY <2>1, <3>1, <3>2
  <2>5. called' = c
    BY <1>1, <1>6 DEF c
  <2>6. Dispatching'
    <3>1. /\ Values(called') \cup Values(todo') = due'[1] \cup due'[2]
          /\ InOrder(due', called') /\ InOrder(due', todo') /\ Precedes(due', called', todo')
      BY ONLY <1>1, <1>3, <2>2, <2>3, <2>4, <2>5
    <3> QED  BY <3>1, DispatchingNext
  <2> QED  BY <1>1, <1>2, <2>1, <2>5, <2>6 DEF DeliveryInv
<1> QED  BY <1>5, <1>6

\* Every event goes to each subscription in force when its handlers were copied,
\* once, those to its method first and the older before the younger, whoever
\* subscribes or unsubscribes during the dispatch (dispatchNotification,
\* dispatchRequest).
THEOREM EventsDelivered == Spec => []DeliveredExactly
<1>1. Init => DeliveryInv
  <2> SUFFICES ASSUME Init PROVE DeliveryInv
    OBVIOUS
  <2>1. called = <<>> /\ todo = <<>> /\ due = <<{}, {}>> /\ reader.at = "recv"
    BY DEF Init
  <2>2. <<>> \in Seq(Nat) /\ due[1] = {} /\ due[2] = {}
    BY <2>1
  <2>3. Dispatching
    BY <2>1, <2>2, NothingHeld DEF Dispatching, InOrder, Precedes
  <2> QED  BY <2>1, <2>2, <2>3 DEF DeliveryInv
<1>2. RegistryInv /\ DeliveryInv /\ [Next]_vars => DeliveryInv'
  <2> SUFFICES ASSUME RegistryInv, DeliveryInv, [Next]_vars PROVE DeliveryInv'
    OBVIOUS
  <2>1. CASE UNCHANGED <<reader, todo, called, due>>
    BY <2>1 DEF DeliveryInv, Dispatching, Values, InOrder, Precedes, Held, Earlier
  <2>2. CASE Dispatched
    <3>1. UNCHANGED <<todo, called, due>> /\ reader.at = "run" /\ reader'.at = "recv"
      BY <2>2 DEF Dispatched
    <3> QED  BY <3>1 DEF DeliveryInv, Dispatching, Values, InOrder, Precedes, Held, Earlier
  <2>3. ASSUME NEW k \in Kind, NEW m \in Method, Record(k, m) PROVE DeliveryInv'
    <3>1. /\ todo' = todo /\ called' = <<>> /\ reader'.at = "snapshot"
          /\ reader'.kind = k /\ reader'.method = m
      BY <2>3 DEF Record
    <3>2. <<>> \in Seq(Nat) /\ todo \in Seq(Nat)
      BY DEF DeliveryInv
    <3> QED  BY <3>1, <3>2 DEF DeliveryInv
  <2> QED  BY <2>1, <2>2, <2>3, Snapped, Ran DEF Next, vars, Subscribe, Unsubscribe
<1>3. DeliveryInv => DeliveredExactly
  <2> SUFFICES ASSUME DeliveryInv, reader.at # "snapshot"
               PROVE  LET run == called \o todo IN
                      /\ {run[i] : i \in Held(run)} = due[1] \cup due[2]
                      /\ \A i, j \in Held(run) : i < j => Before(run[i], run[j])
    BY DEF DeliveredExactly
  <2>1. called \in Seq(Nat) /\ todo \in Seq(Nat) /\ Dispatching
    BY DEF DeliveryInv
  <2>2. Values(called \o todo) = due[1] \cup due[2] /\ InOrder(due, called \o todo)
    BY <2>1, Joined DEF Dispatching
  <2> QED  BY <2>2 DEF Values, InOrder, Earlier, Before
<1> QED  BY <1>1, <1>2, <1>3, InitRegistry, NextRegistry, PTL DEF Spec
=============================================================================
