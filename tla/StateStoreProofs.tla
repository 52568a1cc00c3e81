--------------------------- MODULE StateStoreProofs ---------------------------
(***************************************************************************)
(* The store's three levels, for any ids, bounds and events: a level is a  *)
(* table, and the lemmas about one table serve all three.                  *)
(***************************************************************************)
EXTENDS StateStore, FiniteSetTheorems, SequenceTheorems, TLAPS

-----------------------------------------------------------------------------
(* One table.                                                              *)

\* A table over the ids K: a record of a map and an order that agree.
Table(tab, K, max) ==
    /\ tab = [map |-> tab.map, order |-> tab.order]
    /\ tab.map = [k \in Keys(tab) |-> tab.map[k]]
    /\ tab.order \in Seq(K)
    /\ TableOK(tab, max)

LEMMA EmptyTableOK == ASSUME NEW K, NEW max \in Nat PROVE Table(EmptyTable, K, max) /\ Keys(EmptyTable) = {}
<1>1. EmptyTable.order = <<>> /\ EmptyTable.map = <<>> /\ Keys(EmptyTable) = {}
  BY DEF EmptyTable, Keys
<1>2. /\ EmptyTable = [map |-> EmptyTable.map, order |-> EmptyTable.order]
      /\ EmptyTable.map = [k \in Keys(EmptyTable) |-> EmptyTable.map[k]]
  BY <1>1 DEF EmptyTable
<1>3. TableOK(EmptyTable, max)
  <2>1. DOMAIN EmptyTable.order = {} /\ Len(EmptyTable.order) = 0
    BY <1>1
  <2> QED  BY <1>1, <2>1 DEF TableOK, ToSet, IsInjective
<1> QED  BY <1>1, <1>2, <1>3 DEF Table

\* A new id at the end of an order ...
LEMMA OrderGrows ==
    ASSUME NEW K, NEW order \in Seq(K), NEW k \in K, IsInjective(order), k \notin ToSet(order)
    PROVE  /\ Append(order, k) \in Seq(K) /\ Len(Append(order, k)) = Len(order) + 1
           /\ IsInjective(Append(order, k)) /\ ToSet(Append(order, k)) = ToSet(order) \cup {k}
           /\ order # <<>> => Append(order, k)[1] = order[1] /\ order[1] # k
<1> DEFINE all == Append(order, k)
<1>1. /\ all \in Seq(K) /\ Len(all) = Len(order) + 1 /\ all[Len(order) + 1] = k
      /\ \A i \in 1 .. Len(order) : all[i] = order[i]
      /\ Len(order) \in Nat
      /\ DOMAIN order = 1 .. Len(order) /\ DOMAIN all = 1 .. Len(order) + 1
  BY AppendProperties
<1> HIDE DEF all
<1>2. IsInjective(all)
  BY <1>1 DEF IsInjective, ToSet
<1>3. ToSet(all) = ToSet(order) \cup {k}
  <2>1. \A i \in DOMAIN all : i \in DOMAIN order \/ i = Len(order) + 1
    BY <1>1
  <2>2. DOMAIN order \subseteq DOMAIN all /\ Len(order) + 1 \in DOMAIN all
    BY <1>1
  <2> QED  BY <1>1, <2>1, <2>2 DEF ToSet
<1>4. ASSUME order # <<>> PROVE all[1] = order[1] /\ order[1] # k
  <2>1. 1 \in 1 .. Len(order)
    BY <1>1, <1>4
  <2> QED  BY <1>1, <2>1 DEF ToSet
<1> QED  BY <1>1, <1>2, <1>3, <1>4 DEF all

\* ... and the oldest leaving at the front.
LEMMA OrderCut ==
    ASSUME NEW K, NEW all \in Seq(K), all # <<>>, IsInjective(all)
    PROVE  LET new == SubSeq(all, 2, Len(all))
           IN /\ new \in Seq(K) /\ Len(new) = Len(all) - 1
              /\ IsInjective(new) /\ ToSet(new) = ToSet(all) \ {all[1]}
<1> DEFINE new == SubSeq(all, 2, Len(all))
<1>1. new = Tail(all)
  BY TailIsSubSeq
<1>2. /\ new \in Seq(K) /\ Len(new) = Len(all) - 1 /\ \A i \in 1 .. Len(new) : new[i] = all[i + 1]
  BY <1>1, HeadTailProperties
<1>3. Len(all) \in Nat /\ Len(all) >= 1 /\ DOMAIN all = 1 .. Len(all) /\ DOMAIN new = 1 .. Len(all) - 1
  BY <1>2
<1> HIDE DEF new
<1>4. \A i \in 1 .. Len(all) - 1 : new[i] = all[i + 1] /\ i + 1 \in 1 .. Len(all) /\ i + 1 # 1
  BY <1>2, <1>3
<1>5. IsInjective(new)
  <2> SUFFICES ASSUME NEW i \in 1 .. Len(all) - 1, NEW j \in 1 .. Len(all) - 1, new[i] = new[j]
               PROVE  i = j
    BY <1>3 DEF IsInjective
  <2>1. i + 1 = j + 1
    BY <1>3, <1>4 DEF IsInjective
  <2> QED  BY <1>3, <2>1
<1>6. ASSUME NEW x \in ToSet(new) PROVE x \in ToSet(all) /\ x # all[1]
  <2>1. PICK i \in 1 .. Len(all) - 1 : x = new[i]
    BY <1>3 DEF ToSet
  <2>2. 1 \in 1 .. Len(all)
    BY <1>3
  <2> QED  BY <1>3, <1>4, <2>1, <2>2 DEF IsInjective, ToSet
<1>7. ASSUME NEW x \in ToSet(all), x # all[1] PROVE x \in ToSet(new)
  <2>1. PICK i \in 1 .. Len(all) : x = all[i]
    BY <1>3 DEF ToSet
  <2>2. i - 1 \in 1 .. Len(all) - 1 /\ (i - 1) + 1 = i
    BY <1>3, <1>7, <2>1
  <2>3. new[i - 1] = x
    BY <1>4, <2>1, <2>2
  <2> QED  BY <1>3, <2>2, <2>3 DEF ToSet
<1> QED  BY <1>2, <1>5, <1>6, <1>7 DEF new

\* Both together, as Ensure has them: k added to order, and gone left it.
Bounded(new, order, k, gone, K, max) ==
    /\ new \in Seq(K) /\ IsInjective(new) /\ Len(new) <= max
    /\ ToSet(new) = (ToSet(order) \cup {k}) \ gone
    /\ k \notin gone
    /\ gone # {} => Len(order) = max /\ gone = {order[1]}

LEMMA OrderBounded ==
    ASSUME NEW K, NEW order \in Seq(K), NEW max \in Nat \ {0}, NEW k \in K,
           IsInjective(order), Len(order) <= max, k \notin ToSet(order),
           NEW all, all = Append(order, k), NEW gone, gone = Evicted(all, max)
    PROVE  Bounded(SubSeq(all, Cardinality(gone) + 1, Len(all)), order, k, gone, K, max)
<1> DEFINE new == SubSeq(all, Cardinality(gone) + 1, Len(all))
<1> SUFFICES Bounded(new, order, k, gone, K, max)
  OBVIOUS
<1>1. /\ all \in Seq(K) /\ Len(all) = Len(order) + 1 /\ IsInjective(all)
      /\ ToSet(all) = ToSet(order) \cup {k}
      /\ order # <<>> => all[1] = order[1] /\ order[1] # k
  BY OrderGrows
<1>2. Len(order) \in Nat /\ Len(order) <= max /\ max \in Nat \ {0} /\ (order # <<>> <=> Len(order) # 0)
  OBVIOUS
<1>3. gone = IF Len(all) > max THEN ToSet(SubSeq(all, 1, Len(all) - max)) ELSE {}
  BY DEF Evicted
<1> HIDE DEF new
<1>4. CASE Len(order) < max
  <2>1. gone = {}
    BY ONLY <1>1, <1>2, <1>3, <1>4
  <2>2. new = all
    <3>1. Cardinality(gone) + 1 = 1
      BY ONLY <2>1, FS_EmptySet
    <3>2. SubSeq(all, 1, Len(all)) = all
      BY ONLY <1>1, SubSeqFull
    <3> QED  BY ONLY <3>1, <3>2 DEF new
  <2>3. Len(new) <= max
    BY ONLY <1>1, <1>2, <1>4, <2>2
  <2> QED  BY <1>1, <2>1, <2>2, <2>3 DEF Bounded
<1>5. CASE Len(order) = max
  <2>1. /\ Len(all) > max /\ order # <<>> /\ Len(all) - max = 1 /\ all # <<>> /\ Len(all) - 1 = max
        /\ 1 \in 1 .. Len(all)
    BY ONLY <1>1, <1>2, <1>5
  <2>2. gone = {order[1]}
    <3>1. gone = ToSet(SubSeq(all, 1, 1))
      BY ONLY <1>3, <2>1
    <3>2. SubSeq(all, 1, 1) = <<all[1]>>
      <4>1. \A i \in 1 .. 1 : all[i] \in K
        BY ONLY <1>1, <2>1
      <4> DEFINE one == SubSeq(all, 1, 1)
      <4>2. one \in Seq(K) /\ Len(one) = 1 - 1 + 1 /\ \A i \in 1 .. 1 - 1 + 1 : one[i] = all[1 + i - 1]
        BY <4>1, SubSeqProperties
      <4> HIDE DEF one
      <4>3. one \in Seq(K) /\ Len(one) = 1 /\ one[1] = all[1]
        BY ONLY <4>2
      <4>4. one = <<all[1]>>
        BY ONLY <4>3
      <4> QED  BY <4>4 DEF one
    <3>3. ToSet(<<all[1]>>) = {all[1]}
      BY ONLY TRUE DEF ToSet
    <3> QED  BY ONLY <1>1, <2>1, <3>1, <3>2, <3>3
  <2>3. new = SubSeq(all, 2, Len(all))
    <3>1. Cardinality(gone) + 1 = 2
      <4>1. Cardinality({order[1]}) = 1
        BY ONLY FS_Singleton
      <4> QED  BY ONLY <2>2, <4>1
    <3> QED  BY ONLY <3>1 DEF new
  <2>4. /\ new \in Seq(K) /\ Len(new) = max
        /\ IsInjective(new) /\ ToSet(new) = ToSet(all) \ {all[1]}
    BY ONLY <1>1, <2>1, <2>3, OrderCut
  <2>5. Len(new) <= max
    BY ONLY <1>2, <2>4
  <2> QED  BY <1>1, <1>5, <2>1, <2>2, <2>4, <2>5 DEF Bounded
<1>6. Len(order) < max \/ Len(order) = max
  BY ONLY <1>2
<1> QED  BY ONLY <1>4, <1>5, <1>6

\* The record of an id after Ensure: there, and blank if it was not before.
LEMMA EnsureOK ==
    ASSUME NEW K, NEW tab, NEW max \in Nat \ {0}, NEW k \in K, NEW blank, Table(tab, K, max)
    PROVE  LET new == Ensure(tab, k, blank, max)
           IN /\ Table(new, K, max) /\ k \in Keys(new)
              /\ \A j \in Keys(new) : \/ j \in Keys(tab) /\ new.map[j] = tab.map[j]
                                      \/ j = k /\ k \notin Keys(tab) /\ new.map[j] = blank
              /\ OldestLeaves(tab, new, max)
<1>1. CASE k \in Keys(tab)
  BY <1>1 DEF Ensure, OldestLeaves
<1>2. CASE k \notin Keys(tab)
  <2> DEFINE all  == Append(tab.order, k)
             gone == Evicted(all, max)
             ord  == SubSeq(all, Cardinality(gone) + 1, Len(all))
             D    == (Keys(tab) \cup {k}) \ gone
             new  == [map |-> [j \in D |-> IF j = k THEN blank ELSE tab.map[j]], order |-> ord]
  <2>1. Ensure(tab, k, blank, max) = new
    BY <1>2 DEF Ensure
  <2>2. /\ tab.order \in Seq(K) /\ IsInjective(tab.order) /\ Len(tab.order) <= max
        /\ Keys(tab) = ToSet(tab.order)
    BY DEF Table, TableOK
  <2>3. /\ ord \in Seq(K) /\ IsInjective(ord) /\ Len(ord) <= max
        /\ ToSet(ord) = D /\ k \notin gone
        /\ gone # {} => Len(tab.order) = max /\ gone = {tab.order[1]}
    <3>1. k \notin ToSet(tab.order)
      BY <1>2, <2>2
    <3>2. all = Append(tab.order, k) /\ gone = Evicted(all, max)
      OBVIOUS
    <3> HIDE DEF all, gone
    <3>3. SubSeq(all, Cardinality(gone) + 1, Len(all)) = ord
      OBVIOUS
    <3> HIDE DEF ord
    <3>4. Bounded(ord, tab.order, k, gone, K, max)
      BY <2>2, <3>1, <3>2, <3>3, OrderBounded
    <3> QED  BY <2>2, <3>4 DEF Bounded
  <2> HIDE DEF ord, gone
  <2>4. new.order = ord /\ Keys(new) = D /\ \A j \in D : new.map[j] = IF j = k THEN blank ELSE tab.map[j]
    BY DEF Keys
  <2>5. /\ new = [map |-> new.map, order |-> new.order]
        /\ new.map = [j \in Keys(new) |-> new.map[j]]
    BY <2>4
  <2> HIDE DEF new
  <2>6. Table(new, K, max)
    BY <2>3, <2>4, <2>5 DEF Table, TableOK
  <2>7. OldestLeaves(tab, new, max)
    <3> SUFFICES ASSUME NEW j \in Keys(tab) \ Keys(new)
                 PROVE  Len(tab.order) = max /\ tab.order[1] = j /\ Keys(new) \ Keys(tab) # {}
      BY DEF OldestLeaves
    <3>1. j \in gone /\ k \in Keys(new) \ Keys(tab)
      BY <1>2, <2>3, <2>4
    <3> QED  BY <2>3, <3>1
  <2> QED  BY <1>2, <2>1, <2>3, <2>4, <2>6, <2>7
<1> QED  BY <1>1, <1>2

\* Writing to a record that is there.
LEMMA UpdateOK ==
    ASSUME NEW K, NEW tab, NEW max, NEW k \in Keys(tab), NEW rec, Table(tab, K, max)
    PROVE  LET new == Update(tab, k, rec)
           IN /\ Table(new, K, max) /\ Keys(new) = Keys(tab) /\ new.order = tab.order
              /\ new.map[k] = rec /\ \A j \in Keys(tab) : j # k => new.map[j] = tab.map[j]
<1> DEFINE new == Update(tab, k, rec)
<1>1. new = [map |-> [tab.map EXCEPT ![k] = rec], order |-> tab.order]
  BY DEF Update, Table
<1>2. /\ new.order = tab.order /\ new.map = [tab.map EXCEPT ![k] = rec]
      /\ new = [map |-> new.map, order |-> new.order]
  BY <1>1
<1>3. /\ Keys(new) = Keys(tab) /\ new.map = [j \in Keys(new) |-> new.map[j]]
      /\ new.map[k] = rec /\ \A j \in Keys(tab) : j # k => new.map[j] = tab.map[j]
  BY <1>2 DEF Table, Keys
<1> HIDE DEF new
<1>4. Table(new, K, max)
  BY <1>2, <1>3 DEF Table, TableOK
<1> QED  BY <1>2, <1>3, <1>4 DEF new

-----------------------------------------------------------------------------
(* The levels.                                                             *)

ItemOK(item, t, u, i) ==
    item = [id |-> i, threadId |-> t, turnId |-> u, status |-> item.status]

TurnOK(turn, t, u) ==
    /\ turn = [id |-> u, threadId |-> t, status |-> turn.status, diff |-> turn.diff,
               plan |-> turn.plan, items |-> turn.items]
    /\ Table(turn.items, ItemID, MaxItemsPerTurn)
    /\ \A i \in Keys(turn.items) : ItemOK(turn.items.map[i], t, u, i)

ThreadOK(th, t) ==
    /\ th = [id |-> t, status |-> th.status, usage |-> th.usage, turns |-> th.turns]
    /\ Table(th.turns, TurnID, MaxTurnsPerThread)
    /\ \A u \in Keys(th.turns) : TurnOK(th.turns.map[u], t, u)

\* The inductive invariant, of a store.
StoreInv(s) ==
    /\ Table(s, ThreadID, MaxThreads)
    /\ \A t \in Keys(s) : ThreadOK(s.map[t], t)

LEMMA Bounds == /\ MaxThreads \in Nat \ {0} /\ MaxTurnsPerThread \in Nat \ {0}
                /\ MaxItemsPerTurn \in Nat \ {0}
BY BoundsAssumption

LEMMA NoneLeaves ==
    ASSUME NEW tab, NEW new, NEW max, Keys(new) = Keys(tab)
    PROVE  OldestLeaves(tab, new, max)
BY DEF OldestLeaves

LEMMA InvIsOK == ASSUME StoreInv(store) PROVE StoreOK
<1>1. ASSUME NEW turn, NEW t, NEW u, TurnOK(turn, t, u)
      PROVE  TurnFits(turn, t, u)
  <2>1. turn.id = u /\ turn.threadId = t /\ TableOK(turn.items, MaxItemsPerTurn)
    BY <1>1 DEF TurnOK, Table
  <2>2. ASSUME NEW item, NEW i, ItemOK(item, t, u, i)
        PROVE  item.id = i /\ item.turnId = u /\ item.threadId = t
    BY <2>2 DEF ItemOK
  <2>3. \A i \in Keys(turn.items) : ItemOK(turn.items.map[i], t, u, i)
    BY <1>1 DEF TurnOK
  <2> QED  BY <2>1, <2>2, <2>3 DEF TurnFits
<1>2. ASSUME NEW th, NEW t, ThreadOK(th, t)
      PROVE  ThreadFits(th, t)
  BY <1>1, <1>2 DEF ThreadOK, Table, ThreadFits
<1> QED  BY <1>2 DEF StoreInv, Table, StoreOK

-----------------------------------------------------------------------------
(* The operations.                                                         *)

\* A turn is there after ensureTurnLocked.
LEMMA WithTurnOK ==
    ASSUME NEW th, NEW t, ThreadOK(th, t), NEW u \in TurnID
    PROVE  LET new == WithTurn(th, t, u)
           IN /\ ThreadOK(new, t) /\ u \in Keys(new.turns) /\ TurnsEvict(th, new)
              /\ \A x \in Keys(th.turns) \cap Keys(new.turns) : new.turns.map[x] = th.turns.map[x]
<1> DEFINE new   == WithTurn(th, t, u)
           turns == Ensure(th.turns, u, BlankTurn(t, u), MaxTurnsPerThread)
<1>1. new = [id |-> t, status |-> th.status, usage |-> th.usage, turns |-> turns]
  BY DEF WithTurn, ThreadOK
<1>2. /\ Table(turns, TurnID, MaxTurnsPerThread) /\ u \in Keys(turns)
      /\ \A j \in Keys(turns) : \/ j \in Keys(th.turns) /\ turns.map[j] = th.turns.map[j]
                                \/ j = u /\ u \notin Keys(th.turns) /\ turns.map[j] = BlankTurn(t, u)
      /\ OldestLeaves(th.turns, turns, MaxTurnsPerThread)
  BY EnsureOK, Bounds DEF ThreadOK
<1>3. TurnOK(BlankTurn(t, u), t, u)
  BY EmptyTableOK, Bounds DEF TurnOK, BlankTurn
<1> HIDE DEF turns, new
<1>4. /\ new = [id |-> t, status |-> new.status, usage |-> new.usage, turns |-> new.turns]
      /\ new.turns = turns
  BY <1>1
<1>5. ThreadOK(new, t)
  BY <1>2, <1>3, <1>4 DEF ThreadOK
<1>6. TurnsEvict(th, new)
  BY <1>2, <1>4, NoneLeaves DEF TurnsEvict
<1> QED  BY <1>2, <1>4, <1>5, <1>6 DEF new

\* A thread is there after ensureThreadLocked.
LEMMA WithThreadOK ==
    ASSUME NEW s, StoreInv(s), NEW t \in ThreadID
    PROVE  /\ StoreInv(WithThread(s, t)) /\ t \in Keys(WithThread(s, t))
           /\ StoreEvicts(s, WithThread(s, t))
           /\ \A x \in Keys(s) \cap Keys(WithThread(s, t)) : WithThread(s, t).map[x] = s.map[x]
<1> DEFINE new == WithThread(s, t)
<1>1. /\ Table(new, ThreadID, MaxThreads) /\ t \in Keys(new)
      /\ \A j \in Keys(new) : \/ j \in Keys(s) /\ new.map[j] = s.map[j]
                              \/ j = t /\ t \notin Keys(s) /\ new.map[j] = BlankThread(t)
      /\ OldestLeaves(s, new, MaxThreads)
  BY EnsureOK, Bounds DEF StoreInv, WithThread
<1>2. ThreadOK(BlankThread(t), t)
  BY EmptyTableOK, Bounds DEF ThreadOK, BlankThread
<1> HIDE DEF new
<1>3. \A x \in Keys(s) \cap Keys(new) : new.map[x] = s.map[x]
  BY <1>1
<1>4. StoreInv(new)
  BY <1>1, <1>2 DEF StoreInv
<1>5. StoreEvicts(s, new)
  BY <1>1, <1>3, NoneLeaves DEF StoreEvicts, TurnsEvict
<1> QED  BY <1>1, <1>3, <1>4, <1>5 DEF new

\* A thread's record written back.
LEMMA WriteThread ==
    ASSUME NEW s, StoreInv(s), NEW t \in ThreadID, NEW th, ThreadOK(th, t),
           TurnsEvict(WithThread(s, t).map[t], th)
    PROVE  LET new == Update(WithThread(s, t), t, th)
           IN /\ StoreInv(new) /\ StoreEvicts(s, new) /\ t \in Keys(new) /\ new.map[t] = th
<1> DEFINE mid == WithThread(s, t)
           new == Update(mid, t, th)
<1>1. /\ StoreInv(mid) /\ t \in Keys(mid) /\ StoreEvicts(s, mid)
      /\ \A x \in Keys(s) \cap Keys(mid) : mid.map[x] = s.map[x]
      /\ TurnsEvict(mid.map[t], th)
  BY WithThreadOK
<1> HIDE DEF mid
<1>2. /\ Table(new, ThreadID, MaxThreads) /\ Keys(new) = Keys(mid) /\ new.map[t] = th
      /\ \A j \in Keys(mid) : j # t => new.map[j] = mid.map[j]
  BY <1>1, UpdateOK DEF StoreInv
<1> HIDE DEF new
<1>3. StoreInv(new)
  BY <1>1, <1>2 DEF StoreInv
<1>4. StoreEvicts(s, new)
  <2>1. OldestLeaves(s, new, MaxThreads)
    BY <1>1, <1>2 DEF StoreEvicts, OldestLeaves
  <2>2. ASSUME NEW x \in Keys(s) \cap Keys(new) PROVE TurnsEvict(s.map[x], new.map[x])
    <3>1. mid.map[x] = s.map[x] /\ TurnsEvict(s.map[x], mid.map[x])
      BY <1>1, <1>2 DEF StoreEvicts
    <3> QED  BY <1>1, <1>2, <3>1
  <2> QED  BY <2>1, <2>2 DEF StoreEvicts
<1>5. StoreInv(new) /\ StoreEvicts(s, new) /\ t \in Keys(new) /\ new.map[t] = th
  BY <1>1, <1>2, <1>3, <1>4
<1> QED  BY <1>5 DEF new, mid

\* A turn's record written back, through its thread: the record is there, and
\* what left made room for a new one.
Written(s, new, t, u, turn) ==
    /\ StoreInv(new) /\ StoreEvicts(s, new)
    /\ t \in Keys(new) /\ u \in Keys(new.map[t].turns) /\ new.map[t].turns.map[u] = turn

LEMMA TurnOfOK ==
    ASSUME NEW s, StoreInv(s), NEW t \in ThreadID, NEW u \in TurnID
    PROVE  TurnOK(TurnOf(s, t, u), t, u)
<1>1. ThreadOK(WithThread(s, t).map[t], t)
  BY WithThreadOK DEF StoreInv
<1>2. /\ ThreadOK(WithTurn(WithThread(s, t).map[t], t, u), t)
      /\ u \in Keys(WithTurn(WithThread(s, t).map[t], t, u).turns)
  BY <1>1, WithTurnOK
<1> QED  BY <1>2 DEF ThreadOK, TurnOf

LEMMA PutTurnOK ==
    ASSUME NEW s, StoreInv(s), NEW t \in ThreadID, NEW u \in TurnID, NEW turn, TurnOK(turn, t, u),
           OldestLeaves(TurnOf(s, t, u).items, turn.items, MaxItemsPerTurn)
    PROVE  Written(s, PutTurn(s, t, u, turn), t, u, turn)
<1> DEFINE old   == WithThread(s, t).map[t]
           th    == WithTurn(old, t, u)
           turns == Update(th.turns, u, turn)
           new   == [th EXCEPT !.turns = turns]
<1>1. ThreadOK(old, t)
  BY WithThreadOK DEF StoreInv
<1>2. /\ ThreadOK(th, t) /\ u \in Keys(th.turns) /\ TurnsEvict(old, th)
      /\ \A x \in Keys(old.turns) \cap Keys(th.turns) : th.turns.map[x] = old.turns.map[x]
  BY <1>1, WithTurnOK
<1>3. TurnOf(s, t, u) = th.turns.map[u]
  BY DEF TurnOf
<1>4. PutTurn(s, t, u, turn) = Update(WithThread(s, t), t, new)
  BY DEF PutTurn
<1> HIDE DEF old, th
<1>5. /\ Table(turns, TurnID, MaxTurnsPerThread) /\ Keys(turns) = Keys(th.turns)
      /\ turns.map[u] = turn /\ \A x \in Keys(th.turns) : x # u => turns.map[x] = th.turns.map[x]
  <2>1. Table(th.turns, TurnID, MaxTurnsPerThread)
    BY <1>2 DEF ThreadOK
  <2> QED  BY <1>2, <2>1, UpdateOK
<1> HIDE DEF turns
<1>6. new = [id |-> t, status |-> th.status, usage |-> th.usage, turns |-> turns]
  BY <1>2 DEF ThreadOK
<1> HIDE DEF new
<1>7. /\ new = [id |-> t, status |-> new.status, usage |-> new.usage, turns |-> new.turns]
      /\ new.turns = turns
  BY <1>6
<1>8. ThreadOK(new, t)
  BY <1>2, <1>5, <1>7 DEF ThreadOK
<1>9. TurnsEvict(old, new)
  <2>1. OldestLeaves(old.turns, new.turns, MaxTurnsPerThread)
    BY <1>2, <1>5, <1>7 DEF TurnsEvict, OldestLeaves
  <2>2. ASSUME NEW x \in Keys(old.turns) \cap Keys(new.turns)
        PROVE  OldestLeaves(old.turns.map[x].items, new.turns.map[x].items, MaxItemsPerTurn)
    <3>1. /\ OldestLeaves(old.turns.map[x].items, th.turns.map[x].items, MaxItemsPerTurn)
          /\ th.turns.map[x] = old.turns.map[x]
      BY <1>2, <1>5, <1>7 DEF TurnsEvict
    <3>2. CASE x = u
      BY <1>3, <1>5, <1>7, <3>1, <3>2
    <3>3. CASE x # u
      BY <1>5, <1>7, <3>1, <3>3
    <3> QED  BY <3>2, <3>3
  <2> QED  BY <2>1, <2>2 DEF TurnsEvict
<1>10. TurnsEvict(WithThread(s, t).map[t], new)
  BY <1>9 DEF old
<1>11. LET put == Update(WithThread(s, t), t, new)
       IN StoreInv(put) /\ StoreEvicts(s, put) /\ t \in Keys(put) /\ put.map[t] = new
  BY <1>8, <1>10, WriteThread
<1> QED  BY <1>2, <1>4, <1>5, <1>7, <1>11 DEF Written

\* The operations that leave a turn's items alone.
LEMMA TurnFieldsOK ==
    ASSUME NEW s, StoreInv(s), NEW t \in ThreadID, NEW u \in TurnID, NEW x
    PROVE  /\ Written(s, UpsertTurn(s, t, u, x), t, u,
                       [TurnOf(s, t, u) EXCEPT !.threadId = t, !.status = Merge(@, x)])
           /\ Written(s, SetTurnDiff(s, t, u, x), t, u, [TurnOf(s, t, u) EXCEPT !.diff = x])
           /\ Written(s, SetTurnPlan(s, t, u, x), t, u, [TurnOf(s, t, u) EXCEPT !.plan = x])
<1> DEFINE old == TurnOf(s, t, u)
<1>1. TurnOK(old, t, u)
  BY TurnOfOK
<1>2. ASSUME NEW new, new = [id |-> u, threadId |-> t, status |-> new.status, diff |-> new.diff,
                             plan |-> new.plan, items |-> old.items]
      PROVE  TurnOK(new, t, u) /\ OldestLeaves(old.items, new.items, MaxItemsPerTurn)
  <2>1. new.items = old.items
    BY <1>2
  <2>2. new = [id |-> u, threadId |-> t, status |-> new.status, diff |-> new.diff,
               plan |-> new.plan, items |-> new.items]
    BY <1>2, <2>1
  <2>3. TurnOK(new, t, u)
    BY <1>1, <2>1, <2>2 DEF TurnOK
  <2> QED  BY <2>1, <2>3, NoneLeaves
<1>3. old = [id |-> u, threadId |-> t, status |-> old.status, diff |-> old.diff,
             plan |-> old.plan, items |-> old.items]
  BY <1>1 DEF TurnOK
<1> HIDE DEF old
<1>4. ASSUME NEW new \in {[old EXCEPT !.threadId = t, !.status = Merge(@, x)],
                          [old EXCEPT !.diff = x], [old EXCEPT !.plan = x]}
      PROVE  TurnOK(new, t, u) /\ OldestLeaves(old.items, new.items, MaxItemsPerTurn)
  <2> DEFINE Rest(n) == n = [id |-> u, threadId |-> t, status |-> n.status, diff |-> n.diff,
                             plan |-> n.plan, items |-> old.items]
  <2>1. Rest([old EXCEPT !.threadId = t, !.status = Merge(@, x)])
    <3>1. [old EXCEPT !.threadId = t, !.status = Merge(@, x)] =
          [[old EXCEPT !.threadId = t] EXCEPT !.status = Merge(old.status, x)]
      BY ONLY <1>3
    <3>2. [old EXCEPT !.threadId = t] = old
      BY ONLY <1>3
    <3>3. Rest([old EXCEPT !.status = Merge(old.status, x)])
      BY ONLY <1>3
    <3> QED  BY ONLY <3>1, <3>2, <3>3
  <2>2. Rest([old EXCEPT !.diff = x])
    BY ONLY <1>3
  <2>3. Rest([old EXCEPT !.plan = x])
    BY ONLY <1>3
  <2>4. Rest(new)
    <3> HIDE DEF Rest
    <3> QED  BY <1>4, <2>1, <2>2, <2>3
  <2> QED  BY <1>2, <2>4
<1>5. ASSUME NEW new \in {[old EXCEPT !.threadId = t, !.status = Merge(@, x)],
                          [old EXCEPT !.diff = x], [old EXCEPT !.plan = x]}
      PROVE  Written(s, PutTurn(s, t, u, new), t, u, new)
  BY <1>4, PutTurnOK DEF old
<1> QED  BY <1>5 DEF UpsertTurn, SetTurnDiff, SetTurnPlan, old

\* The operations that leave a thread's turns alone.
LEMMA ThreadFieldsOK ==
    ASSUME NEW s, StoreInv(s), NEW t \in ThreadID, NEW x
    PROVE  /\ StoreInv(UpsertThread(s, t, x)) /\ StoreEvicts(s, UpsertThread(s, t, x))
           /\ StoreInv(SetThreadTokenUsage(s, t, x)) /\ StoreEvicts(s, SetThreadTokenUsage(s, t, x))
<1> DEFINE old == WithThread(s, t).map[t]
<1>1. ThreadOK(old, t)
  BY WithThreadOK DEF StoreInv
<1>2. old = [id |-> t, status |-> old.status, usage |-> old.usage, turns |-> old.turns]
  BY <1>1 DEF ThreadOK
<1> HIDE DEF old
<1>3. ASSUME NEW th \in {[old EXCEPT !.status = Merge(@, x)], [old EXCEPT !.usage = x]}
      PROVE  ThreadOK(th, t) /\ TurnsEvict(old, th)
  <2>1. th.turns = old.turns /\ th = [id |-> t, status |-> th.status, usage |-> th.usage, turns |-> th.turns]
    BY <1>2
  <2>2. ThreadOK(th, t)
    BY <1>1, <2>1 DEF ThreadOK
  <2> QED  BY <2>1, <2>2, NoneLeaves DEF TurnsEvict
<1>4. ASSUME NEW th \in {[old EXCEPT !.status = Merge(@, x)], [old EXCEPT !.usage = x]}
      PROVE  /\ StoreInv(Update(WithThread(s, t), t, th))
             /\ StoreEvicts(s, Update(WithThread(s, t), t, th))
  <2>1. ThreadOK(th, t) /\ TurnsEvict(WithThread(s, t).map[t], th)
    BY <1>3, <1>4 DEF old
  <2> QED  BY <2>1, WriteThread
<1> QED  BY <1>4 DEF UpsertThread, SetThreadTokenUsage, old

\* UpsertItem: the item is there afterwards, with the status it was given.
ItemWritten(s, new, t, u, i, x) ==
    /\ StoreInv(new) /\ StoreEvicts(s, new)
    /\ t \in Keys(new) /\ u \in Keys(new.map[t].turns)
    /\ i \in Keys(new.map[t].turns.map[u].items)
    /\ x # None => new.map[t].turns.map[u].items.map[i].status = x

LEMMA UpsertItemOK ==
    ASSUME NEW s, StoreInv(s), NEW t \in ThreadID, NEW u \in TurnID, NEW i \in ItemID, NEW x
    PROVE  ItemWritten(s, UpsertItem(s, t, u, i, x), t, u, i, x)
<1> DEFINE old   == TurnOf(s, t, u)
           mid   == Ensure(old.items, i, BlankItem(t, u, i), MaxItemsPerTurn)
           item  == [mid.map[i] EXCEPT !.threadId = t, !.turnId = u, !.status = Merge(@, x)]
           items == Update(mid, i, item)
           turn  == [old EXCEPT !.items = items]
<1>1. TurnOK(old, t, u)
  BY TurnOfOK
<1>2. UpsertItem(s, t, u, i, x) = PutTurn(s, t, u, turn)
  BY DEF UpsertItem
<1>3. /\ Table(mid, ItemID, MaxItemsPerTurn) /\ i \in Keys(mid)
      /\ \A j \in Keys(mid) : \/ j \in Keys(old.items) /\ mid.map[j] = old.items.map[j]
                              \/ j = i /\ i \notin Keys(old.items) /\ mid.map[j] = BlankItem(t, u, i)
      /\ OldestLeaves(old.items, mid, MaxItemsPerTurn)
  <2>1. Table(old.items, ItemID, MaxItemsPerTurn)
    BY <1>1 DEF TurnOK
  <2> QED  BY <2>1, EnsureOK, Bounds
<1> HIDE DEF old, mid
<1>4. \A j \in Keys(mid) : ItemOK(mid.map[j], t, u, j)
  BY <1>1, <1>3 DEF TurnOK, ItemOK, BlankItem
<1>5. ItemOK(item, t, u, i) /\ (x # None => item.status = x)
  <2>1. mid.map[i] = [id |-> i, threadId |-> t, turnId |-> u, status |-> mid.map[i].status]
    BY <1>3, <1>4 DEF ItemOK
  <2> DEFINE rec == mid.map[i]
  <2>2. item = [[[rec EXCEPT !.threadId = t] EXCEPT !.turnId = u] EXCEPT !.status = Merge(rec.status, x)]
    BY <2>1
  <2> HIDE DEF rec, item
  <2>3. [rec EXCEPT !.threadId = t] = rec /\ [rec EXCEPT !.turnId = u] = rec
    BY ONLY <2>1 DEF rec
  <2>4. [rec EXCEPT !.status = Merge(rec.status, x)] =
        [id |-> i, threadId |-> t, turnId |-> u, status |-> Merge(rec.status, x)]
    BY ONLY <2>1 DEF rec
  <2>5. item = [id |-> i, threadId |-> t, turnId |-> u, status |-> Merge(rec.status, x)]
    BY ONLY <2>2, <2>3, <2>4
  <2> QED  BY ONLY <2>5 DEF ItemOK, Merge
<1> HIDE DEF item
<1>6. /\ Table(items, ItemID, MaxItemsPerTurn) /\ Keys(items) = Keys(mid)
      /\ items.map[i] = item /\ \A j \in Keys(mid) : j # i => items.map[j] = mid.map[j]
  BY <1>3, UpdateOK
<1>7. OldestLeaves(old.items, items, MaxItemsPerTurn)
  BY <1>3, <1>6 DEF OldestLeaves
<1> HIDE DEF items
<1>8. turn = [id |-> u, threadId |-> t, status |-> old.status, diff |-> old.diff,
              plan |-> old.plan, items |-> items]
  BY <1>1 DEF TurnOK
<1> HIDE DEF turn
<1>9. /\ turn.items = items
      /\ turn = [id |-> u, threadId |-> t, status |-> turn.status, diff |-> turn.diff,
                 plan |-> turn.plan, items |-> turn.items]
  BY <1>8
<1>10. TurnOK(turn, t, u)
  BY <1>4, <1>5, <1>6, <1>9 DEF TurnOK
<1>11. Written(s, PutTurn(s, t, u, turn), t, u, turn)
  BY <1>7, <1>9, <1>10, PutTurnOK DEF old
<1>12. /\ i \in Keys(turn.items) /\ (x # None => turn.items.map[i].status = x)
  BY <1>3, <1>5, <1>6, <1>9
<1>13. Written(s, UpsertItem(s, t, u, i, x), t, u, turn)
  BY <1>2, <1>11
<1> QED  BY ONLY <1>12, <1>13 DEF Written, ItemWritten

-----------------------------------------------------------------------------
(* The events.                                                             *)

\* Whatever the event, the store stays in order and only the oldest left.
LEMMA AppliedOK ==
    ASSUME NEW e \in Events, NEW s, StoreInv(s)
    PROVE  StoreInv(Applied(e, s)) /\ StoreEvicts(s, Applied(e, s))
<1>1. /\ e.id # None => e.id \in ThreadID
      /\ e.threadId # None => e.threadId \in ThreadID
      /\ e.turnId # None => e.turnId \in TurnID
      /\ e.itemId # None => e.itemId \in ItemID
  BY EventsAssumption DEF Event
<1>2. StoreEvicts(s, s)
  BY NoneLeaves DEF StoreEvicts, TurnsEvict
<1>3. ASSUME e.id # None
      PROVE  /\ StoreInv(UpsertThread(s, e.id, e.status))
             /\ StoreEvicts(s, UpsertThread(s, e.id, e.status))
  BY <1>1, <1>3, ThreadFieldsOK
<1>4. ASSUME e.threadId # None
      PROVE  /\ StoreInv(SetThreadTokenUsage(s, e.threadId, e.payload))
             /\ StoreEvicts(s, SetThreadTokenUsage(s, e.threadId, e.payload))
  BY <1>1, <1>4, ThreadFieldsOK
<1>5. ASSUME e.threadId # None, e.turnId # None
      PROVE  /\ StoreInv(UpsertTurn(s, e.threadId, e.turnId, e.status))
             /\ StoreEvicts(s, UpsertTurn(s, e.threadId, e.turnId, e.status))
  BY <1>1, <1>5, TurnFieldsOK DEF Written
<1>6. ASSUME e.threadId # None, e.turnId # None
      PROVE  /\ StoreInv(SetTurnDiff(s, e.threadId, e.turnId, e.payload))
             /\ StoreEvicts(s, SetTurnDiff(s, e.threadId, e.turnId, e.payload))
             /\ StoreInv(SetTurnPlan(s, e.threadId, e.turnId, e.payload))
             /\ StoreEvicts(s, SetTurnPlan(s, e.threadId, e.turnId, e.payload))
  BY <1>1, <1>6, TurnFieldsOK DEF Written
<1>7. ASSUME e.threadId # None, e.turnId # None, e.itemId # None
      PROVE  /\ StoreInv(UpsertItem(s, e.threadId, e.turnId, e.itemId, ItemStatus(e)))
             /\ StoreEvicts(s, UpsertItem(s, e.threadId, e.turnId, e.itemId, ItemStatus(e)))
  BY <1>1, <1>7, UpsertItemOK DEF ItemWritten
<1> QED  BY <1>2, <1>3, <1>4, <1>5, <1>6, <1>7 DEF Applied

\* The item an item event is about is there once it has been applied.
LEMMA AppliedLands ==
    ASSUME NEW e \in Events, NEW s, StoreInv(s), e.method \in {"item/started", "item/completed"},
           None \notin {e.threadId, e.turnId, e.itemId}
    PROVE  LET new == Applied(e, s)
           IN /\ Has(new, e.threadId, e.turnId, e.itemId)
              /\ new.map[e.threadId].turns.map[e.turnId].items.map[e.itemId].status = ItemStatus(e)
<1>1. /\ e.threadId \in ThreadID /\ e.turnId \in TurnID /\ e.itemId \in ItemID
      /\ Applied(e, s) = UpsertItem(s, e.threadId, e.turnId, e.itemId, ItemStatus(e))
      /\ ItemStatus(e) # None
  <2>1. Applied(e, s) = UpsertItem(s, e.threadId, e.turnId, e.itemId, ItemStatus(e))
    BY DEF Applied
  <2>2. ItemStatus(e) # None
    BY DEF ItemStatus, None
  <2> QED  BY <2>1, <2>2, EventsAssumption DEF Event
<1>2. ItemWritten(s, Applied(e, s), e.threadId, e.turnId, e.itemId, ItemStatus(e))
  BY <1>1, UpsertItemOK
<1> QED  BY ONLY <1>1, <1>2 DEF ItemWritten, Has

StoreIInv == StoreInv(store) /\ WriteLands

LEMMA StoreInvInit == Init => StoreIInv
<1> SUFFICES ASSUME Init PROVE StoreIInv
  OBVIOUS
<1>1. StoreInv(store)
  BY EmptyTableOK, Bounds DEF Init, StoreInv
<1>2. WriteLands
  <2>1. ToSet(last) = {}
    BY DEF Init, ToSet
  <2> QED  BY <2>1 DEF WriteLands
<1> QED  BY <1>1, <1>2 DEF StoreIInv

LEMMA StoreInvNext == ASSUME StoreIInv, [Next]_vars PROVE StoreIInv' /\ (Next => StoreEvicts(store, store'))
<1>1. ASSUME NEW e \in Events, Apply(e) PROVE StoreIInv' /\ StoreEvicts(store, store')
  <2>1. store' = Applied(e, store) /\ ToSet(last') = {e}
    <3>1. ToSet(<<e>>) = {e}
      BY ONLY TRUE DEF ToSet
    <3> QED  BY <1>1, <3>1 DEF Apply
  <2>2. StoreInv(store') /\ StoreEvicts(store, store')
    BY <2>1, AppliedOK DEF StoreIInv
  <2>3. WriteLands'
    BY <2>1, AppliedLands DEF StoreIInv, WriteLands
  <2> QED  BY <2>2, <2>3 DEF StoreIInv
<1>2. CASE UNCHANGED vars
  BY <1>2, <1>1 DEF vars, StoreIInv, WriteLands, Next
<1> QED  BY <1>1, <1>2 DEF Next

\* For any ids, bounds and events: at every level of the store the order lists
\* each record once, and no level exceeds its bound (enforceThreadBoundLocked
\* and its siblings).
THEOREM StoreStaysOK == Spec => []StoreOK
<1>1. StoreIInv => StoreOK
  BY InvIsOK DEF StoreIInv
<1> QED  BY <1>1, StoreInvInit, StoreInvNext, PTL DEF Spec

\* The item an event writes is in the store when the event has been applied,
\* with its status: no bound of the three levels drops it at once (UpsertItem).
THEOREM WritesLand == Spec => []WriteLands
<1>1. StoreIInv => WriteLands
  BY DEF StoreIInv
<1> QED  BY <1>1, StoreInvInit, StoreInvNext, PTL DEF Spec

\* A thread, turn or item leaves the store only when its level was full, as the
\* oldest, and for a new one: an update of a record that exists evicts nothing.
THEOREM OnlyOldestLeaves == Spec => EvictsOldest
<1>1. ASSUME StoreIInv, [Next]_vars PROVE [StoreEvicts(store, store')]_vars
  BY <1>1, StoreInvNext
<1> QED  BY <1>1, StoreInvInit, StoreInvNext, PTL DEF Spec, EvictsOldest
=============================================================================
