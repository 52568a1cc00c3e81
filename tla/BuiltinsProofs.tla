----------------------------- MODULE BuiltinsProofs -----------------------------
(***************************************************************************)
(* The built-in harnesses, for any number of goroutines, threads, turns    *)
(* and notifications and any composition: the gates, the end of a dispatch *)
(* with its first error, auto-compaction, the budget of the TDD loop.      *)
(***************************************************************************)
EXTENDS Builtins, FiniteSetTheorems, SequenceTheorems, TLAPS

-----------------------------------------------------------------------------
(* The inductive invariant.                                                *)

\* Where a goroutine holds a turn for a gate, and the calls that use it up.
Busy(h)   == IF h = "plan" THEN {"approve", "steer", "interrupt"} ELSE {"review"}
Finals(h) == IF h = "plan" THEN {"steer", "interrupt"} ELSE {"review"}

Holds(g, h, x) == pc[g] \in Busy(h) /\ TurnOf(g) = x
Did(n, h, x)   == made[n].call \in Finals(h) /\ <<made[n].thread, made[n].turn>> = x

\* The part of the type invariant the proof uses.
CallRecord == [job : Nat, call : Call \cup {"low"}, thread : Thread \cup {None},
               turn : Turn \cup {None}, ok : BOOLEAN, more : BOOLEAN]
Types ==
    /\ pc \in [Goroutine -> Location]
    /\ event \in [Goroutine -> Event \cup {None}]
    /\ \A g \in Goroutine : pc[g] # "idle" => event[g] \in Event
    /\ job \in [Goroutine -> Nat] /\ dispatched \in Nat
    /\ seen \in [Gate -> SUBSET ((Thread \cup {None}) \X (Turn \cup {None}))]
    /\ made \in Seq(CallRecord)

\* A turn is held by one goroutine or used up by one call, never both, and only
\* once it has been seen.
Once(h, x) ==
    /\ x \notin seen[h] => /\ \A g \in Goroutine : ~Holds(g, h, x)
                           /\ \A n \in DOMAIN made : ~Did(n, h, x)
    /\ \A f, g \in Goroutine : Holds(f, h, x) /\ Holds(g, h, x) => f = g
    /\ \A m, n \in DOMAIN made : Did(m, h, x) /\ Did(n, h, x) => m = n
    /\ \A g \in Goroutine, n \in DOMAIN made : ~(Holds(g, h, x) /\ Did(n, h, x))

GateInv == Types /\ \A h \in Gate : \A x : Once(h, x)

-----------------------------------------------------------------------------
(* What a step may do to a gate.                                           *)

\* Nobody new holds a turn, no call uses one up.
Quiet(h) ==
    /\ seen'[h] = seen[h]
    /\ \A g \in Goroutine : \A x : Holds(g, h, x)' => Holds(g, h, x)
    /\ \A n \in DOMAIN made' : \A x : Did(n, h, x)' => n \in DOMAIN made /\ Did(n, h, x)

LEMMA QuietKeeps == ASSUME NEW h, NEW x, Once(h, x), Quiet(h) PROVE Once(h, x)'
BY DEF Once, Quiet

\* g takes a turn nobody has seen.
LEMMA TakeKeeps ==
    ASSUME NEW h, NEW x, Once(h, x), NEW g \in Goroutine, NEW t, t \notin seen[h],
           seen'[h] = seen[h] \cup {t}, made' = made,
           \A y : Holds(g, h, y)' => y = t,
           \A f \in Goroutine \ {g} : \A y : Holds(f, h, y)' => Holds(f, h, y)
    PROVE  Once(h, x)'
<1>1. \A n \in DOMAIN made : Did(n, h, x)' <=> Did(n, h, x)
  BY DEF Did
<1>2. CASE x = t
  <2>1. /\ \A f \in Goroutine : ~Holds(f, h, x)
        /\ \A n \in DOMAIN made : ~Did(n, h, x)
    BY <1>2 DEF Once
  <2>2. \A f \in Goroutine : Holds(f, h, x)' => f = g
    BY <2>1
  <2> QED  BY <1>1, <1>2, <2>1, <2>2 DEF Once
<1>3. CASE x # t
  <2>1. \A f \in Goroutine : Holds(f, h, x)' => Holds(f, h, x)
    BY <1>3
  <2> QED  BY <1>1, <1>3, <2>1 DEF Once
<1> QED  BY <1>2, <1>3

\* The call of g that uses up the turn it holds.
LEMMA UseKeeps ==
    ASSUME NEW h, NEW x, Once(h, x), NEW g \in Goroutine, NEW t, Holds(g, h, t),
           seen'[h] = seen[h], NEW new, new \notin DOMAIN made,
           DOMAIN made' = DOMAIN made \cup {new},
           \A n \in DOMAIN made : \A y : Did(n, h, y)' <=> Did(n, h, y),
           \A y : Did(new, h, y)' => y = t,
           \A y : ~Holds(g, h, y)',
           \A f \in Goroutine \ {g} : \A y : Holds(f, h, y)' => Holds(f, h, y)
    PROVE  Once(h, x)'
<1>1. CASE x = t
  <2>1. \A f \in Goroutine : Holds(f, h, x) => f = g
    BY <1>1 DEF Once
  <2>2. \A n \in DOMAIN made : ~Did(n, h, x)
    BY <1>1 DEF Once
  <2>3. \A f \in Goroutine : ~Holds(f, h, x)'
    BY <2>1
  <2>4. x \in seen[h]
    BY <1>1 DEF Once
  <2> QED  BY <2>2, <2>3, <2>4 DEF Once
<1>2. CASE x # t
  <2>1. \A n \in DOMAIN made' : Did(n, h, x)' => n \in DOMAIN made /\ Did(n, h, x)
    BY <1>2
  <2>2. \A f \in Goroutine : Holds(f, h, x)' => Holds(f, h, x)
    OBVIOUS
  <2> QED  BY <2>1, <2>2 DEF Once
<1> QED  BY <1>1, <1>2

-----------------------------------------------------------------------------
(* The steps, in those terms.                                              *)

\* A step of g from one location to another, its notification kept or dropped.
Moves(g, l) ==
    /\ pc' = [pc EXCEPT ![g] = l]
    /\ \/ event' = event
       \/ l = "idle" /\ event' = [event EXCEPT ![g] = None]

LEMMA Moved ==
    ASSUME Types, NEW g \in Goroutine, NEW l \in Location, Moves(g, l),
           pc[g] # "idle"
    PROVE  /\ pc' \in [Goroutine -> Location] /\ event' \in [Goroutine -> Event \cup {None}]
           /\ \A f \in Goroutine : pc'[f] # "idle" => event'[f] \in Event
           /\ pc'[g] = l
           /\ \A f \in Goroutine \ {g} : \A h, y : Holds(f, h, y)' <=> Holds(f, h, y)
           /\ l # "idle" => TurnOf(g)' = TurnOf(g)
BY DEF Types, Moves, Holds, TurnOf

\* A call that returns: one more record, of g's notification.
LEMMA Recorded ==
    ASSUME Types, NEW g \in Goroutine, pc[g] # "idle", NEW call \in Call \cup {"low"},
           NEW ok \in BOOLEAN, NEW more \in BOOLEAN, Record(g, call, ok, more)
    PROVE  /\ made' \in Seq(CallRecord)
           /\ \E new \in Nat :
                /\ new \notin DOMAIN made /\ DOMAIN made' = DOMAIN made \cup {new}
                /\ \A n \in DOMAIN made : \A h, y : Did(n, h, y)' <=> Did(n, h, y)
                /\ \A h, y : Did(new, h, y)' <=> call \in Finals(h) /\ y = TurnOf(g)
<1> DEFINE r == [job |-> job[g], call |-> call, thread |-> event[g].thread,
                 turn |-> event[g].turn, ok |-> ok, more |-> more]
<1>1. r \in CallRecord /\ made' = Append(made, r)
  <2>1. event[g] \in Event /\ job[g] \in Nat
    BY DEF Types
  <2> QED  BY <2>1, EventAssumption DEF Record, CallRecord
<1>2. r.call = call /\ r.thread = event[g].thread /\ r.turn = event[g].turn
  OBVIOUS
<1> HIDE DEF r
<1>3. PICK new \in Nat :
        /\ made' \in Seq(CallRecord)
        /\ new \notin DOMAIN made /\ DOMAIN made' = DOMAIN made \cup {new}
        /\ \A n \in DOMAIN made : made'[n] = made[n]
        /\ made'[new] = r
  <2>1. /\ made' \in Seq(CallRecord) /\ Len(made) + 1 \in Nat
        /\ Len(made) + 1 \notin DOMAIN made /\ DOMAIN made' = DOMAIN made \cup {Len(made) + 1}
        /\ \A n \in DOMAIN made : made'[n] = made[n]
        /\ made'[Len(made) + 1] = r
    BY <1>1 DEF Types
  <2> QED  BY <2>1
<1>4. \A n \in DOMAIN made : \A h, y : Did(n, h, y)' <=> Did(n, h, y)
  BY <1>3 DEF Did
<1>5. \A h, y : Did(new, h, y)' <=> call \in Finals(h) /\ y = TurnOf(g)
  BY <1>2, <1>3 DEF Did, TurnOf
<1> QED  BY <1>3, <1>4, <1>5

\* What a step of g leaves behind: its place and at most one record.
LEMMA QuietStep ==
    ASSUME GateInv, NEW g \in Goroutine, pc[g] # "idle", NEW l \in Location, Moves(g, l),
           \A h \in Gate : l \in Busy(h) => pc[g] \in Busy(h),
           UNCHANGED <<dispatched, seen>>, job' \in [Goroutine -> Nat],
           \/ made' = made
           \/ \E call \in Call \cup {"low"} : \E ok, more \in BOOLEAN :
                /\ Record(g, call, ok, more)
                /\ \A h \in Gate : call \notin Finals(h)
    PROVE  GateInv'
<1>1. Types
  BY DEF GateInv
<1>2. made' \in Seq(CallRecord) /\ \A h \in Gate : \A n \in DOMAIN made' : \A x :
        Did(n, h, x)' => n \in DOMAIN made /\ Did(n, h, x)
  <2>1. CASE made' = made
    BY <1>1, <2>1 DEF Types, Did
  <2>2. ASSUME NEW call \in Call \cup {"low"}, NEW ok \in BOOLEAN, NEW more \in BOOLEAN,
               Record(g, call, ok, more), \A h \in Gate : call \notin Finals(h)
        PROVE  made' \in Seq(CallRecord) /\ \A h \in Gate : \A n \in DOMAIN made' : \A x :
                 Did(n, h, x)' => n \in DOMAIN made /\ Did(n, h, x)
    <3>0. /\ Types /\ g \in Goroutine /\ pc[g] # "idle" /\ call \in Call \cup {"low"}
          /\ ok \in BOOLEAN /\ more \in BOOLEAN /\ Record(g, call, ok, more)
      BY <1>1, <2>2
    <3>1. PICK new \in Nat :
            /\ made' \in Seq(CallRecord)
            /\ new \notin DOMAIN made /\ DOMAIN made' = DOMAIN made \cup {new}
            /\ \A n \in DOMAIN made : \A h, y : Did(n, h, y)' <=> Did(n, h, y)
            /\ \A h, y : Did(new, h, y)' <=> call \in Finals(h) /\ y = TurnOf(g)
      BY ONLY <3>0, Recorded
    <3> QED  BY <2>2, <3>1
  <2> QED  BY <2>1, <2>2
<1>3. \A h \in Gate : \A f \in Goroutine : \A x : Holds(f, h, x)' => Holds(f, h, x)
  <2> SUFFICES ASSUME NEW h \in Gate, NEW f \in Goroutine, NEW x, Holds(f, h, x)'
               PROVE  Holds(f, h, x)
    OBVIOUS
  <2>1. CASE f # g
    BY <1>1, <2>1, Moved
  <2>2. CASE f = g
    <3>1. pc'[g] = l /\ (l # "idle" => TurnOf(g)' = TurnOf(g))
      BY <1>1, Moved
    <3>2. l \in Busy(h) /\ l # "idle" /\ TurnOf(g)' = x
      BY <2>2, <3>1 DEF Holds, Busy
    <3> QED  BY <2>2, <3>1, <3>2 DEF Holds
  <2> QED  BY <2>1, <2>2
<1>4. \A h \in Gate : Quiet(h)
  BY <1>2, <1>3 DEF Quiet
<1>5. Types'
  BY <1>1, <1>2, Moved DEF Types
<1>6. \A h \in Gate : \A x : Once(h, x)'
  BY <1>4, QuietKeeps DEF GateInv
<1> QED  BY <1>5, <1>6 DEF GateInv

LEMMA Flows ==
    ASSUME Types, NEW g \in Goroutine
    PROVE  /\ Continue(g) => Moves(g, "next") /\ job' \in [Goroutine -> Nat]
           /\ Fail(g) => Moves(g, "idle") /\ job' \in [Goroutine -> Nat]
           /\ \A l : Stay(g, l) => Moves(g, l) /\ job' \in [Goroutine -> Nat]
<1>1. job' = job \/ job' = [job EXCEPT ![g] = 0] => job' \in [Goroutine -> Nat]
  BY DEF Types
<1>2. Continue(g) => Moves(g, "next") /\ job' = job
  BY DEF Continue, Moves, Goto
<1>3. Fail(g) => Moves(g, "idle") /\ job' = [job EXCEPT ![g] = 0]
  BY DEF Fail, Returns, Moves, Goto
<1>4. \A l : Stay(g, l) => Moves(g, l) /\ job' = job
  BY DEF Stay, frame, Moves, Goto
<1> QED  BY <1>1, <1>2, <1>3, <1>4

\* The locations outside of both gates.
Outside == {"idle", "next", "followup", "tests", "fix", "compact"}

LEMMA QuietFlow ==
    ASSUME GateInv, NEW g \in Goroutine, pc[g] # "idle",
           Continue(g) \/ Fail(g) \/ \E l \in Outside : Stay(g, l),
           UNCHANGED <<dispatched, seen>>,
           \/ made' = made
           \/ \E call \in {"followup", "tests", "fix", "compact", "low"} : \E ok, more \in BOOLEAN :
                Record(g, call, ok, more)
    PROVE  GateInv'
<1>1. PICK l \in Outside : Moves(g, l) /\ job' \in [Goroutine -> Nat]
  BY Flows DEF GateInv, Outside
<1>2. l \in Location /\ \A h \in Gate : l \notin Busy(h)
  BY DEF Outside, Location, Call, Busy
<1>3. \A call \in {"followup", "tests", "fix", "compact", "low"} :
        call \in Call \cup {"low"} /\ \A h \in Gate : call \notin Finals(h)
  BY DEF Call, Finals
<1>4. \/ made' = made
      \/ \E call \in Call \cup {"low"} : \E ok, more \in BOOLEAN :
           /\ Record(g, call, ok, more)
           /\ \A h \in Gate : call \notin Finals(h)
  BY <1>3
<1> QED  BY <1>1, <1>2, <1>4, QuietStep

\* The call a gate exists for returns.
LEMMA UseStep ==
    ASSUME GateInv, NEW g \in Goroutine, NEW h \in Gate, pc[g] \in Finals(h),
           Continue(g) \/ Fail(g) \/ \E l \in Outside : Stay(g, l),
           UNCHANGED <<dispatched, seen>>,
           NEW ok \in BOOLEAN, NEW more \in BOOLEAN, Record(g, pc[g], ok, more)
    PROVE  GateInv'
<1>1. PICK l \in Outside : Moves(g, l) /\ job' \in [Goroutine -> Nat]
  BY Flows DEF GateInv, Outside
<1>2. /\ l \in Location /\ \A k \in Gate : l \notin Busy(k)
      /\ pc[g] # "idle" /\ pc[g] \in Call /\ pc[g] \in Busy(h) /\ Types
      /\ \A k \in Gate : k # h => pc[g] \notin Finals(k) /\ pc[g] \notin Busy(k)
  BY DEF Outside, Location, Call, Busy, Finals, Gate, GateInv
<1>3. PICK new \in Nat :
        /\ made' \in Seq(CallRecord)
        /\ new \notin DOMAIN made /\ DOMAIN made' = DOMAIN made \cup {new}
        /\ \A n \in DOMAIN made : \A k, y : Did(n, k, y)' <=> Did(n, k, y)
        /\ \A k, y : Did(new, k, y)' <=> pc[g] \in Finals(k) /\ y = TurnOf(g)
  BY <1>2, Recorded
<1>4. /\ \A f \in Goroutine \ {g} : \A k, y : Holds(f, k, y)' <=> Holds(f, k, y)
      /\ \A k \in Gate : \A y : ~Holds(g, k, y)'
  <2>1. /\ \A f \in Goroutine \ {g} : \A k, y : Holds(f, k, y)' <=> Holds(f, k, y)
        /\ pc'[g] = l
    BY <1>1, <1>2, Moved
  <2>2. \A k \in Gate : \A y : ~Holds(g, k, y)'
    BY <1>2, <2>1 DEF Holds, Busy
  <2> QED  BY <2>1, <2>2
<1>5. Types'
  BY <1>1, <1>2, <1>3, Moved DEF Types
<1>6. ASSUME NEW k \in Gate, NEW x PROVE Once(k, x)'
  <2>1. CASE k # h
    <3>1. Quiet(k)
      BY <1>2, <1>3, <1>4, <2>1 DEF Quiet
    <3> QED  BY <3>1, QuietKeeps DEF GateInv
  <2>2. CASE k = h
    <3>1. Holds(g, h, TurnOf(g)) /\ Once(h, x) /\ seen'[h] = seen[h]
      BY <1>2 DEF Holds, GateInv
    <3> QED  BY <1>3, <1>4, <2>2, <3>1, UseKeeps
  <2> QED  BY <2>1, <2>2
<1> QED  BY <1>5, <1>6 DEF GateInv

LEMMA TakeStep ==
    ASSUME GateInv, NEW g \in Goroutine, NEW h \in Gate, NEW first \in Busy(h),
           Take(g, h, first)
    PROVE  GateInv'
<1>1. /\ pc[g] = "next" /\ UNCHANGED <<dispatched, made>> /\ Types
  BY DEF Take, Enters, At, GateInv
<1>2. CASE Continue(g) /\ UNCHANGED seen
  BY <1>1, <1>2, QuietFlow
<1>3. CASE /\ HasIds(g) /\ TurnOf(g) \notin seen[h]
           /\ seen' = [seen EXCEPT ![h] = @ \cup {TurnOf(g)}] /\ Stay(g, first)
  <2>1. Moves(g, first) /\ job' \in [Goroutine -> Nat] /\ first \in Location
    BY <1>1, <1>3, Flows DEF Busy, Location, Call
  <2>2. /\ pc' \in [Goroutine -> Location] /\ event' \in [Goroutine -> Event \cup {None}]
        /\ \A f \in Goroutine : pc'[f] # "idle" => event'[f] \in Event
        /\ pc'[g] = first /\ first # "idle"
        /\ \A f \in Goroutine \ {g} : \A k, y : Holds(f, k, y)' <=> Holds(f, k, y)
        /\ TurnOf(g)' = TurnOf(g)
    BY <1>1, <2>1, Moved DEF Busy
  <2>3. TurnOf(g) \in (Thread \cup {None}) \X (Turn \cup {None})
    <3>1. event[g] \in Event
      BY <1>1 DEF Types
    <3> QED  BY <3>1, EventAssumption DEF TurnOf
  <2>4. /\ seen' \in [Gate -> SUBSET ((Thread \cup {None}) \X (Turn \cup {None}))]
        /\ seen'[h] = seen[h] \cup {TurnOf(g)}
        /\ \A k \in Gate : k # h => seen'[k] = seen[k]
    BY <1>1, <1>3, <2>3 DEF Types
  <2>5. Types'
    BY <1>1, <2>1, <2>2, <2>4 DEF Types
  <2>6. ASSUME NEW k \in Gate, NEW x PROVE Once(k, x)'
    <3>1. CASE k # h
      <4>1. first \notin Busy(k)
        BY <3>1 DEF Busy, Gate
      <4>2. \A y : ~Holds(g, k, y)'
        BY <2>2, <4>1 DEF Holds, Busy
      <4>3. Quiet(k)
        BY <1>1, <2>2, <2>4, <3>1, <4>2 DEF Quiet, Did
      <4> QED  BY <4>3, QuietKeeps DEF GateInv
    <3>2. CASE k = h
      <4>1. \A y : Holds(g, h, y)' => y = TurnOf(g)
        BY <2>2 DEF Holds
      <4>2. Once(h, x)
        BY DEF GateInv
      <4> QED  BY <1>1, <1>3, <2>2, <2>4, <3>2, <4>1, <4>2, TakeKeeps
    <3> QED  BY <3>1, <3>2
  <2> QED  BY <2>5, <2>6 DEF GateInv
<1> QED  BY <1>2, <1>3 DEF Take, Concerns

LEMMA ApproveStep ==
    ASSUME GateInv, NEW g \in Goroutine, Approve(g)
    PROVE  GateInv'
<1>1. pc[g] = "approve" /\ UNCHANGED <<dispatched, seen, made>> /\ Types
  BY DEF Approve, At, harnessVars, GateInv
<1>2. CASE Fail(g)
  BY <1>1, <1>2, QuietFlow
<1>3. ASSUME NEW call \in {"steer", "interrupt"}, Stay(g, call) PROVE GateInv'
  <2>1. Moves(g, call) /\ job' \in [Goroutine -> Nat] /\ call \in Location
    BY <1>1, <1>3, Flows DEF Location, Call
  <2>2. \A h \in Gate : call \in Busy(h) => pc[g] \in Busy(h)
    BY <1>1 DEF Busy
  <2> QED  BY <1>1, <2>1, <2>2, QuietStep
<1> QED  BY <1>2, <1>3 DEF Approve

LEMMA CallStep ==
    ASSUME GateInv, NEW g \in Goroutine,
           \/ \E call \in {"steer", "interrupt", "followup", "fix"} : LastCall(g, call)
           \/ FirstCall(g, "review", "followup") \/ FirstCall(g, "tests", "fix")
    PROVE  GateInv'
<1>1. PICK call \in {"steer", "interrupt", "review", "followup", "tests", "fix"},
           ok \in BOOLEAN, more \in BOOLEAN :
        /\ pc[g] = call /\ Record(g, call, ok, more) /\ UNCHANGED <<dispatched, seen>>
        /\ Continue(g) \/ Fail(g) \/ \E l \in Outside : Stay(g, l)
  <2>1. ASSUME NEW c \in {"steer", "interrupt", "followup", "fix"}, LastCall(g, c)
        PROVE  \E ok, more \in BOOLEAN :
                 /\ pc[g] = c /\ Record(g, c, ok, more) /\ UNCHANGED <<dispatched, seen>>
                 /\ Continue(g) \/ Fail(g)
    BY <2>1 DEF LastCall, At, harnessVars
  <2>2. ASSUME NEW c, NEW n, FirstCall(g, c, n)
        PROVE  \E ok, more \in BOOLEAN :
                 /\ pc[g] = c /\ Record(g, c, ok, more) /\ UNCHANGED <<dispatched, seen>>
                 /\ Continue(g) \/ Fail(g) \/ Stay(g, n)
    BY <2>2 DEF FirstCall, At, harnessVars
  <2> QED  BY <2>1, <2>2 DEF Outside
<1>2. CASE call \in {"followup", "tests", "fix"}
  BY <1>1, <1>2, QuietFlow
<1>3. CASE call \in {"steer", "interrupt", "review"}
  <2>1. PICK h \in Gate : call \in Finals(h)
    BY <1>3 DEF Finals, Gate
  <2> QED  BY <1>1, <2>1, UseStep
<1> QED  BY <1>2, <1>3

LEMMA OtherStep ==
    ASSUME GateInv, NEW g \in Goroutine, Count(g) \/ AutoCompact(g) \/ Dispatched(g)
    PROVE  GateInv'
<1>1. pc[g] # "idle" /\ UNCHANGED <<dispatched, seen>> /\ Types
  BY DEF Count, AutoCompact, Measure, Compact, Dispatched, Enters, At, harnessVars, GateInv
<1>2. CASE Count(g)
  <2>1. made' = made /\ (Continue(g) \/ Stay(g, "tests"))
    BY <1>2 DEF Count
  <2> QED  BY <1>1, <2>1, QuietFlow DEF Outside
<1>3. CASE Measure(g)
  <2>1. /\ made' = made \/ Record(g, "low", TRUE, FALSE)
        /\ Continue(g) \/ Stay(g, "compact")
    BY <1>3 DEF Measure
  <2> QED  BY <1>1, <2>1, QuietFlow DEF Outside
<1>4. CASE Compact(g)
  <2>1. \E ok \in BOOLEAN : Record(g, "compact", ok, FALSE) /\ (Continue(g) \/ Fail(g))
    BY <1>4 DEF Compact
  <2> QED  BY <1>1, <2>1, QuietFlow
<1>5. CASE Dispatched(g)
  <2>1. made' = made /\ Moves(g, "idle") /\ job' \in [Goroutine -> Nat]
    BY <1>1, <1>5 DEF Dispatched, Returns, Goto, Moves, Types
  <2>2. "idle" \in Location /\ \A h \in Gate : "idle" \notin Busy(h)
    BY DEF Location, Busy
  <2> QED  BY <1>1, <2>1, <2>2, QuietStep
<1> QED  BY <1>2, <1>3, <1>4, <1>5 DEF AutoCompact

LEMMA DispatchStep ==
    ASSUME GateInv, NEW g \in Goroutine, NEW e \in Event, DispatchNotification(g, e)
    PROVE  GateInv'
<1>1. /\ pc[g] = "idle" /\ UNCHANGED <<seen, made>> /\ Types
      /\ pc' = [pc EXCEPT ![g] = "next"] /\ event' = [event EXCEPT ![g] = e]
      /\ dispatched' = dispatched + 1 /\ job' = [job EXCEPT ![g] = dispatched + 1]
  BY DEF DispatchNotification, At, Goto, harnessVars, GateInv
<1>2. Types'
  BY <1>1 DEF Types, Location
<1>3. \A f \in Goroutine : \A h, x : Holds(f, h, x)' => Holds(f, h, x)
  BY <1>1 DEF Types, Holds, Busy, TurnOf
<1>4. \A h \in Gate : Quiet(h)
  BY <1>1, <1>3 DEF Quiet, Did
<1>5. \A h \in Gate : \A x : Once(h, x)'
  BY <1>4, QuietKeeps DEF GateInv
<1> QED  BY <1>2, <1>5 DEF GateInv

-----------------------------------------------------------------------------
(* The invariant holds.                                                    *)

LEMMA InitGates == Init => GateInv
<1> SUFFICES ASSUME Init PROVE GateInv
  OBVIOUS
<1>1. Types
  BY DEF Init, Types, Location
<1>2. \A h \in Gate : \A x : Once(h, x)
  BY DEF Init, Once, Holds, Busy
<1> QED  BY <1>1, <1>2 DEF GateInv

LEMMA NextGates == GateInv /\ [Next]_vars => GateInv'
<1> SUFFICES ASSUME GateInv, [Next]_vars PROVE GateInv'
  OBVIOUS
<1>1. ASSUME NEW g \in Goroutine, Step(g) PROVE GateInv'
  <2>1. CASE Take(g, "plan", "approve") \/ Take(g, "review", "review")
    BY <2>1, TakeStep DEF Busy, Gate
  <2>2. CASE Approve(g)
    BY <2>2, ApproveStep
  <2> QED  BY <1>1, <2>1, <2>2, CallStep, OtherStep DEF Step, PlanGate, ReviewGate, TDDLoop
<1>2. CASE UNCHANGED vars
  <2>1. Types'
    BY <1>2 DEF vars, frame, harnessVars, GateInv, Types
  <2>2. \A h \in Gate : Quiet(h)
    BY <1>2 DEF vars, frame, harnessVars, Quiet, Holds, TurnOf, Did
  <2> QED  BY <2>1, <2>2, QuietKeeps DEF GateInv
<1> QED  BY <1>1, <1>2, DispatchStep DEF Next

\* A turn is gated once, however many goroutines dispatch its event, how often,
\* and whatever the callbacks return.
THEOREM TurnsGatedOnce == Spec => []OneGatePerTurn
<1>1. GateInv => OneGatePerTurn
  <2> SUFFICES ASSUME GateInv, NEW S \in {{"steer", "interrupt"}, {"review"}}, NEW t \in Thread,
                      NEW m \in CallsOf(S, t), NEW n \in CallsOf(S, t), made[m].turn = made[n].turn
               PROVE  m = n
    BY DEF OneGatePerTurn
  <2>1. PICK h \in Gate : S = Finals(h)
    BY DEF Finals, Gate
  <2>2. m \in DOMAIN made /\ Did(m, h, <<t, made[m].turn>>) /\ n \in DOMAIN made /\ Did(n, h, <<t, made[m].turn>>)
    BY <2>1 DEF CallsOf, Did
  <2> QED  BY <2>2 DEF GateInv, Once
<1> QED  BY <1>1, InitGates, NextGates, PTL DEF Spec

-----------------------------------------------------------------------------
(* The end of a dispatch.                                                  *)

\* g goes on at l, or its dispatch returns v.
Flow(g, l, v) ==
    /\ pc' = [pc EXCEPT ![g] = l]
    /\ \/ l # "idle" /\ UNCHANGED <<event, job, verdict>>
       \/ /\ l = "idle"
          /\ event' = [event EXCEPT ![g] = None] /\ job' = [job EXCEPT ![g] = 0]
          /\ verdict' = [verdict EXCEPT ![job[g]] = v]

LEMMA FlowsOn ==
    ASSUME NEW g
    PROVE  /\ Continue(g) => Flow(g, "next", "nil")
           /\ Fail(g) => Flow(g, "idle", "error")
           /\ \A l : l # "idle" /\ Stay(g, l) => Flow(g, l, "nil")
BY DEF Continue, Fail, Returns, Stay, Goto, frame, Flow

\* What a step of g has to do with the verdict: an error that a call returned is
\* what the dispatch returns.
Ends(g, l, v) ==
    /\ Flow(g, l, v)
    /\ \/ made' = made
       \/ \E call \in Call \cup {"low"} : \E ok, more \in BOOLEAN :
            Record(g, call, ok, more) /\ (~ok => l = "idle" /\ v = "error")

StepShape(g) == \E l \in Location : \E v \in {"nil", "error"} : Ends(g, l, v)

LEMMA StepEnds ==
    ASSUME NEW g \in Goroutine, Step(g)
    PROVE  pc[g] # "idle" /\ UNCHANGED dispatched /\ StepShape(g)
<1>1. pc[g] # "idle" /\ UNCHANGED dispatched
  BY DEF Step, PlanGate, ReviewGate, TDDLoop, AutoCompact, Take, Approve, LastCall, FirstCall, Count,
         Measure, Compact, Dispatched, Enters, At
<1> SUFFICES StepShape(g)
  BY <1>1
<1>2. /\ {"idle", "next", "approve", "steer", "interrupt", "review", "followup", "tests", "fix", "compact"}
            \subseteq Location
      /\ {"steer", "interrupt", "review", "followup", "tests", "fix", "compact"} \subseteq Call
  BY DEF Location, Call
<1>3. ASSUME made' = made, NEW l \in Location, NEW v \in {"nil", "error"}, Flow(g, l, v)
      PROVE  StepShape(g)
  BY <1>3 DEF Ends, StepShape
<1>4. ASSUME NEW call \in Call \cup {"low"}, NEW ok \in BOOLEAN, NEW more \in BOOLEAN,
             Record(g, call, ok, more), NEW l \in Location, NEW v \in {"nil", "error"}, Flow(g, l, v),
             ~ok => l = "idle" /\ v = "error"
      PROVE  StepShape(g)
  BY <1>4 DEF Ends, StepShape
<1>5. ASSUME made' = made, Continue(g) PROVE StepShape(g)
  BY <1>2, <1>3, <1>5, FlowsOn
<1>6. ASSUME made' = made, Fail(g) PROVE StepShape(g)
  BY <1>2, <1>3, <1>6, FlowsOn
<1>7. ASSUME made' = made, NEW l \in Location \ {"idle"}, Stay(g, l) PROVE StepShape(g)
  <2>1. Flow(g, l, "nil")
    BY <1>7, FlowsOn
  <2> QED  BY <1>3, <1>7, <2>1
<1>8. ASSUME NEW call \in Call \cup {"low"}, NEW ok \in BOOLEAN, NEW more \in BOOLEAN,
             Record(g, call, ok, more), IF ok THEN Continue(g) ELSE Fail(g)
      PROVE  StepShape(g)
  <2>1. CASE ok
    BY <1>2, <1>4, <1>8, <2>1, FlowsOn
  <2>2. CASE ~ok
    <3>1. Flow(g, "idle", "error") /\ "idle" \in Location
      BY <1>2, <1>8, <2>2, FlowsOn
    <3> QED  BY ONLY <1>4, <1>8, <3>1
  <2> QED  BY <2>1, <2>2
<1>9. ASSUME NEW call \in Call, LastCall(g, call) PROVE StepShape(g)
  BY <1>8, <1>9 DEF LastCall
<1>10. ASSUME NEW call \in Call, NEW next \in Call, FirstCall(g, call, next) PROVE StepShape(g)
  <2>1. PICK ok \in BOOLEAN, more \in BOOLEAN :
          /\ Record(g, call, ok, ok /\ more)
          /\ \/ ok /\ more /\ Stay(g, next)
             \/ IF ok THEN Continue(g) ELSE Fail(g)
    BY <1>10 DEF FirstCall
  <2>2. next \in Location /\ next # "idle" /\ (ok /\ more) \in BOOLEAN /\ call \in Call \cup {"low"}
    BY DEF Location, Call
  <2>3. CASE ok /\ Stay(g, next)
    <3>1. Flow(g, next, "nil")
      BY <2>2, <2>3, FlowsOn
    <3> QED  BY ONLY <1>4, <2>1, <2>2, <2>3, <3>1
  <2>4. CASE IF ok THEN Continue(g) ELSE Fail(g)
    BY ONLY <1>8, <2>1, <2>2, <2>4
  <2> QED  BY <2>1, <2>3, <2>4
<1>11. CASE Compact(g)
  BY <1>2, <1>8, <1>11 DEF Compact
<1>12. CASE Measure(g)
  <2>1. \/ made' = made /\ Continue(g)
        \/ made' = made /\ Stay(g, "compact")
        \/ Record(g, "low", TRUE, FALSE) /\ Continue(g)
    BY <1>12 DEF Measure
  <2>2. CASE Record(g, "low", TRUE, FALSE) /\ Continue(g)
    BY <1>8, <2>2
  <2>3. "compact" \in Location \ {"idle"}
    BY <1>2
  <2> QED  BY <1>5, <1>7, <2>1, <2>2, <2>3
<1>13. CASE Dispatched(g)
  <2>1. Flow(g, "idle", "nil") /\ made' = made
    BY <1>13 DEF Dispatched, Returns, Goto, Flow
  <2> QED  BY <1>2, <1>3, <2>1
<1>14. CASE Take(g, "plan", "approve") \/ Take(g, "review", "review") \/ Approve(g) \/ Count(g)
  <2>1. /\ made' = made
        /\ \/ Continue(g)
           \/ Fail(g)
           \/ \E l \in {"approve", "steer", "interrupt", "review", "tests"} : Stay(g, l)
    BY <1>14 DEF Take, Approve, Count
  <2>2. {"approve", "steer", "interrupt", "review", "tests"} \subseteq Location \ {"idle"}
    BY <1>2
  <2> QED  BY <1>5, <1>6, <1>7, <2>1, <2>2
<1> QED  BY <1>2, <1>9, <1>10, <1>11, <1>12, <1>13, <1>14
         DEF Step, PlanGate, ReviewGate, TDDLoop, AutoCompact

\* Every goroutine inside a dispatch has one of its own, which is still open.
JobsOpen ==
    /\ verdict \in Seq({"none", "nil", "error"}) /\ Len(verdict) = dispatched
    /\ \A g \in Goroutine : pc[g] # "idle" => job[g] \in 1 .. dispatched /\ verdict[job[g]] = "none"
    /\ \A f, g \in Goroutine : pc[f] # "idle" /\ pc[g] # "idle" /\ job[f] = job[g] => f = g
    /\ \A n \in DOMAIN made : made[n].job \in 1 .. dispatched

\* The inductive invariant.
ErrorInv == Types /\ JobsOpen /\ ErrorEndsDispatch

\* A record more, the last one.
Grown(r) ==
    /\ made' \in Seq(CallRecord) /\ Len(made) \in Nat /\ r \in CallRecord
    /\ DOMAIN made = 1 .. Len(made) /\ DOMAIN made' = DOMAIN made \cup {Len(made) + 1}
    /\ \A n \in DOMAIN made : made'[n] = made[n]
    /\ made'[Len(made) + 1] = r

RecordOf(g, call, ok, more) ==
    [job |-> job[g], call |-> call, thread |-> event[g].thread, turn |-> event[g].turn,
     ok |-> ok, more |-> more]

LEMMA RecordGrows ==
    ASSUME Types, NEW g \in Goroutine, pc[g] # "idle", NEW call \in Call \cup {"low"},
           NEW ok \in BOOLEAN, NEW more \in BOOLEAN, Record(g, call, ok, more)
    PROVE  Grown(RecordOf(g, call, ok, more))
<1> DEFINE r == RecordOf(g, call, ok, more)
<1>1. r \in CallRecord
  <2>1. event[g] \in Event /\ job[g] \in Nat
    BY DEF Types
  <2> QED  BY <2>1, EventAssumption DEF RecordOf, CallRecord
<1>2. made' = Append(made, r) /\ made \in Seq(CallRecord)
  BY DEF Record, RecordOf, Types
<1> HIDE DEF r
<1>3. /\ made' \in Seq(CallRecord) /\ Len(made) \in Nat
      /\ DOMAIN made = 1 .. Len(made) /\ DOMAIN made' = DOMAIN made \cup {Len(made) + 1}
      /\ \A n \in DOMAIN made : made'[n] = made[n]
      /\ made'[Len(made) + 1] = r
  BY ONLY <1>1, <1>2, AppendProperties
<1>4. Grown(r)
  BY ONLY <1>1, <1>3 DEF Grown
<1> QED  BY <1>4 DEF r

LEMMA JobsStep ==
    ASSUME ErrorInv, NEW g \in Goroutine, pc[g] # "idle", UNCHANGED dispatched,
           NEW l \in Location, NEW v \in {"nil", "error"}, Flow(g, l, v),
           \A n \in DOMAIN made' : made'[n].job \in 1 .. dispatched
    PROVE  JobsOpen'
<1>1. /\ pc \in [Goroutine -> Location] /\ job \in [Goroutine -> Nat]
      /\ verdict \in Seq({"none", "nil", "error"}) /\ Len(verdict) = dispatched
      /\ job[g] \in 1 .. dispatched
  BY DEF ErrorInv, Types, JobsOpen
<1>2. \A f \in Goroutine : f # g => pc'[f] = pc[f] /\ job'[f] = job[f]
  BY <1>1 DEF Flow
<1>3. CASE l # "idle" /\ UNCHANGED <<event, job, verdict>>
  <2>1. \A f \in Goroutine : pc'[f] # "idle" => pc[f] # "idle"
    BY <1>2
  <2> QED  BY <1>3, <2>1 DEF ErrorInv, JobsOpen
<1>4. CASE l = "idle" /\ job' = [job EXCEPT ![g] = 0] /\ verdict' = [verdict EXCEPT ![job[g]] = v]
  <2>1. pc'[g] = "idle"
    BY <1>1, <1>4 DEF Flow
  <2>2. verdict' \in Seq({"none", "nil", "error"}) /\ Len(verdict') = dispatched
    BY <1>1, <1>4
  <2>3. ASSUME NEW f \in Goroutine, pc'[f] # "idle"
        PROVE  job'[f] \in 1 .. dispatched /\ verdict'[job'[f]] = "none"
    <3>1. f # g /\ job'[f] = job[f] /\ pc[f] # "idle" /\ job[f] # job[g]
      BY <1>2, <2>1, <2>3 DEF ErrorInv, JobsOpen
    <3>2. job[f] \in 1 .. dispatched /\ verdict[job[f]] = "none"
      BY <3>1 DEF ErrorInv, JobsOpen
    <3> QED  BY <1>1, <1>4, <3>1, <3>2
  <2>4. ASSUME NEW e \in Goroutine, NEW f \in Goroutine, pc'[e] # "idle", pc'[f] # "idle", job'[e] = job'[f]
        PROVE  e = f
    <3>1. e # g /\ f # g
      BY <2>1, <2>4
    <3> QED  BY <1>2, <2>4, <3>1 DEF ErrorInv, JobsOpen
  <2> QED  BY <2>2, <2>3, <2>4 DEF JobsOpen
<1> QED  BY <1>3, <1>4 DEF Flow

LEMMA ErrorStep ==
    ASSUME ErrorInv, NEW g \in Goroutine, Step(g), Types'
    PROVE  ErrorInv'
<1>1. /\ pc[g] # "idle" /\ UNCHANGED dispatched /\ Types
      /\ job[g] \in 1 .. dispatched /\ verdict[job[g]] = "none"
      /\ verdict \in Seq({"none", "nil", "error"}) /\ Len(verdict) = dispatched
  BY StepEnds DEF ErrorInv, JobsOpen
<1>2. PICK l \in Location, v \in {"nil", "error"} : Ends(g, l, v)
  BY StepEnds DEF StepShape
<1>3. Flow(g, l, v)
  BY <1>2 DEF Ends
<1>4. /\ \A n \in 1 .. dispatched : n # job[g] => verdict'[n] = verdict[n]
      /\ l = "idle" => verdict'[job[g]] = v
  BY <1>1, <1>3 DEF Flow
<1>5. \A n \in DOMAIN made : made[n].job \in 1 .. dispatched /\ (made[n].job = job[g] => made[n].ok)
  BY <1>1 DEF ErrorInv, JobsOpen, ErrorEndsDispatch
<1>6. CASE made' = made
  <2>1. JobsOpen'
    BY <1>1, <1>3, <1>5, <1>6, JobsStep
  <2>2. ErrorEndsDispatch'
    BY <1>4, <1>5, <1>6 DEF ErrorInv, ErrorEndsDispatch
  <2> QED  BY <2>1, <2>2 DEF ErrorInv
<1>7. ASSUME NEW call \in Call \cup {"low"}, NEW ok \in BOOLEAN, NEW more \in BOOLEAN,
             Record(g, call, ok, more), ~ok => l = "idle" /\ v = "error"
      PROVE  ErrorInv'
  <2> DEFINE r == RecordOf(g, call, ok, more)
  <2>1. Grown(r) /\ r.job = job[g] /\ r.ok = ok
    BY <1>1, <1>7, RecordGrows DEF RecordOf
  <2> HIDE DEF r
  <2>2. /\ Len(made) \in Nat /\ DOMAIN made = 1 .. Len(made) /\ DOMAIN made' = DOMAIN made \cup {Len(made) + 1}
        /\ \A n \in DOMAIN made : made'[n] = made[n]
        /\ made'[Len(made) + 1].job = job[g] /\ made'[Len(made) + 1].ok = ok
    BY <2>1 DEF Grown
  <2>3. \A n \in DOMAIN made' : n = Len(made) + 1 \/ (n \in DOMAIN made /\ made'[n] = made[n])
    BY ONLY <2>2
  <2>4. \A n \in DOMAIN made' : made'[n].job \in 1 .. dispatched
    BY <1>1, <1>5, <2>2, <2>3
  <2>5. JobsOpen'
    BY <1>1, <1>3, <2>4, JobsStep
  <2>6. ErrorEndsDispatch'
    <3> SUFFICES ASSUME NEW n \in DOMAIN made', ~made'[n].ok
                 PROVE  /\ verdict'[made'[n].job] = "error"
                        /\ \A m \in DOMAIN made' : made'[m].job = made'[n].job => m <= n
      BY DEF ErrorEndsDispatch
    <3>1. CASE n = Len(made) + 1
      BY <1>4, <1>7, <2>2, <3>1
    <3>2. CASE n \in DOMAIN made /\ made'[n] = made[n]
      <4>1. made[n].job # job[g] /\ verdict[made[n].job] = "error" /\ made[n].job \in 1 .. dispatched
        BY <1>5, <3>2 DEF ErrorInv, ErrorEndsDispatch
      <4>2. \A m \in DOMAIN made : made[m].job = made[n].job => m <= n
        BY <3>2 DEF ErrorInv, ErrorEndsDispatch
      <4>3. ASSUME NEW m \in DOMAIN made', made'[m].job = made'[n].job PROVE m <= n
        <5>1. m # Len(made) + 1
          BY <2>2, <3>2, <4>1, <4>3
        <5> QED  BY <2>3, <3>2, <4>2, <4>3, <5>1
      <4> QED  BY <1>4, <3>2, <4>1, <4>3
    <3> QED  BY <2>3, <3>1, <3>2
  <2> QED  BY <2>5, <2>6 DEF ErrorInv
<1> QED  BY <1>2, <1>6, <1>7 DEF Ends

LEMMA ErrorDispatch ==
    ASSUME ErrorInv, NEW g \in Goroutine, NEW e \in Event, DispatchNotification(g, e), Types'
    PROVE  ErrorInv'
<1>1. /\ pc[g] = "idle" /\ made' = made
      /\ pc' = [pc EXCEPT ![g] = "next"]
      /\ dispatched' = dispatched + 1 /\ job' = [job EXCEPT ![g] = dispatched + 1]
      /\ verdict' = Append(verdict, "none")
      /\ pc \in [Goroutine -> Location] /\ job \in [Goroutine -> Nat] /\ dispatched \in Nat
      /\ verdict \in Seq({"none", "nil", "error"}) /\ Len(verdict) = dispatched
  BY DEF DispatchNotification, At, Goto, harnessVars, ErrorInv, JobsOpen, Types
<1>2. /\ verdict' \in Seq({"none", "nil", "error"}) /\ Len(verdict') = dispatched + 1
      /\ verdict'[dispatched + 1] = "none" /\ \A n \in 1 .. dispatched : verdict'[n] = verdict[n]
  BY ONLY <1>1, AppendProperties
<1>3. /\ job'[g] = dispatched + 1 /\ dispatched + 1 \in 1 .. dispatched'
      /\ \A f \in Goroutine : f # g => pc'[f] = pc[f] /\ job'[f] = job[f]
      /\ \A n \in 1 .. dispatched : n \in 1 .. dispatched' /\ n # dispatched + 1
  BY <1>1
<1>4. \A f \in Goroutine : f # g /\ pc'[f] # "idle" =>
        /\ pc[f] # "idle" /\ job'[f] = job[f] /\ job[f] \in 1 .. dispatched /\ verdict[job[f]] = "none"
  BY <1>3 DEF ErrorInv, JobsOpen
<1>5. JobsOpen'
  <2>1. \A f \in Goroutine : pc'[f] # "idle" => job'[f] \in 1 .. dispatched' /\ verdict'[job'[f]] = "none"
    BY <1>2, <1>3, <1>4
  <2>2. \A e1, f \in Goroutine : pc'[e1] # "idle" /\ pc'[f] # "idle" /\ job'[e1] = job'[f] => e1 = f
    BY <1>3, <1>4 DEF ErrorInv, JobsOpen
  <2>3. \A n \in DOMAIN made' : made'[n].job \in 1 .. dispatched'
    BY <1>1, <1>3 DEF ErrorInv, JobsOpen
  <2> QED  BY <1>1, <1>2, <2>1, <2>2, <2>3 DEF JobsOpen
<1>6. ErrorEndsDispatch'
  BY <1>1, <1>2 DEF ErrorInv, JobsOpen, ErrorEndsDispatch
<1> QED  BY <1>5, <1>6 DEF ErrorInv

LEMMA InitErrors == Init => ErrorInv
<1> SUFFICES ASSUME Init PROVE ErrorInv
  OBVIOUS
<1>1. Types
  BY InitGates DEF GateInv
<1>2. \A g \in Goroutine : pc[g] = "idle"
  BY DEF Init
<1>3. made = <<>> /\ verdict = <<>> /\ dispatched = 0 /\ Len(<<>>) = 0 /\ <<>> \in Seq({"none", "nil", "error"})
      /\ DOMAIN <<>> = {}
  BY DEF Init
<1> QED  BY <1>1, <1>2, <1>3 DEF ErrorInv, JobsOpen, ErrorEndsDispatch

\* The first error of a handler ends its dispatch, whatever others do meanwhile:
\* no handler after it makes a call, and the dispatch returns the error
\* (DispatchNotification).
THEOREM ErrorsEndDispatch == Spec => []ErrorEndsDispatch
<1>1. GateInv => Types
  BY DEF GateInv
<1>2. ErrorInv /\ Types' /\ [Next]_vars => ErrorInv'
  <2> SUFFICES ASSUME ErrorInv, Types', [Next]_vars PROVE ErrorInv'
    OBVIOUS
  <2>1. CASE UNCHANGED vars
    BY <2>1 DEF vars, frame, ErrorInv, JobsOpen, ErrorEndsDispatch
  <2> QED  BY <2>1, ErrorStep, ErrorDispatch DEF Next
<1>3. ErrorInv => ErrorEndsDispatch
  BY DEF ErrorInv
<1> QED  BY <1>1, <1>2, <1>3, InitGates, NextGates, InitErrors, PTL DEF Spec

-----------------------------------------------------------------------------
(* What one harness does to the others.                                    *)

\* A step of g that ends in one of the locations L and makes one of the calls C,
\* or none.
Keeps(g, L, C) ==
    /\ \E l \in L : \E v \in {"nil", "error"} : Flow(g, l, v)
    /\ \/ made' = made
       \/ \E call \in C : \E ok, more \in BOOLEAN : Record(g, call, ok, more)

GateCalls == {"steer", "interrupt", "review", "followup"}
GateOnly  == GateCalls \cup {"approve"}

LEMMA KeepsBy ==
    ASSUME NEW g, NEW L, NEW C, {"idle", "next"} \subseteq L
    PROVE  /\ made' = made /\ (Continue(g) \/ Fail(g) \/ \E l \in L \ {"idle"} : Stay(g, l)) => Keeps(g, L, C)
           /\ \A call \in C : LastCall(g, call) => Keeps(g, L, C)
           /\ \A call \in C : \A next \in L \ {"idle"} : FirstCall(g, call, next) => Keeps(g, L, C)
<1>1. /\ Continue(g) => \E l \in L : \E v \in {"nil", "error"} : Flow(g, l, v)
      /\ Fail(g) => \E l \in L : \E v \in {"nil", "error"} : Flow(g, l, v)
      /\ \A l \in L \ {"idle"} : Stay(g, l) => Flow(g, l, "nil")
  BY FlowsOn
<1>2. made' = made /\ (Continue(g) \/ Fail(g) \/ \E l \in L \ {"idle"} : Stay(g, l)) => Keeps(g, L, C)
  BY <1>1 DEF Keeps
<1>3. ASSUME NEW call \in C, LastCall(g, call) PROVE Keeps(g, L, C)
  <2>1. \E ok \in BOOLEAN : Record(g, call, ok, FALSE) /\ (Continue(g) \/ Fail(g))
    BY <1>3 DEF LastCall
  <2> QED  BY <1>1, <2>1 DEF Keeps
<1>4. ASSUME NEW call \in C, NEW next \in L \ {"idle"}, FirstCall(g, call, next) PROVE Keeps(g, L, C)
  <2>1. \E ok, more \in BOOLEAN : Record(g, call, ok, more) /\ (Continue(g) \/ Fail(g) \/ Stay(g, next))
    BY <1>4 DEF FirstCall
  <2> QED  BY <1>1, <2>1 DEF Keeps
<1> QED  BY <1>2, <1>3, <1>4

\* The gates, and the end of a dispatch.
LEMMA GatesKeep ==
    ASSUME NEW g \in Goroutine, PlanGate(g) \/ ReviewGate(g) \/ Dispatched(g)
    PROVE  /\ UNCHANGED <<iterations, requested, mutex>>
           /\ pc[g] \notin {"idle", "tests", "fix", "compact"}
           /\ Keeps(g, {"idle", "next"} \cup GateOnly, GateCalls)
<1>1. UNCHANGED <<iterations, requested, mutex>> /\ pc[g] \notin {"idle", "tests", "fix", "compact"}
  BY DEF PlanGate, ReviewGate, Dispatched, Take, Approve, LastCall, FirstCall, Enters, At, harnessVars
<1> DEFINE L == {"idle", "next"} \cup GateOnly
<1>2. /\ {"idle", "next"} \subseteq L /\ GateOnly \subseteq L /\ "idle" \notin GateOnly
      /\ {"approve", "steer", "interrupt", "review", "followup"} \subseteq GateOnly
      /\ {"steer", "interrupt", "review", "followup"} \subseteq GateCalls
  BY DEF GateOnly, GateCalls
<1> HIDE DEF L
<1>3. CASE Take(g, "plan", "approve") \/ Take(g, "review", "review") \/ Approve(g)
  <2>1. made' = made /\ (Continue(g) \/ Fail(g) \/ \E l \in L \ {"idle"} : Stay(g, l))
    BY <1>2, <1>3 DEF Take, Approve
  <2> QED  BY <1>1, <1>2, <2>1, KeepsBy DEF L
<1>4. CASE LastCall(g, "steer") \/ LastCall(g, "interrupt") \/ LastCall(g, "followup")
  BY <1>1, <1>2, <1>4, KeepsBy DEF L
<1>5. CASE FirstCall(g, "review", "followup")
  BY <1>1, <1>2, <1>5, KeepsBy DEF L
<1>6. CASE Dispatched(g)
  <2>1. Flow(g, "idle", "nil") /\ made' = made
    BY <1>6 DEF Dispatched, Returns, Goto, Flow
  <2>2. Keeps(g, L, GateCalls)
    BY <1>2, <2>1 DEF Keeps
  <2> QED  BY <1>1, <2>2 DEF L
<1> QED  BY <1>3, <1>4, <1>5, <1>6 DEF PlanGate, ReviewGate

\* The TDD loop.
LEMMA TDDKeeps ==
    ASSUME NEW g \in Goroutine, TDDLoop(g)
    PROVE  /\ UNCHANGED <<requested, mutex>> /\ pc[g] \notin {"idle", "compact"}
           /\ Keeps(g, {"idle", "next", "tests", "fix"}, {"tests", "fix"})
<1>1. UNCHANGED <<requested, mutex>> /\ pc[g] \notin {"idle", "compact"}
  BY DEF TDDLoop, Count, LastCall, FirstCall, Enters, At, harnessVars
<1> DEFINE L == {"idle", "next", "tests", "fix"}
<1>2. /\ {"idle", "next"} \subseteq L /\ {"tests", "fix"} \subseteq L \ {"idle"}
  OBVIOUS
<1> HIDE DEF L
<1>3. CASE Count(g)
  <2>1. made' = made /\ (Continue(g) \/ Fail(g) \/ \E l \in L \ {"idle"} : Stay(g, l))
    BY <1>2, <1>3 DEF Count
  <2> QED  BY <1>1, <1>2, <2>1, KeepsBy DEF L
<1>4. CASE LastCall(g, "fix") \/ FirstCall(g, "tests", "fix")
  BY <1>1, <1>2, <1>4, KeepsBy DEF L
<1> QED  BY <1>3, <1>4 DEF TDDLoop

\* Auto-compaction.
LEMMA CompactKeeps ==
    ASSUME NEW g \in Goroutine, AutoCompact(g)
    PROVE  /\ UNCHANGED iterations /\ pc[g] \notin {"idle", "tests", "fix"}
           /\ Keeps(g, {"idle", "next", "compact"}, {"low", "compact"})
<1>1. UNCHANGED iterations /\ pc[g] \notin {"idle", "tests", "fix"}
  BY DEF AutoCompact, Measure, Compact, Enters, At
<1>2. CASE Measure(g)
  <2>1. CASE made' = made /\ (Continue(g) \/ Stay(g, "compact"))
    BY <1>1, <2>1, KeepsBy
  <2>2. CASE Record(g, "low", TRUE, FALSE) /\ Continue(g)
    BY <1>1, <2>2, FlowsOn DEF Keeps
  <2> QED  BY <1>2, <2>1, <2>2 DEF Measure
<1>3. CASE Compact(g)
  <2>1. \E ok \in BOOLEAN : Record(g, "compact", ok, FALSE) /\ (Continue(g) \/ Fail(g))
    BY <1>3 DEF Compact
  <2> QED  BY <1>1, <2>1, FlowsOn DEF Keeps
<1> QED  BY <1>2, <1>3 DEF AutoCompact

-----------------------------------------------------------------------------
(* Auto-compaction.                                                        *)

\* Whoever starts a compaction holds the mutex, so the thread is still one
\* nobody has asked a compaction for.
Starting ==
    \A g \in Goroutine : pc[g] = "compact" =>
        mutex = g /\ event[g].thread \in Thread /\ event[g].thread \notin requested

\* The inductive invariant.
CompactInv == Types /\ Starting /\ CompactsOnce

Lows(t) == CallsOf({"low"}, t)

\* CompactsOnce, of one thread.
Compacted(t) ==
    /\ \A m, n \in Compactions(t) : m < n => \E k \in Lows(t) : m < k /\ k < n
    /\ t \in requested <=> \E m \in Compactions(t) : \A k \in Lows(t) : k < m

LEMMA CompactedIsOnce == CompactsOnce <=> \A t \in Thread : Compacted(t)
BY DEF CompactsOnce, Compacted, Lows

\* The calls and the compactions of a thread, with one record more.
LEMMA CallsGrow ==
    ASSUME NEW r, Grown(r), NEW S, NEW t
    PROVE  /\ CallsOf(S, t)' = IF r.call \in S /\ r.thread = t
                              THEN CallsOf(S, t) \cup {Len(made) + 1} ELSE CallsOf(S, t)
           /\ Compactions(t)' = IF r.call = "compact" /\ r.thread = t /\ r.ok
                                THEN Compactions(t) \cup {Len(made) + 1} ELSE Compactions(t)
           /\ \A n \in CallsOf(S, t) : n \in Nat /\ n < Len(made) + 1
           /\ \A n \in Compactions(t) : n \in Nat /\ n < Len(made) + 1
<1>1. /\ Len(made) \in Nat /\ DOMAIN made = 1 .. Len(made)
      /\ DOMAIN made' = DOMAIN made \cup {Len(made) + 1}
      /\ \A n \in DOMAIN made : made'[n] = made[n]
      /\ made'[Len(made) + 1] = r
  BY DEF Grown
<1>2. ASSUME NEW T
      PROVE  CallsOf(T, t)' = IF r.call \in T /\ r.thread = t
                              THEN CallsOf(T, t) \cup {Len(made) + 1} ELSE CallsOf(T, t)
  BY ONLY <1>1 DEF CallsOf
<1>3. Compactions(t)' = IF r.call = "compact" /\ r.thread = t /\ r.ok
                        THEN Compactions(t) \cup {Len(made) + 1} ELSE Compactions(t)
  BY ONLY <1>1 DEF CallsOf, Compactions
<1>4. \A n \in DOMAIN made : n \in Nat /\ n < Len(made) + 1
  BY ONLY <1>1
<1>5. CallsOf(S, t) \subseteq DOMAIN made /\ Compactions(t) \subseteq DOMAIN made
  BY DEF CallsOf, Compactions
<1> QED  BY <1>2, <1>3, <1>4, <1>5

LEMMA CallsStay ==
    ASSUME made' = made, NEW S, NEW t
    PROVE  CallsOf(S, t)' = CallsOf(S, t) /\ Compactions(t)' = Compactions(t)
BY DEF CallsOf, Compactions

LEMMA CompactedStays ==
    ASSUME NEW t, Compacted(t), Compactions(t)' = Compactions(t), Lows(t)' = Lows(t),
           t \in requested' <=> t \in requested
    PROVE  Compacted(t)'
BY DEF Compacted

\* A step of another harness, or of a gate.
LEMMA CompactElsewhere ==
    ASSUME CompactInv, NEW g \in Goroutine, PlanGate(g) \/ ReviewGate(g) \/ TDDLoop(g) \/ Dispatched(g),
           Types'
    PROVE  CompactInv'
<1>1. /\ UNCHANGED <<requested, mutex>> /\ pc[g] \notin {"idle", "compact"}
      /\ Keeps(g, Location \ {"compact"}, Call \ {"compact"})
  <2>1. /\ ({"idle", "next"} \cup GateOnly) \subseteq (Location \ {"compact"})
        /\ {"idle", "next", "tests", "fix"} \subseteq (Location \ {"compact"})
        /\ GateCalls \subseteq (Call \ {"compact"})
        /\ {"tests", "fix"} \subseteq (Call \ {"compact"})
    BY DEF GateOnly, GateCalls, Location, Call
  <2>2. ASSUME NEW L, NEW C, L \subseteq Location \ {"compact"}, C \subseteq Call \ {"compact"}, Keeps(g, L, C)
        PROVE  Keeps(g, Location \ {"compact"}, Call \ {"compact"})
    BY <2>2 DEF Keeps
  <2>3. CASE TDDLoop(g)
    BY <2>1, <2>2, <2>3, TDDKeeps
  <2>4. CASE PlanGate(g) \/ ReviewGate(g) \/ Dispatched(g)
    BY <2>1, <2>2, <2>4, GatesKeep
  <2> QED  BY <2>3, <2>4
<1>2. PICK l \in Location \ {"compact"}, v \in {"nil", "error"} : Flow(g, l, v)
  BY <1>1 DEF Keeps
<1>3. pc'[g] # "compact" /\ \A f \in Goroutine : f # g => pc'[f] = pc[f] /\ event'[f] = event[f]
  BY <1>2 DEF CompactInv, Types, Flow
<1>4. Starting'
  BY <1>1, <1>3 DEF CompactInv, Starting
<1>5. ASSUME NEW t \in Thread PROVE Compacted(t)'
  <2>1. Compactions(t)' = Compactions(t) /\ Lows(t)' = Lows(t)
    <3>1. CASE made' = made
      BY <3>1, CallsStay DEF Lows
    <3>2. ASSUME NEW call \in Call \ {"compact"}, NEW ok \in BOOLEAN, NEW more \in BOOLEAN,
                 Record(g, call, ok, more)
          PROVE  Compactions(t)' = Compactions(t) /\ Lows(t)' = Lows(t)
      <4> DEFINE r == RecordOf(g, call, ok, more)
      <4>1. Grown(r)
        BY <1>1, <3>2, RecordGrows DEF CompactInv
      <4>2. r.call # "compact" /\ r.call \notin {"low"}
        BY DEF RecordOf, Call
      <4> HIDE DEF r
      <4> QED  BY <4>1, <4>2, CallsGrow DEF Lows
    <3> QED  BY <1>1, <3>1, <3>2 DEF Keeps
  <2>2. Compacted(t)
    BY CompactedIsOnce DEF CompactInv
  <2> QED  BY <1>1, <2>1, <2>2, CompactedStays
<1>6. CompactsOnce'
  BY <1>5, CompactedIsOnce DEF CompactsOnce, Compacted, Lows
<1> QED  BY <1>4, <1>6 DEF CompactInv

\* The usage is read, or a compaction is about to start.
LEMMA MeasureStep ==
    ASSUME CompactInv, NEW g \in Goroutine, Measure(g), Types'
    PROVE  CompactInv'
<1> DEFINE t == event[g].thread
<1>1. /\ Types /\ pc[g] = "next" /\ event[g] \in Event /\ (t # None => t \in Thread)
  BY EventAssumption DEF CompactInv, Types, Measure, Enters, At
<1>2. \A x \in Thread : Compacted(x)
  BY CompactedIsOnce DEF CompactInv
<1> SUFFICES Starting' /\ \A x \in Thread : Compacted(x)'
  BY CompactedIsOnce DEF CompactInv, CompactsOnce, Compacted, Lows
<1>3. CASE Continue(g) /\ UNCHANGED <<requested, mutex, made>>
  <2>1. pc'[g] = "next" /\ event' = event /\ \A f \in Goroutine : f # g => pc'[f] = pc[f]
    BY <1>1, <1>3 DEF Continue, Goto, Types
  <2>2. Starting'
    BY <1>3, <2>1 DEF CompactInv, Starting
  <2>3. \A x \in Thread : Compacted(x)'
    BY <1>2, <1>3, CallsStay, CompactedStays DEF Lows
  <2> QED  BY <2>2, <2>3
<1>4. CASE t # None /\ mutex = None /\ mutex' = g /\ t \notin requested
           /\ Stay(g, "compact") /\ UNCHANGED <<requested, made>>
  <2>1. pc'[g] = "compact" /\ event' = event /\ \A f \in Goroutine : f # g => pc'[f] = pc[f]
    BY <1>1, <1>4 DEF Stay, frame, Goto, Types
  <2>2. \A f \in Goroutine : pc[f] # "compact"
    BY <1>4, NoneAssumption DEF CompactInv, Starting
  <2>3. Starting'
    BY <1>1, <1>4, <2>1, <2>2 DEF Starting
  <2>4. \A x \in Thread : Compacted(x)'
    BY <1>2, <1>4, CallsStay, CompactedStays DEF Lows
  <2> QED  BY <2>3, <2>4
<1>5. CASE /\ t # None /\ mutex = None /\ requested' = requested \ {t}
           /\ Record(g, "low", TRUE, FALSE) /\ Continue(g) /\ UNCHANGED mutex
  <2>1. pc'[g] = "next" /\ event' = event /\ \A f \in Goroutine : f # g => pc'[f] = pc[f]
    BY <1>1, <1>5 DEF Continue, Goto, Types
  <2>2. Starting'
    BY <1>5, <2>1 DEF CompactInv, Starting
  <2> DEFINE r == RecordOf(g, "low", TRUE, FALSE)
             new == Len(made) + 1
  <2>3. Grown(r)
    BY <1>1, <1>5, RecordGrows
  <2>4. r.call = "low" /\ r.thread = t
    BY DEF RecordOf
  <2> HIDE DEF r, t
  <2>5. ASSUME NEW x \in Thread PROVE Compacted(x)'
    <3>1. /\ Compactions(x)' = Compactions(x)
          /\ Lows(x)' = IF x = t THEN Lows(x) \cup {new} ELSE Lows(x)
          /\ \A n \in Compactions(x) : n \in Nat /\ n < new
      BY <2>3, <2>4, CallsGrow DEF Lows
    <3>2. CASE x # t
      BY <1>2, <1>5, <3>1, <3>2, CompactedStays
    <3>3. CASE x = t
      <4>1. x \notin requested' /\ new \in Lows(x)' /\ Lows(x) \subseteq Lows(x)'
        BY <1>5, <3>1, <3>3
      <4>2. \A m \in Compactions(x)' : ~(new < m)
        BY <2>3, <3>1 DEF Grown
      <4> QED  BY <1>2, <3>1, <4>1, <4>2 DEF Compacted
    <3> QED  BY <3>2, <3>3
  <2> QED  BY <2>2, <2>5
<1> QED  BY <1>3, <1>4, <1>5 DEF Measure

\* A compaction that was started ends.
LEMMA CompactStep ==
    ASSUME CompactInv, NEW g \in Goroutine, Compact(g), Types'
    PROVE  CompactInv'
<1> DEFINE t == event[g].thread
           new == Len(made) + 1
<1>1. /\ Types /\ pc[g] = "compact" /\ t \in Thread /\ t \notin requested /\ mutex = g
      /\ \A f \in Goroutine : pc[f] = "compact" => f = g
  BY DEF CompactInv, Starting, Compact, At
<1>2. \A x \in Thread : Compacted(x)
  BY CompactedIsOnce DEF CompactInv
<1> SUFFICES Starting' /\ \A x \in Thread : Compacted(x)'
  BY CompactedIsOnce DEF CompactInv, CompactsOnce, Compacted, Lows
<1>3. PICK ok \in BOOLEAN :
        /\ requested' = (IF ok THEN requested \cup {t} ELSE requested)
        /\ Record(g, "compact", ok, FALSE) /\ (Continue(g) \/ Fail(g))
  BY DEF Compact
<1>4. Starting'
  <2>1. \A f \in Goroutine : pc'[f] # "compact"
    BY <1>1, <1>3 DEF Continue, Fail, Returns, Goto, Types
  <2> QED  BY <2>1 DEF Starting
<1> DEFINE r == RecordOf(g, "compact", ok, FALSE)
<1>5. Grown(r)
  BY <1>1, <1>3, RecordGrows DEF Call
<1>6. r.call = "compact" /\ r.thread = t /\ r.ok = ok
  BY DEF RecordOf
<1> HIDE DEF r, t
<1>7. ASSUME NEW x \in Thread PROVE Compacted(x)'
  <2>1. /\ Compactions(x)' = IF x = t /\ ok THEN Compactions(x) \cup {new} ELSE Compactions(x)
        /\ Lows(x)' = Lows(x)
        /\ \A n \in Compactions(x) : n \in Nat /\ n < new
        /\ \A n \in Lows(x) : n \in Nat /\ n < new
    BY <1>5, <1>6, CallsGrow DEF Lows
  <2>2. CASE ~(x = t /\ ok)
    BY <1>2, <1>3, <2>1, <2>2, CompactedStays
  <2>3. CASE x = t /\ ok
    <3>1. x \in requested' /\ new \in Compactions(x)' /\ \A k \in Lows(x)' : k < new
      BY <1>3, <2>1, <2>3
    <3>2. ASSUME NEW m \in Compactions(x) PROVE \E k \in Lows(x) : m < k /\ k < new
      <4>1. PICK k \in Lows(x) : ~(k < m)
        BY <1>1, <1>2, <2>3 DEF Compacted
      <4>2. k # m
        BY DEF Lows, Compactions, CallsOf
      <4> QED  BY <2>1, <4>1, <4>2
    <3>3. ASSUME NEW m \in Compactions(x)', NEW n \in Compactions(x)', m < n
          PROVE  \E k \in Lows(x)' : m < k /\ k < n
      <4>1. new \in Nat
        BY <1>5 DEF Grown
      <4>2. m # new
        BY <2>1, <2>3, <3>3, <4>1
      <4>3. m \in Compactions(x) /\ (n = new \/ n \in Compactions(x))
        BY <2>1, <2>3, <4>2
      <4> QED  BY <1>2, <2>1, <3>2, <3>3, <4>3 DEF Compacted
    <3> QED  BY <3>1, <3>3 DEF Compacted
  <2> QED  BY <2>2, <2>3
<1> QED  BY <1>4, <1>7

\* Between two compactions of a thread that succeeded its usage was low, and a
\* failed one is asked for again (auto_compact.go), however many goroutines
\* read the usage at once.
THEOREM CompactionsOnce == Spec => []CompactsOnce
<1>1. Init => CompactInv
  <2> SUFFICES ASSUME Init PROVE CompactInv
    OBVIOUS
  <2>1. Types
    BY InitGates DEF GateInv
  <2>2. Starting
    BY DEF Init, Starting
  <2>3. \A t \in Thread : CallsOf({"compact"}, t) = {}
    BY DEF Init, CallsOf
  <2>4. CompactsOnce
    BY <2>3 DEF Init, CompactsOnce, Compactions
  <2> QED  BY <2>1, <2>2, <2>4 DEF CompactInv
<1>2. GateInv => Types
  BY DEF GateInv
<1>3. CompactInv /\ Types' /\ [Next]_vars => CompactInv'
  <2> SUFFICES ASSUME CompactInv, Types', [Next]_vars PROVE CompactInv'
    OBVIOUS
  <2>1. CASE UNCHANGED vars
    BY <2>1 DEF vars, frame, harnessVars, CompactInv, Starting, CompactsOnce, Compactions, CallsOf
  <2>2. ASSUME NEW g \in Goroutine, NEW e \in Event, DispatchNotification(g, e) PROVE CompactInv'
    <3>1. /\ UNCHANGED <<requested, mutex, made>>
          /\ pc' = [pc EXCEPT ![g] = "next"] /\ event' = [event EXCEPT ![g] = e]
      BY <2>2 DEF DispatchNotification, harnessVars, Goto
    <3>2. \A f \in Goroutine : pc'[f] = "compact" => f # g /\ pc[f] = "compact" /\ event'[f] = event[f]
      BY <3>1 DEF CompactInv, Types
    <3>3. Starting'
      BY <3>1, <3>2 DEF CompactInv, Starting
    <3> QED  BY <3>1, <3>3 DEF CompactInv, CompactsOnce, Compactions, CallsOf
  <2> QED  BY <2>1, <2>2, CompactElsewhere, MeasureStep, CompactStep DEF Next, Step, AutoCompact
<1>4. CompactInv => CompactsOnce
  BY DEF CompactInv
<1> QED  BY <1>1, <1>2, <1>3, <1>4, InitGates, NextGates, PTL DEF Spec

-----------------------------------------------------------------------------
(* The TDD loop.                                                           *)

Fails(t) == {n \in CallsOf({"tests"}, t) : made[n].more}

Limit(n) == IF n < MaxIterations THEN n ELSE MaxIterations

\* TestBudget, of one thread.
Budget(t) ==
    /\ Cardinality(CallsOf({"tests"}, t)) + Cardinality(Inside({"tests"}, t)) = Limit(iterations[t])
    /\ Cardinality(CallsOf({"fix"}, t)) + Cardinality(Inside({"fix"}, t)) = Cardinality(Fails(t))

Busied(t) == IsFiniteSet(Inside({"tests"}, t)) /\ IsFiniteSet(Inside({"fix"}, t))

\* The inductive invariant: what Budget counts is finite, though there may be
\* infinitely many goroutines.
BudgetInv ==
    /\ Types
    /\ iterations \in [Thread -> Nat]
    /\ \A t \in Thread : Busied(t) /\ Budget(t)

LEMMA BudgetIs == TestBudget <=> \A t \in Thread : Budget(t)
BY DEF TestBudget, Budget, Fails, Limit

LEMMA CallsFinite ==
    ASSUME Types, NEW t, NEW S
    PROVE  IsFiniteSet(CallsOf(S, t)) /\ IsFiniteSet(Fails(t))
<1>1. DOMAIN made = 1 .. Len(made) /\ Len(made) \in Nat
  BY DEF Types
<1>2. IsFiniteSet(DOMAIN made)
  BY <1>1, FS_Interval
<1>3. CallsOf(S, t) \subseteq DOMAIN made /\ Fails(t) \subseteq DOMAIN made
  BY DEF CallsOf, Fails
<1> QED  BY <1>2, <1>3, FS_Subset

\* Who is inside a location, when g moves to l.
LEMMA InsideMoves ==
    ASSUME Types, NEW g \in Goroutine, NEW l, NEW v, Flow(g, l, v), NEW S, "idle" \notin S, NEW t
    PROVE  Inside(S, t)' = IF l \in S /\ event[g].thread = t
                           THEN Inside(S, t) \cup {g} ELSE Inside(S, t) \ {g}
<1>1. /\ pc'[g] = l /\ (l # "idle" => event'[g] = event[g])
      /\ \A f \in Goroutine : f # g => pc'[f] = pc[f] /\ event'[f] = event[f]
  BY DEF Types, Flow
<1> QED  BY <1>1 DEF Inside

LEMMA LoopMoves ==
    ASSUME Types, NEW g \in Goroutine, NEW l, NEW v, Flow(g, l, v), NEW t
    PROVE  /\ Inside({"tests"}, t)' = IF l = "tests" /\ event[g].thread = t
                                      THEN Inside({"tests"}, t) \cup {g} ELSE Inside({"tests"}, t) \ {g}
           /\ Inside({"fix"}, t)' = IF l = "fix" /\ event[g].thread = t
                                    THEN Inside({"fix"}, t) \cup {g} ELSE Inside({"fix"}, t) \ {g}
<1>1. /\ pc'[g] = l /\ (l # "idle" => event'[g] = event[g])
      /\ \A f \in Goroutine : f # g => pc'[f] = pc[f] /\ event'[f] = event[f]
  BY DEF Types, Flow
<1> QED  BY <1>1 DEF Inside

LEMMA FailsGrow ==
    ASSUME NEW r, Grown(r), NEW t
    PROVE  Fails(t)' = IF r.call = "tests" /\ r.thread = t /\ r.more
                       THEN Fails(t) \cup {Len(made) + 1} ELSE Fails(t)
<1>1. /\ DOMAIN made' = DOMAIN made \cup {Len(made) + 1}
      /\ \A n \in DOMAIN made : made'[n] = made[n]
      /\ made'[Len(made) + 1] = r
  BY DEF Grown
<1> QED  BY ONLY <1>1 DEF CallsOf, Fails

\* What a thread has not been touched by.
Untouched(t) ==
    /\ \A S \in {{"tests"}, {"fix"}} : Inside(S, t)' = Inside(S, t) /\ CallsOf(S, t)' = CallsOf(S, t)
    /\ Fails(t)' = Fails(t) /\ iterations'[t] = iterations[t]

LEMMA UntouchedKeeps ==
    ASSUME NEW t, Busied(t), Budget(t), Untouched(t)
    PROVE  Busied(t)' /\ Budget(t)'
BY DEF Busied, Budget, Untouched

\* One more or one fewer.
LEMMA Plus ==
    ASSUME NEW S, IsFiniteSet(S), NEW x, x \notin S
    PROVE  IsFiniteSet(S \cup {x}) /\ Cardinality(S \cup {x}) = Cardinality(S) + 1
BY FS_AddElement

LEMMA Minus ==
    ASSUME NEW S, IsFiniteSet(S), NEW x \in S
    PROVE  IsFiniteSet(S \ {x}) /\ Cardinality(S \ {x}) = Cardinality(S) - 1
BY FS_RemoveElement

\* A step of a gate or of auto-compaction.
LEMMA BudgetElsewhere ==
    ASSUME BudgetInv, NEW g \in Goroutine,
           PlanGate(g) \/ ReviewGate(g) \/ AutoCompact(g) \/ Dispatched(g), Types'
    PROVE  BudgetInv'
<1> DEFINE D == {"tests", "fix"}
           C == (Call \cup {"low"}) \ D
<1>1. UNCHANGED iterations /\ pc[g] \notin D \cup {"idle"} /\ Keeps(g, Location \ D, C)
  <2>1. /\ ({"idle", "next"} \cup GateOnly) \subseteq (Location \ D)
        /\ {"idle", "next", "compact"} \subseteq (Location \ D)
        /\ GateCalls \subseteq C /\ {"low", "compact"} \subseteq C
    BY DEF GateOnly, GateCalls, Location, Call
  <2>2. ASSUME NEW K, NEW B, K \subseteq Location \ D, B \subseteq C, Keeps(g, K, B)
        PROVE  Keeps(g, Location \ D, C)
    BY <2>2 DEF Keeps
  <2>3. CASE AutoCompact(g)
    BY <2>1, <2>2, <2>3, CompactKeeps
  <2>4. CASE PlanGate(g) \/ ReviewGate(g) \/ Dispatched(g)
    BY <2>1, <2>2, <2>4, GatesKeep
  <2> QED  BY <2>3, <2>4
<1>2. PICK l \in Location \ D, v \in {"nil", "error"} : Flow(g, l, v)
  BY <1>1 DEF Keeps
<1>3. ASSUME NEW t \in Thread PROVE Untouched(t)
  <2>1. ASSUME NEW S \in {{"tests"}, {"fix"}} PROVE Inside(S, t)' = Inside(S, t)
    <3>1. l \notin S /\ "idle" \notin S /\ g \notin Inside(S, t)
      BY <1>1 DEF Inside
    <3> QED  BY <1>2, <3>1, InsideMoves DEF BudgetInv
  <2>2. CASE made' = made
    BY <1>1, <2>1, <2>2, CallsStay DEF Untouched, Fails
  <2>3. ASSUME NEW call \in C, NEW ok \in BOOLEAN, NEW more \in BOOLEAN, Record(g, call, ok, more)
        PROVE  Untouched(t)
    <3> DEFINE r == RecordOf(g, call, ok, more)
    <3>1. Grown(r)
      BY <1>1, <2>3, RecordGrows DEF BudgetInv
    <3>2. r.call \notin D
      BY DEF RecordOf
    <3> HIDE DEF r
    <3>3. \A S \in {{"tests"}, {"fix"}} : CallsOf(S, t)' = CallsOf(S, t)
      BY <3>1, <3>2, CallsGrow
    <3> QED  BY <1>1, <2>1, <3>1, <3>2, <3>3, FailsGrow DEF Untouched
  <2> QED  BY <1>1, <2>2, <2>3 DEF Keeps
<1> QED  BY <1>1, <1>3, UntouchedKeeps DEF BudgetInv

\* A turn is counted, and its tests run within the budget.
LEMMA CountStep ==
    ASSUME BudgetInv, NEW g \in Goroutine, Count(g), Types'
    PROVE  BudgetInv'
<1> DEFINE t == event[g].thread
<1>1. /\ Types /\ pc[g] = "next" /\ event[g] \in Event /\ (t # None => t \in Thread) /\ made' = made
  BY EventAssumption DEF BudgetInv, Types, Count, Enters, At
<1>2. \A x : \A S : CallsOf(S, x)' = CallsOf(S, x) /\ Fails(x)' = Fails(x)
  BY <1>1, CallsStay DEF Fails
<1>3. \A x : g \notin Inside({"tests"}, x) /\ g \notin Inside({"fix"}, x)
  BY <1>1 DEF Inside
<1>4. ASSUME NEW x
      PROVE  Inside({"tests"}, x) \ {g} = Inside({"tests"}, x) /\ Inside({"fix"}, x) \ {g} = Inside({"fix"}, x)
  BY <1>3
<1>5. ASSUME NEW x
      PROVE  /\ Flow(g, "next", "nil") => /\ Inside({"tests"}, x)' = Inside({"tests"}, x)
                                          /\ Inside({"fix"}, x)' = Inside({"fix"}, x)
             /\ Flow(g, "tests", "nil") => /\ Inside({"tests"}, x)' = IF x = t THEN Inside({"tests"}, x) \cup {g}
                                                                     ELSE Inside({"tests"}, x)
                                           /\ Inside({"fix"}, x)' = Inside({"fix"}, x)
  <2>1. ASSUME Flow(g, "next", "nil")
        PROVE  Inside({"tests"}, x)' = Inside({"tests"}, x) /\ Inside({"fix"}, x)' = Inside({"fix"}, x)
    <3>1. "next" # "tests" /\ "next" # "fix" /\ Types
      BY <1>1
    <3>2. Inside({"tests"}, x)' = Inside({"tests"}, x) \ {g} /\ Inside({"fix"}, x)' = Inside({"fix"}, x) \ {g}
      BY <2>1, <3>1, LoopMoves
    <3> QED  BY <1>4, <3>2
  <2>2. ASSUME Flow(g, "tests", "nil")
        PROVE  /\ Inside({"tests"}, x)' = IF x = t THEN Inside({"tests"}, x) \cup {g} ELSE Inside({"tests"}, x)
               /\ Inside({"fix"}, x)' = Inside({"fix"}, x)
    <3>1. "fix" # "tests" /\ Types
      BY <1>1
    <3>2. /\ Inside({"tests"}, x)' = IF event[g].thread = x THEN Inside({"tests"}, x) \cup {g}
                                     ELSE Inside({"tests"}, x) \ {g}
          /\ Inside({"fix"}, x)' = Inside({"fix"}, x) \ {g}
      BY <2>2, <3>1, LoopMoves
    <3> QED  BY <1>4, <3>2
  <2> QED  BY <2>1, <2>2
<1> HIDE DEF t
<1>6. CASE Continue(g) /\ UNCHANGED iterations
  <2>1. Flow(g, "next", "nil")
    BY <1>6, FlowsOn
  <2>2. \A x \in Thread : Untouched(x)
    BY <1>2, <1>5, <1>6, <2>1 DEF Untouched
  <2> QED  BY <1>6, <2>2, UntouchedKeeps DEF BudgetInv
<1>7. CASE /\ t \in Thread /\ iterations' = [iterations EXCEPT ![t] = @ + 1]
           /\ IF iterations[t] < MaxIterations THEN Stay(g, "tests") ELSE Continue(g)
  <2>1. /\ iterations \in [Thread -> Nat] /\ iterations' \in [Thread -> Nat]
        /\ iterations'[t] = iterations[t] + 1 /\ \A x \in Thread : x # t => iterations'[x] = iterations[x]
    BY <1>7 DEF BudgetInv
  <2>2. ASSUME NEW x \in Thread PROVE Busied(x)' /\ Budget(x)'
    <3>1. Busied(x) /\ Budget(x)
      BY DEF BudgetInv
    <3>2. CASE iterations[t] < MaxIterations
      <4>1. Flow(g, "tests", "nil")
        BY <1>7, <3>2, FlowsOn
      <4>2. /\ Inside({"tests"}, x)' = IF x = t THEN Inside({"tests"}, x) \cup {g} ELSE Inside({"tests"}, x)
            /\ Inside({"fix"}, x)' = Inside({"fix"}, x)
        BY <1>5, <4>1
      <4>3. CASE x # t
        BY <1>2, <2>1, <3>1, <4>2, <4>3, UntouchedKeeps DEF Untouched
      <4>4. CASE x = t
        <5> DEFINE I == Inside({"tests"}, x)
                   T == CallsOf({"tests"}, x)
        <5>1. IsFiniteSet(I) /\ g \notin I
          BY <1>3, <3>1 DEF Busied
        <5>2. IsFiniteSet(I \cup {g}) /\ Cardinality(I \cup {g}) = Cardinality(I) + 1 /\ Cardinality(I) \in Nat
          BY <5>1, Plus, FS_CardinalityType
        <5>3. Cardinality(T) \in Nat /\ T' = T
          BY <1>1, <1>2, CallsFinite, FS_CardinalityType
        <5>4. Limit(iterations'[x]) = Limit(iterations[x]) + 1
          BY <2>1, <3>2, <4>4, IterationAssumption DEF Limit
        <5>5. I' = I \cup {g} /\ Cardinality(T) + Cardinality(I) = Limit(iterations[x])
          BY <3>1, <4>2, <4>4 DEF Budget
        <5>6. Limit(iterations[x]) \in Nat
          BY <2>1, IterationAssumption DEF Limit
        <5> HIDE DEF I, T
        <5>7. Busied(x)'
          BY <3>1, <4>2, <5>2, <5>5 DEF Busied, I
        <5>8. Cardinality(T') + Cardinality(I') = Limit(iterations'[x])
          BY <5>2, <5>3, <5>4, <5>5, <5>6
        <5>9. Budget(x)'
          BY <1>2, <3>1, <4>2, <5>8 DEF Budget, I, T, Limit
        <5> QED  BY <5>7, <5>9
      <4> QED  BY <4>3, <4>4
    <3>3. CASE ~(iterations[t] < MaxIterations)
      <4>1. Flow(g, "next", "nil")
        BY <1>7, <3>3, FlowsOn
      <4>2. /\ Inside({"tests"}, x)' = Inside({"tests"}, x) /\ Inside({"fix"}, x)' = Inside({"fix"}, x)
        BY <1>5, <4>1
      <4>3. Limit(iterations'[x]) = Limit(iterations[x])
        BY <2>1, <3>3, IterationAssumption DEF Limit
      <4> QED  BY <1>2, <3>1, <4>2, <4>3 DEF Busied, Budget, Limit
    <3> QED  BY <3>2, <3>3
  <2> QED  BY <2>1, <2>2 DEF BudgetInv
<1>8. t # None => t \in Thread
  BY <1>1 DEF t
<1> QED  BY <1>6, <1>7, <1>8 DEF Count, t

\* The tests have run: a failed run asks for a fix, which is counted as it starts.
LEMMA TestsStep ==
    ASSUME BudgetInv, NEW g \in Goroutine, FirstCall(g, "tests", "fix"), Types'
    PROVE  BudgetInv'
<1> DEFINE t == event[g].thread
<1>1. Types /\ pc[g] = "tests" /\ UNCHANGED iterations
  BY DEF BudgetInv, FirstCall, At, harnessVars
<1>2. PICK ok \in BOOLEAN, more \in BOOLEAN :
        /\ Record(g, "tests", ok, ok /\ more)
        /\ IF ok /\ more THEN Stay(g, "fix") ELSE Continue(g) \/ Fail(g)
  BY DEF FirstCall
<1> DEFINE again == ok /\ more
           r == RecordOf(g, "tests", ok, again)
           new == Len(made) + 1
<1>3. Grown(r) /\ r.call = "tests" /\ r.thread = t /\ r.more = again
  <2>1. again \in BOOLEAN /\ "tests" \in Call \cup {"low"} /\ pc[g] # "idle"
    BY <1>1 DEF Call
  <2> QED  BY <1>1, <1>2, <2>1, RecordGrows DEF RecordOf
<1>4. PICK l, v : Flow(g, l, v) /\ (l = "fix" <=> again) /\ l # "tests"
  BY <1>2, FlowsOn
<1>5. g \in Inside({"tests"}, t) /\ \A x : x # t => g \notin Inside({"tests"}, x)
  BY <1>1 DEF Inside
<1>6. \A x : g \notin Inside({"fix"}, x)
  BY <1>1 DEF Inside
<1> HIDE DEF r, again, t
<1>7. ASSUME NEW x \in Thread PROVE Busied(x)' /\ Budget(x)'
  <2>1. Busied(x) /\ Budget(x)
    BY DEF BudgetInv
  <2>2. /\ Inside({"tests"}, x)' = Inside({"tests"}, x) \ {g}
        /\ Inside({"fix"}, x)' = IF again /\ x = t THEN Inside({"fix"}, x) \cup {g} ELSE Inside({"fix"}, x)
    <3>1. (l = "fix" <=> again) /\ l # "tests" /\ Flow(g, l, v) /\ Types
      BY <1>1, <1>4
    <3>2. Inside({"fix"}, x) \ {g} = Inside({"fix"}, x)
      BY <1>6
    <3>3. /\ Inside({"tests"}, x)' = Inside({"tests"}, x) \ {g}
          /\ Inside({"fix"}, x)' = IF l = "fix" /\ event[g].thread = x
                                   THEN Inside({"fix"}, x) \cup {g} ELSE Inside({"fix"}, x) \ {g}
      BY <3>1, LoopMoves
    <3> QED  BY <3>1, <3>2, <3>3 DEF t
  <2>3. /\ CallsOf({"tests"}, x)' = IF x = t THEN CallsOf({"tests"}, x) \cup {new} ELSE CallsOf({"tests"}, x)
        /\ CallsOf({"fix"}, x)' = CallsOf({"fix"}, x)
        /\ Fails(x)' = IF x = t /\ again THEN Fails(x) \cup {new} ELSE Fails(x)
    BY <1>3, CallsGrow, FailsGrow
  <2>4. CASE x # t
    <3>1. Untouched(x)
      BY <1>1, <1>5, <2>2, <2>3, <2>4 DEF Untouched
    <3> QED  BY <2>1, <3>1, UntouchedKeeps
  <2>5. CASE x = t
    <3> DEFINE I == Inside({"tests"}, x)
               F == Inside({"fix"}, x)
               T == CallsOf({"tests"}, x)
               X == CallsOf({"fix"}, x)
               N == Fails(x)
    <3>1. IsFiniteSet(I) /\ IsFiniteSet(F) /\ IsFiniteSet(T) /\ IsFiniteSet(X) /\ IsFiniteSet(N)
      BY <1>1, <2>1, CallsFinite DEF Busied
    <3>2. new \notin T /\ new \notin N /\ g \in I /\ g \notin F
      <4>1. \A n \in T : n \in Nat /\ n < new
        BY <1>3, CallsGrow
      <4>2. N \subseteq T
        BY DEF Fails
      <4>3. new \in Nat
        BY <1>3 DEF Grown
      <4> QED  BY <1>5, <1>6, <2>5, <4>1, <4>2, <4>3
    <3>3. /\ I' = I \ {g} /\ T' = T \cup {new} /\ X' = X
          /\ F' = (IF again THEN F \cup {g} ELSE F) /\ N' = (IF again THEN N \cup {new} ELSE N)
      BY <2>2, <2>3, <2>5
    <3>4. /\ Cardinality(T) + Cardinality(I) = Limit(iterations[x])
          /\ Cardinality(X) + Cardinality(F) = Cardinality(N)
      BY <2>1 DEF Budget
    <3> HIDE DEF I, F, T, X, N, new
    <3>5. /\ Cardinality(I) \in Nat /\ Cardinality(F) \in Nat /\ Cardinality(T) \in Nat
          /\ Cardinality(X) \in Nat /\ Cardinality(N) \in Nat
      BY <3>1, FS_CardinalityType
    <3>6. /\ IsFiniteSet(I') /\ Cardinality(I') = Cardinality(I) - 1
          /\ Cardinality(T') = Cardinality(T) + 1
      BY <3>1, <3>2, <3>3, Plus, Minus
    <3>7. /\ IsFiniteSet(F') /\ Cardinality(F') = Cardinality(F) + (IF again THEN 1 ELSE 0)
          /\ Cardinality(N') = Cardinality(N) + (IF again THEN 1 ELSE 0)
      <4>1. CASE again
        BY <3>1, <3>2, <3>3, <4>1, Plus
      <4>2. CASE ~again
        BY <3>1, <3>3, <3>5, <4>2
      <4> QED  BY <4>1, <4>2
    <3>8. Cardinality(T') + Cardinality(I') = Limit(iterations[x])
      BY <3>4, <3>5, <3>6
    <3>9. Cardinality(X') + Cardinality(F') = Cardinality(N')
      BY <3>3, <3>4, <3>5, <3>7
    <3>10. Busied(x)'
      BY <3>6, <3>7 DEF Busied, I, F
    <3> QED  BY <1>1, <3>8, <3>9, <3>10 DEF Budget, Limit, I, F, T, X, N
  <2> QED  BY <2>4, <2>5
<1>8. iterations' \in [Thread -> Nat]
  BY <1>1 DEF BudgetInv
<1> QED  BY <1>7, <1>8 DEF BudgetInv

\* The fix was asked for.
LEMMA FixStep ==
    ASSUME BudgetInv, NEW g \in Goroutine, LastCall(g, "fix"), Types'
    PROVE  BudgetInv'
<1> DEFINE t == event[g].thread
           new == Len(made) + 1
<1>1. Types /\ pc[g] = "fix" /\ UNCHANGED iterations
  BY DEF BudgetInv, LastCall, At, harnessVars
<1>2. PICK ok \in BOOLEAN : Record(g, "fix", ok, FALSE) /\ (Continue(g) \/ Fail(g))
  BY DEF LastCall
<1> DEFINE r == RecordOf(g, "fix", ok, FALSE)
<1>3. Grown(r) /\ r.call = "fix" /\ r.thread = t
  BY <1>1, <1>2, RecordGrows DEF RecordOf, Call
<1>4. PICK l, v : Flow(g, l, v) /\ l \notin {"tests", "fix"}
  BY <1>2, FlowsOn
<1>5. /\ g \in Inside({"fix"}, t) /\ \A x : x # t => g \notin Inside({"fix"}, x)
      /\ \A x : g \notin Inside({"tests"}, x)
  BY <1>1 DEF Inside
<1> HIDE DEF r, t
<1>6. ASSUME NEW x \in Thread PROVE Busied(x)' /\ Budget(x)'
  <2>1. Busied(x) /\ Budget(x)
    BY DEF BudgetInv
  <2>2. Inside({"fix"}, x)' = Inside({"fix"}, x) \ {g} /\ Inside({"tests"}, x)' = Inside({"tests"}, x)
    <3>1. l # "tests" /\ l # "fix" /\ Flow(g, l, v) /\ Types
      BY <1>1, <1>4
    <3>2. Inside({"tests"}, x) \ {g} = Inside({"tests"}, x)
      BY <1>5
    <3> QED  BY <3>1, <3>2, LoopMoves
  <2>3. /\ CallsOf({"fix"}, x)' = IF x = t THEN CallsOf({"fix"}, x) \cup {new} ELSE CallsOf({"fix"}, x)
        /\ CallsOf({"tests"}, x)' = CallsOf({"tests"}, x)
        /\ Fails(x)' = Fails(x)
    BY <1>3, CallsGrow, FailsGrow
  <2>4. CASE x # t
    <3>1. Untouched(x)
      BY <1>1, <1>5, <2>2, <2>3, <2>4 DEF Untouched
    <3> QED  BY <2>1, <3>1, UntouchedKeeps
  <2>5. CASE x = t
    <3> DEFINE F == Inside({"fix"}, x)
               X == CallsOf({"fix"}, x)
    <3>1. IsFiniteSet(F) /\ IsFiniteSet(X)
      BY <1>1, <2>1, CallsFinite DEF Busied
    <3>2. new \notin X /\ g \in F
      <4>1. (\A n \in X : n \in Nat /\ n < new) /\ new \in Nat
        BY <1>3, CallsGrow DEF Grown
      <4> QED  BY <1>5, <2>5, <4>1
    <3>3. F' = F \ {g} /\ X' = X \cup {new}
      BY <2>2, <2>3, <2>5
    <3> HIDE DEF F, X, new
    <3>4. Cardinality(F) \in Nat /\ Cardinality(X) \in Nat
      BY <3>1, FS_CardinalityType
    <3>5. /\ IsFiniteSet(F') /\ Cardinality(F') = Cardinality(F) - 1
          /\ Cardinality(X') = Cardinality(X) + 1
      BY <3>1, <3>2, <3>3, Plus, Minus
    <3>6. Cardinality(X') + Cardinality(F') = Cardinality(X) + Cardinality(F)
      BY <3>4, <3>5
    <3>7. Busied(x)'
      BY <2>1, <2>2, <3>5 DEF Busied, F
    <3> QED  BY <1>1, <2>1, <2>2, <2>3, <3>6, <3>7 DEF Budget, Limit, F, X
  <2> QED  BY <2>4, <2>5
<1>7. iterations' \in [Thread -> Nat]
  BY <1>1 DEF BudgetInv
<1> QED  BY <1>6, <1>7 DEF BudgetInv

\* The tests run for the first MaxIterations completed turns of a thread and no
\* others, and a fix is asked for once after each failed run (tdd_loop.go),
\* however many goroutines dispatch completions at once.
THEOREM TestsInBudget == Spec => []TestBudget
<1>1. Init => BudgetInv
  <2> SUFFICES ASSUME Init PROVE BudgetInv
    OBVIOUS
  <2>1. Types
    BY InitGates DEF GateInv
  <2>2. \A t : \A S \in {{"tests"}, {"fix"}} : Inside(S, t) = {} /\ CallsOf(S, t) = {} /\ Fails(t) = {}
    BY DEF Init, Inside, CallsOf, Fails
  <2>3. Cardinality({}) = 0 /\ IsFiniteSet({})
    BY FS_EmptySet
  <2>4. iterations \in [Thread -> Nat] /\ \A t \in Thread : iterations[t] = 0
    BY DEF Init
  <2>5. Limit(0) = 0
    BY IterationAssumption DEF Limit
  <2>6. ASSUME NEW t \in Thread PROVE Busied(t) /\ Budget(t)
    <3>1. /\ Inside({"tests"}, t) = {} /\ Inside({"fix"}, t) = {} /\ Fails(t) = {}
          /\ CallsOf({"tests"}, t) = {} /\ CallsOf({"fix"}, t) = {}
      BY <2>2
    <3> QED  BY <2>3, <2>4, <2>5, <3>1 DEF Busied, Budget
  <2> QED  BY <2>1, <2>4, <2>6 DEF BudgetInv
<1>2. GateInv => Types
  BY DEF GateInv
<1>3. BudgetInv /\ Types' /\ [Next]_vars => BudgetInv'
  <2> SUFFICES ASSUME BudgetInv, Types', [Next]_vars PROVE BudgetInv'
    OBVIOUS
  <2>1. CASE UNCHANGED vars
    <3>1. \A t \in Thread : Untouched(t)
      BY <2>1 DEF vars, frame, harnessVars, Untouched, Inside, CallsOf, Fails
    <3>2. iterations' \in [Thread -> Nat]
      BY <2>1 DEF vars, harnessVars, BudgetInv
    <3> QED  BY <3>1, <3>2, UntouchedKeeps DEF BudgetInv
  <2>2. ASSUME NEW g \in Goroutine, NEW e \in Event, DispatchNotification(g, e) PROVE BudgetInv'
    <3>1. /\ UNCHANGED <<iterations, made>> /\ pc[g] = "idle"
          /\ pc' = [pc EXCEPT ![g] = "next"] /\ event' = [event EXCEPT ![g] = e]
      BY <2>2 DEF DispatchNotification, harnessVars, Goto, At
    <3>2. /\ pc'[g] = "next"
          /\ \A f \in Goroutine : f # g => pc'[f] = pc[f] /\ event'[f] = event[f]
      BY <3>1 DEF BudgetInv, Types
    <3>3. \A t : \A S \in {{"tests"}, {"fix"}} : Inside(S, t)' = Inside(S, t)
      BY <3>1, <3>2 DEF Inside
    <3>4. \A t \in Thread : Untouched(t)
      BY <3>1, <3>3, CallsStay DEF Untouched, Fails
    <3> QED  BY <3>1, <3>4, UntouchedKeeps DEF BudgetInv
  <2> QED  BY <2>1, <2>2, BudgetElsewhere, CountStep, TestsStep, FixStep DEF Next, Step, TDDLoop
<1>4. BudgetInv => TestBudget
  BY BudgetIs DEF BudgetInv
<1> QED  BY <1>1, <1>2, <1>3, <1>4, InitGates, NextGates, PTL DEF Spec

-----------------------------------------------------------------------------
(* The autopilot.  Induction on the natural numbers, in a form without an  *)
(* operator as parameter: a set that holds 0 and all successors.           *)

LEMMA Induction ==
    ASSUME NEW S, 0 \in S, \A n \in Nat : n \in S => n + 1 \in S
    PROVE  Nat \subseteq S
<1> DEFINE R == OpToRel(<, Nat)
           T == Nat \ S
<1>1. IsWellFoundedOn(R, Nat)
  BY NatLessThanWellFounded
<1>2. \A x, y \in Nat : <<x, y>> \in R <=> x < y
  BY DEF OpToRel
<1> HIDE DEF R
<1>3. CASE T # {}
  <2>1. T \subseteq Nat
    OBVIOUS
  <2> HIDE DEF T
  <2>2. PICK x \in T : \A y \in T : <<y, x>> \notin R
    BY <1>1, <1>3, <2>1, WFMin
  <2> USE DEF T
  <2>3. x # 0 /\ x \in Nat /\ x - 1 \in Nat /\ x - 1 < x
    BY <2>2
  <2>4. x - 1 \in S
    BY <1>2, <2>2, <2>3
  <2>5. (x - 1) + 1 = x
    BY <2>3
  <2> QED  BY <2>2, <2>3, <2>4, <2>5
<1> QED  BY <1>3

\* A function defined by what it is at 0 and by a step exists.
Stepwise(f, m, base, step) ==
    f = [n \in 0 .. m |-> IF n = 0 THEN base ELSE step[<<n, f[n - 1]>>]]

LEMMA StepwiseExists ==
    ASSUME NEW m \in Nat, NEW S, NEW base \in S, NEW step \in [(1 .. m) \X S -> S]
    PROVE  \E f \in [0 .. m -> S] : Stepwise(f, m, base, step)
<1> DEFINE Upto(f, k) == f \in [0 .. k -> S] /\ f[0] = base /\ \A n \in 1 .. k : f[n] = step[<<n, f[n - 1]>>]
           K == {k \in Nat : k <= m => \E f : Upto(f, k)}
<1>1. 0 \in K
  <2>1. Upto([n \in 0 .. 0 |-> base], 0)
    OBVIOUS
  <2> QED  BY <2>1
<1>2. ASSUME NEW k \in Nat, k \in K PROVE k + 1 \in K
  <2>1. CASE k + 1 <= m
    <3>1. PICK f : Upto(f, k)
      BY <1>2, <2>1
    <3> DEFINE x == step[<<k + 1, f[k]>>]
               g == [n \in 0 .. k + 1 |-> IF n = k + 1 THEN x ELSE f[n]]
    <3>2. x \in S
      <4>1. f[k] \in S /\ k + 1 \in 1 .. m
        BY <2>1, <3>1
      <4> QED  BY <4>1
    <3>3. g \in [0 .. k + 1 -> S] /\ g[0] = base
      <4> HIDE DEF x
      <4> QED  BY <3>1, <3>2
    <3>4. ASSUME NEW n \in 1 .. k + 1 PROVE g[n] = step[<<n, g[n - 1]>>]
      <4>1. g[n - 1] = f[n - 1]
        OBVIOUS
      <4>2. CASE n = k + 1
        <5>1. n - 1 = k /\ g[n] = x
          BY <4>2
        <5> QED  BY <4>1, <4>2, <5>1
      <4>3. CASE n # k + 1
        <5>1. n \in 1 .. k /\ g[n] = f[n]
          BY <4>3
        <5> QED  BY <3>1, <4>1, <5>1
      <4> QED  BY <4>2, <4>3
    <3> HIDE DEF g
    <3>5. Upto(g, k + 1)
      BY <3>3, <3>4
    <3> QED  BY <3>5
  <2> QED  BY <2>1
<1> HIDE DEF K
<1>3. m \in K
  BY <1>1, <1>2, Induction
<1> USE DEF K
<1>4. PICK f : Upto(f, m)
  BY <1>3
<1>5. \A n \in 0 .. m : f[n] = IF n = 0 THEN base ELSE step[<<n, f[n - 1]>>]
  BY <1>4
<1>6. f = [n \in 0 .. m |-> IF n = 0 THEN base ELSE step[<<n, f[n - 1]>>]]
  BY <1>4, <1>5
<1> QED  BY <1>4, <1>6 DEF Stepwise

Change == [object : BOOLEAN, denied : BOOLEAN, added : Number, removed : Number]
Judged == [denied : BOOLEAN, total : IntRange]
Start  == [denied |-> FALSE, total |-> 0]

\* A sum of ints is the true sum, but for some wraps.
Width == 2 * (MaxInt + 1)
Congruent(a, b) == \E k \in Int : a = b + k * Width

\* The numbers of a change that is read are ints.
Plain(change) == change.object => {change.added, change.removed} \subseteq IntRange

LEMMA WrapIs ==
    ASSUME NEW a \in IntRange, NEW b \in IntRange
    PROVE  /\ Wrap(a + b) \in IntRange
           /\ Wrap(a + b) \in {a + b, a + b + Width, a + b - Width}
BY NumberAssumption DEF Wrap, IntRange, Width

\* One wrap more or less, or none.
LEMMA CongruentStep ==
    ASSUME NEW a \in Int, NEW b \in Int, NEW c \in Int, Congruent(a, b),
           NEW d \in {a + c, a + c + Width, a + c - Width}
    PROVE  Congruent(d, b + c)
<1>1. PICK k \in Int : a = b + k * Width
  BY DEF Congruent
<1>2. Width \in Int
  BY NumberAssumption DEF Width
<1> HIDE DEF Width
<1>3. /\ k * Width \in Int /\ (k + 1) * Width = k * Width + Width
      /\ (k - 1) * Width = k * Width - Width
  BY <1>2
<1>4. \/ d = (b + c) + k * Width
      \/ d = (b + c) + (k + 1) * Width
      \/ d = (b + c) + (k - 1) * Width
  <2> DEFINE w == k * Width
  <2>1. w \in Int /\ a = b + w
    BY <1>1, <1>3
  <2> HIDE DEF w
  <2>2. d = b + c + w \/ d = b + c + (w + Width) \/ d = b + c + (w - Width)
    BY <1>2, <2>1
  <2> QED  BY <1>3, <2>2 DEF w
<1>5. k \in Int /\ k + 1 \in Int /\ k - 1 \in Int
  OBVIOUS
<1> QED  BY <1>4, <1>5 DEF Congruent

\* Two ints that differ by wraps only are the same.
LEMMA CongruentInts ==
    ASSUME NEW a \in IntRange, NEW b \in IntRange, Congruent(a, b)
    PROVE  a = b
<1>1. PICK k \in Int : a = b + k * Width
  BY DEF Congruent
<1>2. Width \in Int /\ Width > 0 /\ a \in Int /\ b \in Int /\ a - b < Width /\ b - a < Width
  BY NumberAssumption DEF Width, IntRange
<1> HIDE DEF Width
<1>3. k >= 1 => k * Width >= Width
  BY <1>2
<1>4. k <= -1 => k * Width <= -Width
  BY <1>2
<1>5. k = 0 => k * Width = 0
  BY <1>2
<1> DEFINE w == k * Width
<1>6. w \in Int /\ a = b + w
  BY <1>1, <1>2
<1>7. k >= 1 \/ k <= -1 \/ k = 0
  OBVIOUS
<1> HIDE DEF w
<1>8. w = 0
  BY <1>2, <1>3, <1>4, <1>5, <1>6, <1>7 DEF w
<1> QED  BY <1>2, <1>6, <1>8

LEMMA CongruentTwice ==
    ASSUME NEW total \in Int, NEW x \in Int, NEW y \in Int, Congruent(total, x),
           NEW both \in {y, y + Width, y - Width},
           NEW u \in {total + both, total + both + Width, total + both - Width}
    PROVE  Congruent(u, x + y)
<1>1. Width \in Int
  BY NumberAssumption DEF Width
<1>2. both \in Int
  BY <1>1
<1>3. PICK t \in Int : t = total + both
  BY <1>2
<1>4. t \in {total + y, total + y + Width, total + y - Width}
  BY <1>1, <1>3
<1>5. Congruent(t, x + y)
  BY <1>4, CongruentStep
<1>6. PICK z \in Int : z = x + y
  OBVIOUS
<1>7. PICK c \in Int : c = 0
  OBVIOUS
<1>8. u \in {t + c, t + c + Width, t + c - Width} /\ z + c = z
  BY <1>1, <1>3, <1>7
<1>9. Congruent(t, z)
  BY <1>5, <1>6
<1>10. Congruent(u, z + c)
  BY <1>8, <1>9, CongruentStep
<1> QED  BY <1>6, <1>8, <1>10

LEMMA TwoSums ==
    ASSUME NEW total \in IntRange, NEW a \in IntRange, NEW b \in IntRange, NEW x \in Int,
           Congruent(total, x)
    PROVE  Congruent(Wrap(total + Wrap(a + b)), x + (a + b))
<1>1. total \in Int /\ a \in Int /\ b \in Int /\ Width \in Int
  BY NumberAssumption DEF IntRange, Width
<1>2. PICK y \in Int : y = a + b
  BY <1>1
<1>3. Wrap(a + b) \in IntRange /\ Wrap(a + b) \in {a + b, a + b + Width, a + b - Width}
  BY WrapIs
<1>4. PICK both \in IntRange : both = Wrap(a + b)
  BY <1>3
<1>5. both \in {y, y + Width, y - Width}
  <2>1. both = a + b \/ both = (a + b) + Width \/ both = (a + b) - Width
    BY <1>1, <1>3, <1>4
  <2> QED  BY <1>1, <1>2, <2>1
<1>6. Wrap(total + both) \in {total + both, total + both + Width, total + both - Width}
  BY WrapIs
<1>7. Congruent(Wrap(total + both), x + y)
  BY <1>1, <1>5, <1>6, CongruentTwice
<1> QED  BY <1>2, <1>4, <1>7

LEMMA AddIs ==
    ASSUME NEW total \in IntRange, NEW change \in Change
    PROVE  /\ Add(total, change) \in IntRange
           /\ change.object /\ Plain(change) =>
                \A x \in Int : Congruent(total, x) => Congruent(Add(total, change), x + LinesOf(change))
<1>1. IntOf[change.added] \in IntRange /\ IntOf[change.removed] \in IntRange
  BY NumberAssumption DEF Change
<1>2. Wrap(IntOf[change.added] + IntOf[change.removed]) \in IntRange
  BY <1>1, WrapIs
<1>3. Add(total, change) \in IntRange
  BY <1>2, WrapIs DEF Add
<1>4. ASSUME change.object, Plain(change), NEW x \in Int, Congruent(total, x)
      PROVE  Congruent(Add(total, change), x + LinesOf(change))
  <2>1. PICK a \in IntRange : a = IntOf[change.added]
    BY <1>1
  <2>2. PICK b \in IntRange : b = IntOf[change.removed]
    BY <1>1
  <2>3. a = change.added /\ b = change.removed
    BY <1>4, <2>1, <2>2, NumberAssumption DEF Plain, Change
  <2>4. Add(total, change) = Wrap(total + Wrap(a + b)) /\ LinesOf(change) = a + b
    BY <1>4, <2>1, <2>2, <2>3 DEF Add, LinesOf
  <2> QED  BY <1>4, <2>4, TwoSums
<1> QED  BY <1>3, <1>4

LEMMA JudgeIs ==
    ASSUME NEW scan \in Judged, NEW change \in Change
    PROVE  /\ Judge(scan, change) \in Judged
           /\ Judge(scan, change).denied <=> scan.denied \/ (change.object /\ change.denied)
           /\ ~Judge(scan, change).denied =>
                Judge(scan, change).total = IF change.object THEN Add(scan.total, change) ELSE scan.total
<1>1. scan.total \in IntRange /\ Add(scan.total, change) \in IntRange
  BY AddIs DEF Judged
<1> QED  BY <1>1 DEF Judge, Judged, Change

\* What the scan and the sum of lines are, change by change.
LEMMA ScanIs ==
    ASSUME NEW changes \in Seq(Change), NEW m \in Nat, m = Len(changes)
    PROVE  /\ Scan(changes)[0] = Start
           /\ \A n \in 1 .. m : Scan(changes)[n] = Judge(Scan(changes)[n - 1], changes[n])
<1> DEFINE step == [p \in (1 .. m) \X Judged |-> Judge(p[2], changes[p[1]])]
           Scans(f) == f = [n \in 0 .. m |-> IF n = 0 THEN Start ELSE Judge(f[n - 1], changes[n])]
<1>1. \A n \in 1 .. m : changes[n] \in Change
  OBVIOUS
<1>2. step \in [(1 .. m) \X Judged -> Judged]
  BY <1>1, JudgeIs
<1>3. Start \in Judged
  BY NumberAssumption DEF Start, Judged, IntRange
<1>4. PICK f \in [0 .. m -> Judged] : Stepwise(f, m, Start, step)
  <2> HIDE DEF step
  <2> QED  BY <1>2, <1>3, StepwiseExists
<1>5. \A n \in 1 .. m : f[n - 1] \in Judged
  OBVIOUS
<1>6. \A n \in 1 .. m : step[<<n, f[n - 1]>>] = Judge(f[n - 1], changes[n])
  BY <1>5
<1> HIDE DEF step
<1>7. Scans(f)
  <2>1. \A n \in 0 .. m : f[n] = IF n = 0 THEN Start ELSE step[<<n, f[n - 1]>>]
    BY <1>4 DEF Stepwise
  <2>2. \A n \in 0 .. m : n = 0 \/ n \in 1 .. m
    OBVIOUS
  <2>3. \A n \in 0 .. m : f[n] = IF n = 0 THEN Start ELSE Judge(f[n - 1], changes[n])
    BY <1>6, <2>1, <2>2
  <2> QED  BY <2>3
<1>8. Scan(changes) = CHOOSE g : Scans(g)
  BY DEF Scan, Start
<1>9. Scans(Scan(changes))
  <2> HIDE DEF Scans
  <2> QED  BY <1>7, <1>8
<1> QED  BY <1>9

LEMMA LinesIs ==
    ASSUME NEW changes \in Seq(Change), NEW m \in Nat, m = Len(changes)
    PROVE  /\ Lines(changes)[0] = 0
           /\ \A n \in 1 .. m :
                /\ Lines(changes)[n] = Lines(changes)[n - 1] + LinesOf(changes[n])
                /\ {Lines(changes)[n - 1], LinesOf(changes[n])} \subseteq Int
<1> DEFINE Counted(n) == LinesOf(changes[n])
           step == [p \in (1 .. m) \X Int |-> p[2] + Counted(p[1])]
           Sums(f) == f = [n \in 0 .. m |-> IF n = 0 THEN 0 ELSE f[n - 1] + Counted(n)]
<1>1. \A n \in 1 .. m : Counted(n) \in Int
  <2>1. \A n \in 1 .. m : changes[n] \in Change
    OBVIOUS
  <2> QED  BY <2>1, NumberAssumption DEF Change, LinesOf
<1> HIDE DEF Counted
<1>2. step \in [(1 .. m) \X Int -> Int]
  <2>1. \A p \in (1 .. m) \X Int : p[2] \in Int /\ Counted(p[1]) \in Int
    BY <1>1
  <2>2. \A p \in (1 .. m) \X Int : p[2] + Counted(p[1]) \in Int
    BY <2>1
  <2> QED  BY <2>2
<1>3. PICK f \in [0 .. m -> Int] : Stepwise(f, m, 0, step)
  <2>1. 0 \in Int
    OBVIOUS
  <2> HIDE DEF step
  <2> QED  BY <1>2, <2>1, StepwiseExists
<1>4. \A n \in 1 .. m : step[<<n, f[n - 1]>>] = f[n - 1] + Counted(n)
  <2>1. \A n \in 1 .. m : f[n - 1] \in Int
    OBVIOUS
  <2> QED  BY <2>1
<1> HIDE DEF step
<1>5. Sums(f)
  <2>1. \A n \in 0 .. m : f[n] = IF n = 0 THEN 0 ELSE step[<<n, f[n - 1]>>]
    BY <1>3 DEF Stepwise
  <2>2. \A n \in 0 .. m : n = 0 \/ n \in 1 .. m
    OBVIOUS
  <2>3. \A n \in 0 .. m : f[n] = IF n = 0 THEN 0 ELSE f[n - 1] + Counted(n)
    BY <1>4, <2>1, <2>2
  <2> QED  BY <2>3
<1>6. Lines(changes) = CHOOSE g : Sums(g)
  BY DEF Lines, Counted
<1>7. Sums(Lines(changes))
  <2> HIDE DEF Sums
  <2> QED  BY <1>5, <1>6
<1> DEFINE sum == Lines(changes)
           N == {n \in Nat : n <= m => sum[n] \in Int}
<1>8. sum[0] = 0 /\ \A n \in 1 .. m : sum[n] = sum[n - 1] + Counted(n)
  BY <1>7
<1> HIDE DEF sum
<1>9. 0 \in N
  BY <1>8
<1>10. ASSUME NEW n \in Nat, n \in N PROVE n + 1 \in N
  <2>1. n + 1 <= m => n + 1 \in 1 .. m /\ (n + 1) - 1 = n /\ sum[n] \in Int
    BY <1>10
  <2> QED  BY <1>1, <1>8, <2>1
<1>11. Nat \subseteq N
  <2> HIDE DEF N
  <2> QED  BY <1>9, <1>10, Induction
<1>12. \A n \in 1 .. m : sum[n - 1] \in Int
  <2>1. \A n \in 1 .. m : n - 1 \in N /\ n - 1 <= m
    BY <1>11
  <2> QED  BY <2>1
<1> QED  BY <1>1, <1>8, <1>12 DEF Counted, sum

\* The scan knows of every denied path it has met, and until one is met it has
\* counted every line, but for wraps, when the numbers are ints.
LEMMA ScanCounts ==
    ASSUME NEW changes \in Seq(Change), NEW m \in Nat, m = Len(changes)
    PROVE  /\ Scan(changes)[m] \in Judged
           /\ Scan(changes)[m].denied <=> \E i \in 1 .. m : changes[i].object /\ changes[i].denied
           /\ ~Scan(changes)[m].denied /\ (\A i \in 1 .. m : Plain(changes[i])) =>
                Congruent(Scan(changes)[m].total, Lines(changes)[m])
<1> DEFINE s == Scan(changes)
           sum == Lines(changes)
           plain == \A i \in 1 .. m : Plain(changes[i])
           N == {n \in Nat : n <= m => /\ s[n] \in Judged
                                       /\ s[n].denied <=> \E i \in 1 .. n : changes[i].object /\ changes[i].denied
                                       /\ ~s[n].denied /\ plain => Congruent(s[n].total, sum[n])}
<1>1. s[0] = Start /\ \A n \in 1 .. m : s[n] = Judge(s[n - 1], changes[n])
  BY ScanIs
<1>2. /\ sum[0] = 0
      /\ \A n \in 1 .. m : /\ sum[n] = sum[n - 1] + LinesOf(changes[n])
                            /\ {sum[n - 1], LinesOf(changes[n])} \subseteq Int
  BY LinesIs
<1>3. \A n \in 1 .. m : changes[n] \in Change
  OBVIOUS
<1> HIDE DEF s, sum
<1>4. 0 \in N
  <2>1. s[0] \in Judged /\ ~s[0].denied /\ s[0].total = 0 /\ sum[0] = 0
    BY <1>1, <1>2, NumberAssumption DEF Start, Judged, IntRange
  <2>2. 1 .. 0 = {}
    OBVIOUS
  <2>3. Congruent(0, 0)
    <3>1. Width \in Int
      BY NumberAssumption DEF Width
    <3>2. 0 = 0 + 0 * Width
      BY <3>1
    <3> QED  BY <3>2 DEF Congruent
  <2>4. \A i \in 1 .. 0 : FALSE
    BY <2>2
  <2> QED  BY <2>1, <2>3, <2>4
<1>5. ASSUME NEW n \in Nat, n \in N PROVE n + 1 \in N
  <2>1. CASE n + 1 <= m
    <3> DEFINE scan == s[n]
               change == changes[n + 1]
    <3>1. /\ scan \in Judged
          /\ scan.denied <=> \E i \in 1 .. n : changes[i].object /\ changes[i].denied
          /\ ~scan.denied /\ plain => Congruent(scan.total, sum[n])
      BY <1>5, <2>1
    <3>2. n + 1 \in 1 .. m /\ (n + 1) - 1 = n
      BY <2>1
    <3>3. s[n + 1] = Judge(scan, change) /\ change \in Change
      BY <1>1, <1>3, <3>2
    <3>4. sum[n + 1] = sum[n] + LinesOf(change) /\ sum[n] \in Int /\ LinesOf(change) \in Int
      BY <1>2, <3>2
    <3>p. plain => Plain(change)
      BY <3>2
    <3> HIDE DEF scan, change, plain
    <3>5. /\ s[n + 1] \in Judged
          /\ s[n + 1].denied <=> scan.denied \/ (change.object /\ change.denied)
          /\ ~s[n + 1].denied =>
               s[n + 1].total = IF change.object THEN Add(scan.total, change) ELSE scan.total
      BY <3>1, <3>3, JudgeIs
    <3>6. \A i : i \in 1 .. n + 1 <=> i \in 1 .. n \/ i = n + 1
      OBVIOUS
    <3>7. s[n + 1].denied <=> \E i \in 1 .. n + 1 : changes[i].object /\ changes[i].denied
      BY <3>1, <3>5, <3>6 DEF change
    <3>8. ASSUME ~s[n + 1].denied, plain PROVE Congruent(s[n + 1].total, sum[n + 1])
      <4>1. ~scan.denied /\ Congruent(scan.total, sum[n]) /\ Plain(change) /\ scan.total \in IntRange
        BY <3>1, <3>5, <3>8, <3>p DEF Judged
      <4>2. CASE change.object
        BY <3>3, <3>4, <3>5, <3>8, <4>1, <4>2, AddIs
      <4>3. CASE ~change.object
        <5>1. LinesOf(change) = 0 /\ s[n + 1].total = scan.total
          BY <3>5, <3>8, <4>3 DEF LinesOf
        <5>2. sum[n + 1] = sum[n]
          BY <3>4, <5>1
        <5> QED  BY <4>1, <5>1, <5>2
      <4> QED  BY <4>2, <4>3
    <3> QED  BY <3>5, <3>7, <3>8
  <2> QED  BY <2>1
<1> HIDE DEF N
<1>6. m \in N
  BY <1>4, <1>5, Induction
<1>7. /\ s[m] \in Judged
      /\ s[m].denied <=> \E i \in 1 .. m : changes[i].object /\ changes[i].denied
      /\ ~s[m].denied /\ plain => Congruent(s[m].total, sum[m])
  BY <1>6 DEF N
<1> QED  BY <1>7 DEF s, sum

LEMMA FirstSaid ==
    ASSUME NEW said \in SUBSET Nat, said # {}
    PROVE  LET k == CHOOSE n \in said : \A m \in said : n <= m
           IN  k \in said /\ \A m \in said : k <= m
<1>1. \E n \in said : \A m \in said : n <= m
  <2> DEFINE R == OpToRel(<, Nat)
  <2>1. IsWellFoundedOn(R, Nat)
    BY NatLessThanWellFounded
  <2>2. \A x, y \in Nat : <<x, y>> \in R <=> x < y
    BY DEF OpToRel
  <2> HIDE DEF R
  <2>3. PICK x \in said : \A y \in said : <<y, x>> \notin R
    BY <2>1, WFMin
  <2>4. \A y \in said : x \in Nat /\ y \in Nat /\ ~(y < x)
    BY <2>2, <2>3
  <2>5. \A y \in said : x <= y
    BY <2>4
  <2> QED  BY <2>5
<1> QED  BY <1>1

LEMMA CommandJudged ==
    ASSUME NEW command, NEW actions, DOMAIN actions \subseteq Nat \ {0}, \A n \in DOMAIN actions : 1 .. n \subseteq DOMAIN actions
    PROVE  CommandDecision(command, actions) = "acceptForSession" <=>
                 \/ command \in SafeCommands \ Blank
                 \/ command \in Blank /\ \E n \in DOMAIN actions :
                      actions[n] \in SafeCommands \ Blank /\ \A m \in 1 .. n-1 : actions[m] \in Blank
                 \/ /\ command \in Blank /\ \A n \in DOMAIN actions : actions[n] \in Blank
                    /\ "" \in SafeCommands
<1> DEFINE said == {n \in DOMAIN actions : actions[n] \notin Blank}
           k == CHOOSE n \in said : \A m \in said : n <= m
<1>1. said \in SUBSET Nat
  OBVIOUS
<1>2. said # {} => k \in said /\ \A m \in said : k <= m
  <2> HIDE DEF said
  <2> QED  BY <1>1, FirstSaid
<1>3. ExtractCommand(command, actions) = IF command \notin Blank THEN command ELSE IF said = {} THEN "" ELSE actions[k]
  BY DEF ExtractCommand
<1> HIDE DEF k
<1>4. CASE command \notin Blank
  BY <1>3, <1>4 DEF CommandDecision
<1>5. CASE command \in Blank /\ said = {}
  <2>1. \A n \in DOMAIN actions : actions[n] \in Blank
    BY <1>5
  <2> QED  BY <1>3, <1>5, <2>1 DEF CommandDecision
<1>6. CASE command \in Blank /\ said # {}
  <2>1. k \in DOMAIN actions /\ actions[k] \notin Blank /\ k \in Nat
    BY <1>2, <1>6
  <2>2. \A m \in 1 .. k - 1 : actions[m] \in Blank
    <3>1. \A m \in 1 .. k - 1 : m \in DOMAIN actions /\ ~(k <= m)
      BY <2>1
    <3> QED  BY <1>2, <1>6, <3>1
  <2>3. ASSUME NEW n \in DOMAIN actions, actions[n] \notin Blank, \A m \in 1 .. n-1 : actions[m] \in Blank
        PROVE  n = k
    <3>1. n \in said /\ n \in Nat /\ k <= n /\ k # 0
      BY <1>2, <1>6, <2>1, <2>3
    <3>2. k \notin 1 .. n - 1
      BY <2>1, <2>3
    <3> QED  BY <2>1, <3>1, <3>2
  <2>4. CommandDecision(command, actions) = "acceptForSession" <=> actions[k] \in SafeCommands
    BY <1>3, <1>6 DEF CommandDecision
  <2> QED  BY <1>6, <2>1, <2>2, <2>3, <2>4
<1> QED  BY <1>4, <1>5, <1>6

\* The autopilot accepts no denied path it can read; it accepts a change of files,
\* while numbers and sum are ints, exactly when it has seen every path and counted
\* every line; and a command for the first thing said that names one: for lists
\* of any length, any limit, any prefixes and ints of any width, whatever a number
\* out of range becomes (fileChangeDecision, intFromAny, extractCommand).
THEOREM AutopilotJudges == Spec => []AutopilotJudgesAll
<1>1. ASSUME NEW changes \in FileChanges, NEW max \in LineLimits
      PROVE  LET accepted == FileChangeDecision(changes, max) = "acceptForSession"
                 allowed  == \A n \in DOMAIN changes : changes[n].object => ~changes[n].denied
             IN /\ accepted => allowed
                /\ AllInts(changes) =>
                      (accepted <=> allowed /\ Lines(changes)[Len(changes)] <= max)
  <2> DEFINE accepted == FileChangeDecision(changes, max) = "acceptForSession"
             allowed  == \A n \in DOMAIN changes : changes[n].object => ~changes[n].denied
  <2>1. changes \in Seq(Change) /\ max \in Int
    <3>1. changes \in Seq(Change)
      BY AutopilotAssumption DEF Change
    <3>2. max \in IntRange
      BY AutopilotAssumption
    <3> QED  BY <3>1, <3>2, NumberAssumption DEF IntRange
  <2>2. PICK m \in Nat : m = Len(changes) /\ DOMAIN changes = 1 .. m
    BY <2>1
  <2> DEFINE end == Scan(changes)[m]
  <2>3. /\ end \in Judged
        /\ end.denied <=> \E i \in 1 .. m : changes[i].object /\ changes[i].denied
        /\ ~end.denied /\ (\A i \in 1 .. m : Plain(changes[i])) => Congruent(end.total, Lines(changes)[m])
    BY <2>1, <2>2, ScanCounts
  <2>4. allowed <=> ~end.denied
    BY <2>2, <2>3
  <2>5. accepted <=> ~(end.denied \/ end.total > max)
    BY <2>2 DEF FileChangeDecision
  <2>6. end.total \in IntRange /\ end.total \in Int
    BY <2>3, NumberAssumption DEF Judged, IntRange
  <2> HIDE DEF end, accepted, allowed
  <2>7. ASSUME AllInts(changes) PROVE accepted <=> allowed /\ Lines(changes)[m] <= max
    <3>1. (\A i \in 1 .. m : Plain(changes[i])) /\ Lines(changes)[m] \in IntRange
      BY <2>2, <2>7 DEF AllInts, Plain
    <3>2. ~end.denied => end.total = Lines(changes)[m]
      BY <2>3, <2>6, <3>1, CongruentInts
    <3> QED  BY <2>1, <2>4, <2>5, <2>6, <3>2
  <2> QED  BY <2>2, <2>4, <2>5, <2>7 DEF accepted, allowed
<1>2. ASSUME NEW command \in Commands, NEW actions \in CommandActions
      PROVE  CommandDecision(command, actions) = "acceptForSession" <=>
                 \/ command \in SafeCommands \ Blank
                 \/ command \in Blank /\ \E n \in DOMAIN actions :
                      actions[n] \in SafeCommands \ Blank /\ \A m \in 1 .. n-1 : actions[m] \in Blank
                 \/ /\ command \in Blank /\ \A n \in DOMAIN actions : actions[n] \in Blank
                    /\ "" \in SafeCommands
  <2>1. actions \in Seq(Commands)
    BY AutopilotAssumption
  <2>2. DOMAIN actions \subseteq Nat \ {0} /\ \A n \in DOMAIN actions : 1 .. n \subseteq DOMAIN actions
    BY <2>1
  <2> QED  BY <2>2, CommandJudged
<1>3. AutopilotJudgesAll
  BY <1>1, <1>2 DEF AutopilotJudgesAll
<1> QED  BY <1>3, PTL
=============================================================================
