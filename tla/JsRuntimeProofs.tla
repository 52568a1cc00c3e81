--------------------------- MODULE JsRuntimeProofs ---------------------------
(***************************************************************************)
(* Waits, timers and policies of the JavaScript runtime, for any script,   *)
(* any events and any number of them.                                      *)
(***************************************************************************)
EXTENDS JsRuntime, SequenceTheorems, FiniteSetTheorems, TLAPS

-----------------------------------------------------------------------------
(* The inductive invariant.                                                *)

\* What the properties of waits need to know of types.
WaiterRecord ==
    [wait : Wait, state : {"pending", "resolved", "rejected", "timedOut"},
     timer : {"armed", "fired", "stopped"}, born : Nat, ended : Nat]
Task ==
    [kind : {"event"}, event : Event] \cup [kind : {"timeout", "resolve"}, id : Nat] \cup [kind : {"script"}]
RequestState == {"inFlight", "posted", "settled", "lost"}

Typed ==
    /\ waiter \in Seq(WaiterRecord)
    /\ log \in Seq(Event)
    /\ queue \in Seq(Task)
    /\ request \in Seq(RequestState)
    /\ vm = [at |-> vm.at, todo |-> vm.todo, calls |-> vm.calls]
    /\ vm.todo \subseteq Waiters

\* Waiters are offered an event only while it is dispatched, and then only those
\* that entered the map before it; none has seen an event still to come.
SnapshotInv ==
    /\ vm.at # "waiters" => vm.todo = {}
    /\ \A w \in vm.todo : waiter[w].born < Len(log)
    /\ \A w \in Waiters : waiter[w].born <= Len(log) /\ waiter[w].ended <= Len(log)

WaitInv == SnapshotInv /\ WaitTakesFirstMatch /\ TimersMatchWaits
IInv == Typed /\ WaitInv

LEMMA InitInv == Init => IInv /\ PolicyInForce
BY DEF Init, IInv, Typed, WaitInv, SnapshotInv, WaitTakesFirstMatch, TimersMatchWaits, Idle,
       Waiters, PolicyInForce

LEMMA WaiterTyped ==
    ASSUME IInv, NEW w \in Waiters
    PROVE  /\ waiter[w].wait \in Wait /\ waiter[w].born \in Nat /\ waiter[w].ended \in Nat
           /\ waiter[w].state \in {"pending", "resolved", "rejected", "timedOut"}
           /\ waiter[w].born <= Len(log) /\ waiter[w].ended <= Len(log) /\ Len(log) \in Nat
<1>1. waiter[w] \in WaiterRecord
  BY DEF IInv, Typed, Waiters
<1>2. waiter[w].born <= Len(log) /\ waiter[w].ended <= Len(log)
  BY DEF IInv, WaitInv, SnapshotInv
<1>3. Len(log) \in Nat
  BY DEF IInv, Typed
<1> QED  BY <1>1, <1>2, <1>3 DEF WaiterRecord

-----------------------------------------------------------------------------
(* The queue.                                                              *)

Queued(t) == \E n \in DOMAIN queue : queue[n] = t

LEMMA PostKeeps ==
    ASSUME Typed, NEW t \in Task, Post(t)
    PROVE  /\ queue' \in Seq(Task)
           /\ \A u : Queued(u) => Queued(u)'
           /\ accepting => Queued(t)'
<1>1. \A n \in DOMAIN queue : n \in DOMAIN queue' /\ queue'[n] = queue[n]
  BY DEF Typed, Post
<1>2. queue' \in Seq(Task)
  BY DEF Typed, Post
<1>3. accepting => Queued(t)'
  <2>1. SUFFICES ASSUME accepting PROVE Queued(t)'
    OBVIOUS
  <2>2. Len(queue) + 1 \in DOMAIN queue' /\ queue'[Len(queue) + 1] = t
    BY <2>1 DEF Typed, Post
  <2> QED  BY <2>2 DEF Queued
<1> QED  BY <1>1, <1>2, <1>3 DEF Queued

\* A task that is run leaves the queue, the others stay.
LEMMA TailKeeps ==
    ASSUME Typed, queue # <<>>, queue' = Tail(queue)
    PROVE  /\ Head(queue) \in Task
           /\ queue' \in Seq(Task)
           /\ \A t : Queued(t) /\ t # Head(queue) => Queued(t)'
<1>1. Head(queue) \in Task /\ queue' \in Seq(Task) /\ Head(queue) = queue[1]
  BY DEF Typed
<1>2. ASSUME NEW t, NEW n \in DOMAIN queue, queue[n] = t, t # Head(queue) PROVE Queued(t)'
  <2>1. n # 1 /\ n - 1 \in DOMAIN queue' /\ queue'[n - 1] = queue[n]
    BY <1>1, <1>2 DEF Typed
  <2> QED  BY <1>2, <2>1 DEF Queued
<1> QED  BY <1>1, <1>2 DEF Queued

LEMMA TimersInQueue ==
    TimersMatchWaits <=>
        \A w \in Waiters :
            IF waiter[w].state = "pending"
            THEN waiter[w].timer = "fired" /\ accepting => Queued(TimeoutTask(w))
            ELSE waiter[w].timer # "armed"
BY DEF TimersMatchWaits, Pending, Queued

-----------------------------------------------------------------------------
(* Steps that leave the waiters and the dispatched events alone.           *)

\* ... and lose no timeout task but those of waits that ended.
Frame ==
    /\ UNCHANGED <<waiter, log>>
    /\ vm'.todo = vm.todo /\ (vm'.at # "waiters" => vm.todo = {})
    /\ accepting' => accepting
    /\ \A w \in Waiters : accepting' /\ Queued(TimeoutTask(w)) => Queued(TimeoutTask(w))'

LEMMA FrameKeeps == ASSUME WaitInv, Frame PROVE WaitInv'
<1>1. Waiters' = Waiters /\ \A w \in Waiters : LetPass(w)' = LetPass(w)
  BY DEF Frame, Waiters, LetPass
<1>2. SnapshotInv'
  BY <1>1 DEF WaitInv, SnapshotInv, Frame
<1>3. WaitTakesFirstMatch'
  BY <1>1 DEF WaitInv, WaitTakesFirstMatch, Frame
<1>4. TimersMatchWaits'
  <2>1. \A w \in Waiters' :
            IF waiter'[w].state = "pending"
            THEN waiter'[w].timer = "fired" /\ accepting' => Queued(TimeoutTask(w))'
            ELSE waiter'[w].timer # "armed"
    BY <1>1, TimersInQueue DEF WaitInv, Frame
  <2> QED  BY <2>1 DEF TimersMatchWaits, Pending, Queued
<1> QED  BY <1>2, <1>3, <1>4 DEF WaitInv

\* The steps of the script that only concern policies, responses, requests,
\* metrics and handlers.
LEMMA ScriptQuiet ==
    ASSUME IInv,
           \/ StartRequest \/ SetPolicy \/ ResetMetrics
           \/ \E k \in 0 .. epoch : ClearPolicy(k)
           \/ \E n \in RequestIDs : DecisionSettles(n) \/ ThenableCallsBack(n) \/ ScriptResponds(n)
           \/ \E b \in Buckets : RegisterHandler(b)
           \/ \E h \in Handlers : RemoveHandler(h)
    PROVE  IInv'
<1>1. UNCHANGED <<queue, accepting, vm, waiter, log>>
  BY DEF StartRequest, SetPolicy, ResetMetrics, ClearPolicy, DecisionSettles, ThenableCallsBack,
         ScriptResponds, RegisterHandler, RemoveHandler, RemovedFrom, eventVars
<1>2. request' = request \/ request' = Append(request, "inFlight")
  BY DEF StartRequest, SetPolicy, ResetMetrics, ClearPolicy, DecisionSettles, ThenableCallsBack,
         ScriptResponds, RegisterHandler, RemoveHandler, RemovedFrom
<1>3. request' \in Seq(RequestState)
  BY <1>2, AppendProperties DEF IInv, Typed, RequestState
<1>4. Typed'
  BY <1>1, <1>3 DEF IInv, Typed, Waiters
<1>5. Frame
  BY <1>1 DEF IInv, WaitInv, SnapshotInv, Frame, Queued
<1> QED  BY <1>4, <1>5, FrameKeeps DEF IInv

LEMMA PostQuiet ==
    ASSUME IInv, NEW t \in Task, Post(t), UNCHANGED <<accepting, vm, waiter, log>>,
           request' \in Seq(RequestState)
    PROVE  IInv'
<1>1. Typed'
  BY PostKeeps DEF IInv, Typed, Waiters
<1>2. Frame
  BY PostKeeps DEF IInv, WaitInv, SnapshotInv, Frame
<1> QED  BY <1>1, <1>2, FrameKeeps DEF IInv

LEMMA EmitStep ==
    ASSUME IInv, NEW e \in Event, Emit(e)
    PROVE  IInv'
<1>1. EventTask(e) \in Task
  BY DEF EventTask, Task
<1>2. Post(EventTask(e)) /\ UNCHANGED <<accepting, vm, waiter, log, request>>
  BY DEF Emit, eventVars
<1> QED  BY <1>1, <1>2, PostQuiet DEF IInv, Typed

LEMMA ReturnStep ==
    ASSUME IInv, NEW q \in DOMAIN request, RequestReturns(q)
    PROVE  IInv'
<1>1. ResolveTask(q) \in Task
  BY DEF ResolveTask, Task, IInv, Typed
<1>2. Post(ResolveTask(q)) /\ UNCHANGED <<accepting, vm, waiter, log>>
  BY DEF RequestReturns, eventVars
<1>3. request' \in Seq(RequestState)
  BY DEF RequestReturns, IInv, Typed, RequestState
<1> QED  BY <1>1, <1>2, <1>3, PostQuiet

LEMMA LoopQuiet ==
    ASSUME IInv, Shutdown \/ Stop \/ WaitersDone \/ ApplyPolicy \/ CallHandler \/ HandlersDone
    PROVE  IInv'
<1>1. UNCHANGED <<queue, waiter, log, request>> /\ (accepting' => accepting)
  BY DEF Shutdown, Stop, WaitersDone, ApplyPolicy, CallHandler, HandlersDone, eventVars
<1>2. /\ vm' = [at |-> vm'.at, todo |-> vm'.todo, calls |-> vm'.calls]
      /\ vm'.todo = vm.todo /\ (vm'.at # "waiters" => vm.todo = {})
  <2>1. vm = [at |-> vm.at, todo |-> vm.todo, calls |-> vm.calls] /\ (vm.at # "waiters" => vm.todo = {})
    BY DEF IInv, Typed, WaitInv, SnapshotInv
  <2>2. CASE Shutdown \/ Stop
    BY <2>1, <2>2 DEF Shutdown, Stop
  <2>3. CASE vm.todo = {} /\ \E b \in Buckets : vm' = CallHandlers(b)
    BY <2>3 DEF CallHandlers
  <2>4. CASE vm.todo = {} /\ (vm' = [vm EXCEPT !.at = "policy"] \/ vm' = Idle)
    BY <2>1, <2>4 DEF Idle
  <2>5. CASE CallHandler
    BY <2>1, <2>5 DEF CallHandler
  <2>6. CASE WaitersDone \/ ApplyPolicy \/ HandlersDone
    BY <2>1, <2>3, <2>4, <2>6 DEF WaitersDone, ApplyPolicy, HandlersDone, Buckets, Kinds
  <2> QED  BY <2>2, <2>5, <2>6
<1>3. Typed'
  BY <1>1, <1>2 DEF IInv, Typed, Waiters
<1>4. Frame
  BY <1>1, <1>2 DEF Frame, Queued
<1> QED  BY <1>3, <1>4, FrameKeeps DEF IInv

LEMMA SettledRequests ==
    ASSUME NEW s \in Seq(RequestState), NEW i
    PROVE  [s EXCEPT ![i] = "settled"] \in Seq(RequestState)
<1>1. CASE i \in 1 .. Len(s)
  BY <1>1, ExceptSeq DEF RequestState
<1>2. CASE i \notin 1 .. Len(s)
  <2>1. DOMAIN s = 1 .. Len(s) /\ s = [j \in DOMAIN s |-> s[j]]
    BY LenProperties
  <2>2. [s EXCEPT ![i] = "settled"] = s
    BY <1>2, <2>1
  <2> QED  BY <2>2
<1> QED  BY <1>1, <1>2

LEMMA ResolveQuiet ==
    ASSUME IInv, RunResolve
    PROVE  IInv'
<1>1. /\ queue # <<>> /\ queue' = Tail(queue) /\ Head(queue).kind = "resolve"
      /\ UNCHANGED <<accepting, vm, waiter, log>>
      /\ request' = [request EXCEPT ![Head(queue).id] = "settled"]
  BY DEF RunResolve, Ready, eventVars
<1>2. Typed'
  <2>1. request' \in Seq(RequestState)
    BY <1>1, SettledRequests DEF IInv, Typed
  <2>2. queue' \in Seq(Task)
    BY <1>1, TailKeeps DEF IInv
  <2> QED  BY <1>1, <2>1, <2>2 DEF IInv, Typed, Waiters
<1>3. \A w : TimeoutTask(w) # Head(queue)
  BY <1>1 DEF TimeoutTask
<1>4. Frame
  BY <1>1, <1>3, TailKeeps DEF IInv, WaitInv, SnapshotInv, Frame
<1> QED  BY <1>2, <1>4, FrameKeeps DEF IInv

-----------------------------------------------------------------------------
(* The steps of the waits.                                                 *)

\* What is to be shown of the waits after a step, wait by wait.
Follows(w) ==
    LET x == waiter[w]
        does(n) == Verdict(x.wait, log[n])
    IN /\ \A n \in x.born + 1 .. LetPass(w) : does(n) = "skip"
       /\ x.state = "resolved" => x.ended > x.born /\ does(x.ended) = "resolve"
       /\ x.state = "rejected" => x.ended > x.born /\ does(x.ended) = "reject"

LEMMA WaitFollows == WaitTakesFirstMatch <=> \A w \in Waiters : Follows(w)
BY DEF WaitTakesFirstMatch, Follows

Timed(w) ==
    IF waiter[w].state = "pending"
    THEN waiter[w].timer = "fired" /\ accepting => Queued(TimeoutTask(w))
    ELSE waiter[w].timer # "armed"

LEMMA WaitTimed == TimersMatchWaits <=> \A w \in Waiters : Timed(w)
BY TimersInQueue DEF Timed

\* A wait whose record, events and place in the dispatch stay keeps its promise.
LEMMA Untouched ==
    ASSUME NEW w, Follows(w), waiter'[w] = waiter[w], log' = log,
           waiter[w].state = "pending" => (w \in vm'.todo <=> w \in vm.todo)
    PROVE  Follows(w)'
BY DEF Follows, LetPass

LEMMA FireStep ==
    ASSUME IInv, NEW v \in Waiters, TimerFires(v)
    PROVE  IInv'
<1>1. /\ waiter[v].timer = "armed"
      /\ waiter' = [waiter EXCEPT ![v].timer = "fired"]
      /\ Post(TimeoutTask(v)) /\ TimeoutTask(v) \in Task
      /\ UNCHANGED <<accepting, vm, log>>
  BY DEF TimerFires, TimeoutTask, Task, Waiters, IInv, Typed, eventVars
<1>2. /\ Waiters' = Waiters /\ waiter' \in Seq(WaiterRecord)
      /\ \A w \in Waiters : /\ waiter'[w].wait = waiter[w].wait /\ waiter'[w].state = waiter[w].state
                             /\ waiter'[w].born = waiter[w].born /\ waiter'[w].ended = waiter[w].ended
                             /\ w # v => waiter'[w] = waiter[w]
      /\ waiter'[v].timer = "fired"
  <2>1. waiter[v] \in WaiterRecord /\ v \in 1 .. Len(waiter)
    BY DEF IInv, Typed, Waiters
  <2>2. [waiter[v] EXCEPT !.timer = "fired"] \in WaiterRecord
    BY <2>1 DEF WaiterRecord
  <2>3. waiter' \in Seq(WaiterRecord) /\ Waiters' = Waiters
    BY <1>1, <2>1, <2>2 DEF IInv, Typed, Waiters
  <2>4. /\ \A w \in Waiters : w # v => waiter'[w] = waiter[w]
        /\ waiter'[v] = [waiter[v] EXCEPT !.timer = "fired"]
    BY <1>1, <2>1 DEF IInv, Typed, Waiters
  <2> QED  BY <2>1, <2>3, <2>4 DEF WaiterRecord
<1>3. Typed'
  <2>1. queue' \in Seq(Task)
    BY <1>1, PostKeeps DEF IInv
  <2>2. request' = request
    BY DEF TimerFires
  <2> QED  BY <1>1, <1>2, <2>1, <2>2 DEF IInv, Typed
<1>4. SnapshotInv'
  BY <1>1, <1>2 DEF IInv, WaitInv, SnapshotInv, Typed
<1>5. \A w \in Waiters : Follows(w)'
  BY <1>1, <1>2, WaitFollows DEF IInv, WaitInv, Follows, LetPass
<1>6. \A w \in Waiters : Timed(w)'
  <2>1. waiter[v].state = "pending"
    BY <1>1, WaitTimed DEF IInv, WaitInv, Timed
  <2> QED  BY <1>1, <1>2, <2>1, PostKeeps, WaitTimed DEF IInv, WaitInv, Timed
<1>7. WaitTakesFirstMatch'
  BY <1>2, <1>5 DEF WaitTakesFirstMatch, Follows
<1>8. TimersMatchWaits'
  BY <1>2, <1>6 DEF TimersMatchWaits, Pending, Queued, Timed
<1> QED  BY <1>3, <1>4, <1>7, <1>8 DEF IInv, WaitInv

\* Every step of the waits is settled by these four facts.
LEMMA Assembled ==
    ASSUME Typed', SnapshotInv', \A w \in Waiters' : Follows(w)', \A w \in Waiters' : Timed(w)'
    PROVE  IInv'
<1>1. WaitTakesFirstMatch'
  BY DEF WaitTakesFirstMatch, Follows
<1>2. TimersMatchWaits'
  BY DEF TimersMatchWaits, Pending, Queued, Timed
<1> QED  BY <1>1, <1>2 DEF IInv, WaitInv

\* What settling changes: a pending wait takes the outcome, no other wait moves.
LEMMA SettleChanges ==
    ASSUME Typed, NEW v, NEW how \in {"resolved", "rejected", "timedOut"}, Settle(v, how)
    PROVE  /\ Waiters' = Waiters /\ waiter' \in Seq(WaiterRecord)
           /\ \A w \in Waiters : w # v => waiter'[w] = waiter[w]
           /\ v \notin Pending => waiter' = waiter
           /\ v \in Pending =>
                /\ v \in Waiters /\ waiter[v].state = "pending"
                /\ waiter'[v].wait = waiter[v].wait /\ waiter'[v].born = waiter[v].born
                /\ waiter'[v].state = how /\ waiter'[v].ended = Len(log)
                /\ waiter'[v].timer # "armed"
<1>1. CASE v \notin Pending
  BY <1>1 DEF Settle, Typed, Waiters
<1>2. CASE v \in Pending
  <2> DEFINE timer == IF waiter[v].timer = "armed" THEN "stopped" ELSE waiter[v].timer
             x == [waiter[v] EXCEPT !.state = how, !.ended = Len(log), !.timer = timer]
  <2>1. waiter[v] \in WaiterRecord /\ v \in 1 .. Len(waiter) /\ v \in Waiters /\ waiter[v].state = "pending"
    BY <1>2 DEF Pending, Typed, Waiters
  <2>2. Len(log) \in Nat
    BY DEF Typed
  <2>3. /\ x \in WaiterRecord /\ x.wait = waiter[v].wait /\ x.born = waiter[v].born
        /\ x.state = how /\ x.ended = Len(log) /\ x.timer # "armed"
    BY <2>1, <2>2 DEF WaiterRecord
  <2>4. waiter' = [waiter EXCEPT ![v] = x]
    BY <1>2, <2>1 DEF Settle
  <2>5. /\ waiter' \in Seq(WaiterRecord) /\ Waiters' = Waiters
        /\ waiter'[v] = x /\ \A w \in Waiters : w # v => waiter'[w] = waiter[w]
    <3> HIDE DEF x
    <3> QED  BY <2>1, <2>3, <2>4 DEF Typed, Waiters
  <2> QED  BY <1>2, <2>1, <2>3, <2>5
<1> QED  BY <1>1, <1>2

LEMMA TimeoutStep ==
    ASSUME IInv, RunTimeout
    PROVE  IInv'
<1> DEFINE v == Head(queue).id
<1>1. /\ queue # <<>> /\ queue' = Tail(queue) /\ Settle(v, "timedOut") /\ vm.at = "idle"
      /\ UNCHANGED <<accepting, vm, log, request>>
  BY DEF RunTimeout, Ready, eventVars
<1>2. /\ Waiters' = Waiters /\ waiter' \in Seq(WaiterRecord)
      /\ \A w \in Waiters : w # v => waiter'[w] = waiter[w]
      /\ v \notin Pending => waiter' = waiter
      /\ v \in Pending =>
           /\ v \in Waiters /\ waiter[v].state = "pending"
           /\ waiter'[v].wait = waiter[v].wait /\ waiter'[v].born = waiter[v].born
           /\ waiter'[v].state = "timedOut" /\ waiter'[v].ended = Len(log)
           /\ waiter'[v].timer # "armed"
  BY <1>1, SettleChanges DEF IInv
<1> HIDE DEF v
<1>3. Typed'
  <2>1. queue' \in Seq(Task)
    BY <1>1, TailKeeps DEF IInv
  <2> QED  BY <1>1, <1>2, <2>1 DEF IInv, Typed
<1>4. vm.todo = {} /\ Len(log) \in Nat
  BY <1>1 DEF IInv, Typed, WaitInv, SnapshotInv
<1>5. SnapshotInv'
  <2>1. \A w \in Waiters : waiter'[w].born <= Len(log) /\ waiter'[w].ended <= Len(log)
    <3>1. \A w \in Waiters : waiter[w].born <= Len(log) /\ waiter[w].ended <= Len(log)
      BY DEF IInv, WaitInv, SnapshotInv
    <3> QED  BY <1>2, <1>4, <3>1
  <2> QED  BY <1>1, <1>2, <1>4, <2>1 DEF SnapshotInv
<1>6. ASSUME NEW w \in Waiters PROVE Follows(w)'
  <2>1. Follows(w)
    BY WaitFollows DEF IInv, WaitInv
  <2>2. CASE waiter'[w] = waiter[w]
    BY <1>1, <2>1, <2>2, Untouched
  <2>3. CASE waiter'[w] # waiter[w]
    <3>1. w = v /\ v \in Pending
      BY <1>2, <2>3
    <3>2. LetPass(w) = Len(log) /\ LetPass(w)' = Len(log)
      BY <1>1, <1>2, <1>4, <3>1 DEF LetPass
    <3> QED  BY <1>1, <1>2, <2>1, <3>1, <3>2 DEF Follows
  <2> QED  BY <2>2, <2>3
<1>7. ASSUME NEW w \in Waiters PROVE Timed(w)'
  <2>1. Timed(w)
    BY WaitTimed DEF IInv, WaitInv
  <2>2. CASE w # v
    <3>1. TimeoutTask(w) # Head(queue)
      BY <2>2 DEF TimeoutTask, v
    <3>2. waiter'[w] = waiter[w] /\ (Queued(TimeoutTask(w)) => Queued(TimeoutTask(w))')
      BY <1>1, <1>2, <2>2, <3>1, TailKeeps DEF IInv
    <3> QED  BY <1>1, <2>1, <3>2 DEF Timed
  <2>3. CASE w = v /\ v \in Pending
    BY <1>2, <2>3 DEF Timed
  <2>4. CASE w = v /\ v \notin Pending
    <3>1. waiter' = waiter /\ waiter[w].state # "pending"
      BY <1>2, <2>4 DEF Pending
    <3> QED  BY <2>1, <3>1 DEF Timed
  <2> QED  BY <2>2, <2>3, <2>4
<1> QED  BY <1>2, <1>3, <1>5, <1>6, <1>7, Assembled

LEMMA OfferStep ==
    ASSUME IInv, NEW v, Offer(v)
    PROVE  IInv'
<1> DEFINE verdict == Verdict(waiter[v].wait, Current)
<1>1. /\ vm.at = "waiters" /\ v \in vm.todo
      /\ vm' = [vm EXCEPT !.todo = @ \ {v}]
      /\ UNCHANGED <<queue, accepting, log, request>>
  BY DEF Offer, eventVars
<1>2. /\ v \in Waiters /\ Len(log) \in Nat /\ vm'.at = vm.at /\ vm'.todo = vm.todo \ {v}
      /\ vm' = [at |-> vm'.at, todo |-> vm'.todo, calls |-> vm'.calls]
      /\ waiter[v].born < Len(log)
  <2>1. vm = [at |-> vm.at, todo |-> vm.todo, calls |-> vm.calls] /\ v \in Waiters /\ Len(log) \in Nat
    BY <1>1 DEF IInv, Typed
  <2>2. waiter[v].born < Len(log)
    BY <1>1 DEF IInv, WaitInv, SnapshotInv
  <2> QED  BY <1>1, <2>1, <2>2
<1>3. verdict \in {"skip", "resolve", "reject"}
  BY DEF Verdict
<1>4. \/ verdict = "skip" /\ waiter' = waiter
      \/ verdict = "resolve" /\ Settle(v, "resolved")
      \/ verdict = "reject" /\ Settle(v, "rejected")
  BY <1>3 DEF Offer
<1>5. /\ Waiters' = Waiters /\ waiter' \in Seq(WaiterRecord)
      /\ \A w \in Waiters : w # v => waiter'[w] = waiter[w]
      /\ v \notin Pending => waiter' = waiter
      /\ waiter' # waiter =>
           /\ v \in Pending /\ waiter[v].state = "pending"
           /\ waiter'[v].wait = waiter[v].wait /\ waiter'[v].born = waiter[v].born
           /\ \/ verdict = "resolve" /\ waiter'[v].state = "resolved"
              \/ verdict = "reject" /\ waiter'[v].state = "rejected"
           /\ waiter'[v].ended = Len(log)
           /\ waiter'[v].timer # "armed"
      /\ v \in Pending /\ waiter' = waiter => verdict = "skip"
  <2>1. CASE verdict = "skip" /\ waiter' = waiter
    BY <2>1 DEF IInv, Typed, Waiters
  <2>2. CASE verdict = "resolve" /\ Settle(v, "resolved")
    BY <2>2, SettleChanges DEF IInv
  <2>3. CASE verdict = "reject" /\ Settle(v, "rejected")
    BY <2>3, SettleChanges DEF IInv
  <2> QED  BY <1>4, <2>1, <2>2, <2>3
<1> HIDE DEF verdict
<1>6. Typed'
  BY <1>1, <1>2, <1>5 DEF IInv, Typed
<1>7. SnapshotInv'
  <2>1. /\ \A w \in Waiters : waiter[w].born <= Len(log) /\ waiter[w].ended <= Len(log)
        /\ \A w \in vm.todo : w \in Waiters /\ waiter[w].born < Len(log)
    BY DEF IInv, Typed, WaitInv, SnapshotInv
  <2>2. \A w \in Waiters : waiter'[w].born = waiter[w].born /\ waiter'[w].ended <= Len(log)
    BY <1>2, <1>5, <2>1
  <2> QED  BY <1>1, <1>2, <1>5, <2>1, <2>2 DEF SnapshotInv
<1>8. ASSUME NEW w \in Waiters PROVE Follows(w)'
  <2>1. Follows(w)
    BY WaitFollows DEF IInv, WaitInv
  <2>2. CASE w # v \/ v \notin Pending
    <3>1. waiter'[w] = waiter[w] /\ (waiter[w].state = "pending" => (w \in vm'.todo <=> w \in vm.todo))
      BY <1>2, <1>5, <2>2 DEF Pending
    <3> QED  BY <1>1, <2>1, <3>1, Untouched
  <2>3. CASE w = v /\ v \in Pending
    <3>1. LetPass(w) = Len(log) - 1
      BY <1>1, <1>2, <2>3 DEF LetPass, Pending
    <3>2. CASE waiter' = waiter
      <4>1. LetPass(w)' = Len(log) /\ Verdict(waiter[w].wait, log[Len(log)]) = "skip"
        BY <1>1, <1>2, <1>5, <2>3, <3>2 DEF LetPass, Pending, verdict, Current
      <4>2. waiter[w].born \in Nat /\ waiter[w].state = "pending"
        BY <2>3, WaiterTyped DEF Pending
      <4> QED  BY <1>1, <1>2, <2>1, <3>1, <3>2, <4>1, <4>2 DEF Follows
    <3>3. CASE waiter' # waiter
      <4>1. LetPass(w)' = Len(log) - 1
        BY <1>1, <1>2, <1>5, <2>3, <3>3 DEF LetPass
      <4>2. verdict = Verdict(waiter[w].wait, log[Len(log)])
        BY <2>3 DEF verdict, Current
      <4> QED  BY <1>1, <1>2, <1>5, <2>1, <2>3, <3>1, <3>3, <4>1, <4>2 DEF Follows
    <3> QED  BY <3>2, <3>3
  <2> QED  BY <2>2, <2>3
<1>9. ASSUME NEW w \in Waiters PROVE Timed(w)'
  <2>1. Timed(w) /\ (Queued(TimeoutTask(w)) => Queued(TimeoutTask(w))')
    BY <1>1, WaitTimed DEF IInv, WaitInv, Queued
  <2>2. CASE waiter'[w] = waiter[w]
    BY <1>1, <2>1, <2>2 DEF Timed
  <2>3. CASE waiter'[w] # waiter[w]
    BY <1>5, <2>3 DEF Timed
  <2> QED  BY <2>2, <2>3
<1> QED  BY <1>5, <1>6, <1>7, <1>8, <1>9, Assembled

LEMMA EventStep ==
    ASSUME IInv, RunEvent
    PROVE  IInv'
<1> DEFINE e == Head(queue).event
<1>1. /\ queue # <<>> /\ queue' = Tail(queue) /\ log' = Append(log, e) /\ vm.at = "idle"
      /\ Head(queue).kind = "event" /\ UNCHANGED <<accepting, waiter, request>>
      /\ vm' = IF e.kind = "ui" THEN CallHandlers("ui")
               ELSE [Idle EXCEPT !.at = "waiters", !.todo = Pending]
  BY DEF RunEvent, Ready
<1>2. e \in Event
  BY <1>1, TailKeeps DEF IInv, Task
<1>3. /\ vm' = [at |-> vm'.at, todo |-> vm'.todo, calls |-> vm'.calls]
      /\ e.kind # "ui" => vm'.at = "waiters" /\ vm'.todo = Pending
      /\ e.kind = "ui" => vm'.at = "handlers" /\ vm'.todo = {}
  BY <1>1 DEF CallHandlers, Idle
<1> HIDE DEF e
<1>4. /\ log' \in Seq(Event) /\ Len(log') = Len(log) + 1 /\ Len(log) \in Nat
      /\ \A n \in 1 .. Len(log) : log'[n] = log[n]
      /\ log'[Len(log) + 1] = e
  BY <1>1, <1>2 DEF IInv, Typed
<1>5. Waiters' = Waiters /\ vm.todo = {}
  BY <1>1 DEF Waiters, IInv, WaitInv, SnapshotInv
<1>6. Typed'
  <2>1. queue' \in Seq(Task)
    BY <1>1, TailKeeps DEF IInv
  <2>2. vm'.todo \subseteq Waiters
    BY <1>3 DEF Pending
  <2> QED  BY <1>1, <1>3, <1>4, <1>5, <2>1, <2>2 DEF IInv, Typed
<1>7. SnapshotInv'
  <2>1. \A w \in Waiters : /\ waiter[w].born \in Nat /\ waiter[w].born <= Len(log)
                            /\ waiter[w].ended \in Nat /\ waiter[w].ended <= Len(log)
    BY WaiterTyped
  <2>2. vm'.todo \subseteq Waiters /\ (vm'.at # "waiters" => vm'.todo = {})
    BY <1>3 DEF Pending
  <2> QED  BY <1>1, <1>4, <1>5, <2>1, <2>2 DEF SnapshotInv
<1>8. ASSUME NEW w \in Waiters PROVE Follows(w)'
  <2>1. Follows(w)
    BY WaitFollows DEF IInv, WaitInv
  <2>2. /\ waiter[w].born \in Nat /\ waiter[w].born <= Len(log) /\ waiter[w].wait \in Wait
        /\ waiter[w].ended \in Nat /\ waiter[w].ended <= Len(log)
        /\ waiter[w].state \in {"pending", "resolved", "rejected", "timedOut"}
    BY WaiterTyped
  <2>3. CASE waiter[w].state = "pending"
    <3>1. LetPass(w) = Len(log)
      BY <1>5, <2>3 DEF LetPass
    <3>2. CASE e.kind # "ui"
      <4>1. LetPass(w)' = Len(log)
        BY <1>1, <1>3, <1>4, <2>3, <3>2 DEF LetPass, Pending
      <4> QED  BY <1>1, <1>4, <2>1, <2>2, <2>3, <3>1, <4>1 DEF Follows
    <3>3. CASE e.kind = "ui"
      <4>1. LetPass(w)' = Len(log) + 1
        BY <1>1, <1>3, <1>4, <2>3, <3>3 DEF LetPass
      <4>2. Verdict(waiter[w].wait, e) = "skip"
        BY <2>2, <3>3, WaitAssumption DEF Verdict, Kinds
      <4> QED  BY <1>1, <1>4, <2>1, <2>2, <2>3, <3>1, <4>1, <4>2 DEF Follows
    <3> QED  BY <3>2, <3>3
  <2>4. CASE waiter[w].state # "pending"
    <3>1. LetPass(w) <= Len(log) /\ LetPass(w) \in Int /\ LetPass(w)' = LetPass(w)
      BY <1>1, <1>4, <2>2, <2>4 DEF LetPass
    <3> QED  BY <1>1, <1>4, <2>1, <2>2, <2>4, <3>1 DEF Follows
  <2> QED  BY <2>3, <2>4
<1>9. ASSUME NEW w \in Waiters PROVE Timed(w)'
  <2>1. TimeoutTask(w) # Head(queue)
    BY <1>1 DEF TimeoutTask
  <2>2. Timed(w) /\ (Queued(TimeoutTask(w)) => Queued(TimeoutTask(w))')
    BY <1>1, <2>1, TailKeeps, WaitTimed DEF IInv, WaitInv
  <2> QED  BY <1>1, <2>2 DEF Timed
<1> QED  BY <1>5, <1>6, <1>7, <1>8, <1>9, Assembled

LEMMA WaitForStep ==
    ASSUME IInv, NEW wait \in Wait, WaitFor(wait)
    PROVE  IInv'
<1> DEFINE x == [wait |-> wait, state |-> "pending", timer |-> "armed", born |-> Len(log), ended |-> 0]
           new == Len(waiter) + 1
<1>1. waiter' = Append(waiter, x) /\ UNCHANGED <<queue, accepting, vm, log, request>>
  BY DEF WaitFor, eventVars
<1>2. Len(log) \in Nat /\ x \in WaiterRecord
  BY DEF IInv, Typed, WaiterRecord
<1>3. /\ waiter' \in Seq(WaiterRecord) /\ Waiters' = Waiters \cup {new} /\ new \notin Waiters
      /\ waiter'[new] = x /\ \A w \in Waiters : waiter'[w] = waiter[w]
  <2> HIDE DEF x
  <2> QED  BY <1>1, <1>2 DEF IInv, Typed, Waiters
<1>4. Typed'
  BY <1>1, <1>3 DEF IInv, Typed
<1>5. new \notin vm.todo
  BY <1>3 DEF IInv, Typed
<1>6. SnapshotInv'
  <2>1. /\ vm.at # "waiters" => vm.todo = {}
        /\ \A w \in vm.todo : w \in Waiters /\ waiter[w].born < Len(log)
        /\ \A w \in Waiters : waiter[w].born <= Len(log) /\ waiter[w].ended <= Len(log)
    BY DEF IInv, Typed, WaitInv, SnapshotInv
  <2>2. \A w \in Waiters' : waiter'[w].born <= Len(log) /\ waiter'[w].ended <= Len(log)
    BY <1>2, <1>3, <2>1
  <2>3. \A w \in vm.todo : waiter'[w].born < Len(log)
    BY <1>3, <2>1
  <2> QED  BY <1>1, <2>1, <2>2, <2>3 DEF SnapshotInv
<1>7. ASSUME NEW w \in Waiters' PROVE Follows(w)'
  <2>1. CASE w \in Waiters
    BY <1>1, <1>3, <2>1, WaitFollows, Untouched DEF IInv, WaitInv
  <2>2. CASE w = new
    <3>1. LetPass(w)' = Len(log)
      BY <1>1, <1>3, <1>5, <2>2 DEF LetPass
    <3> QED  BY <1>1, <1>2, <1>3, <2>2, <3>1 DEF Follows
  <2> QED  BY <1>3, <2>1, <2>2
<1>8. ASSUME NEW w \in Waiters' PROVE Timed(w)'
  <2>1. CASE w \in Waiters
    BY <1>1, <1>3, <2>1, WaitTimed DEF IInv, WaitInv, Timed, Queued
  <2>2. CASE w = new
    BY <1>3, <2>2 DEF Timed
  <2> QED  BY <1>3, <2>1, <2>2
<1> QED  BY <1>4, <1>6, <1>7, <1>8, Assembled

-----------------------------------------------------------------------------
(* The invariant holds.                                                    *)

LEMMA NextInv == ASSUME IInv, [Next]_vars PROVE IInv'
<1>1. CASE \E e \in Event : Emit(e)
  BY <1>1, EmitStep
<1>2. CASE \E w \in Waiters : TimerFires(w)
  BY <1>2, FireStep
<1>3. CASE \E q \in DOMAIN request : RequestReturns(q)
  BY <1>3, ReturnStep
<1>4. CASE Shutdown \/ Stop
  BY <1>4, LoopQuiet
<1>5. CASE LoopStep
  BY <1>5, TimeoutStep, ResolveQuiet, EventStep, OfferStep, LoopQuiet DEF LoopStep
<1>6. CASE ScriptStep
  <2>1. CASE \E wait \in Wait : WaitFor(wait)
    BY <2>1, WaitForStep
  <2>2. CASE \E b \in {e.kind : e \in Event} : RegisterHandler(b)
    BY <2>2, EventAssumption, ScriptQuiet
  <2> QED  BY <1>6, <2>1, <2>2, ScriptQuiet DEF ScriptStep
<1>7. CASE UNCHANGED vars
  <2>1. Typed'
    BY <1>7 DEF vars, eventVars, IInv, Typed, Waiters
  <2>2. Frame
    BY <1>7 DEF vars, eventVars, IInv, WaitInv, SnapshotInv, Frame, Queued
  <2> QED  BY <2>1, <2>2, FrameKeeps DEF IInv
<1> QED  BY <1>1, <1>2, <1>3, <1>4, <1>5, <1>6, <1>7 DEF Next

LEMMA Invariant == Spec => []IInv
<1>1. Init => IInv
  BY InitInv
<1> QED  BY <1>1, NextInv, PTL DEF Spec

\* A wait ends with the first matching event dispatched after it was made, for
\* any set of waits, any order of offers and any waits made meanwhile.
THEOREM WaitsTakeFirstMatch == Spec => []WaitTakesFirstMatch
<1>1. IInv => WaitTakesFirstMatch
  BY DEF IInv, WaitInv
<1> QED  BY <1>1, Invariant, PTL

\* No wait ends with its timer armed, and none is pending without a timeout to
\* come while the runner takes posts.
THEOREM TimersMatch == Spec => []TimersMatchWaits
<1>1. IInv => TimersMatchWaits
  BY DEF IInv, WaitInv
<1> QED  BY <1>1, Invariant, PTL

\* No cleanup of an earlier policy, whenever and however often it is called,
\* touches the policy set last.
THEOREM PolicyStaysInForce == Spec => []PolicyInForce
<1> DEFINE PInv == epoch \in Nat /\ PolicyInForce
<1>1. Init => PInv
  BY DEF Init, PolicyInForce
<1>2. PInv /\ [Next]_vars => PInv'
  <2> SUFFICES ASSUME PInv, [Next]_vars PROVE PInv'
    OBVIOUS
  <2>1. CASE SetPolicy
    BY <2>1 DEF SetPolicy, PolicyInForce
  <2>2. CASE \E k \in 0 .. epoch : ClearPolicy(k)
    BY <2>2 DEF ClearPolicy, PolicyInForce
  <2>3. CASE UNCHANGED policyVars
    BY <2>3 DEF policyVars, PolicyInForce
  <2>4. SetPolicy \/ (\E k \in 0 .. epoch : ClearPolicy(k)) \/ UNCHANGED policyVars
    BY DEF Next, vars, policyVars, Emit, TimerFires, RequestReturns, Shutdown, Stop, LoopStep,
           RunTimeout, RunResolve, RunEvent, Offer, WaitersDone, ApplyPolicy, CallHandler,
           HandlersDone, ScriptStep, WaitFor, StartRequest, ResetMetrics, DecisionSettles,
           ThenableCallsBack, ScriptResponds, RegisterHandler, RemoveHandler, RemovedFrom
  <2> QED  BY <2>1, <2>2, <2>3, <2>4
<1>3. PInv => PolicyInForce
  OBVIOUS
<1> QED  BY <1>1, <1>2, <1>3, PTL DEF Spec

-----------------------------------------------------------------------------
(* Answers of the policy.                                                  *)

Answer == [id : Nat, by : {"policy", "script"}]
AnsweredBy(k, n) == responses[k].by = "policy" /\ responses[k].id = n

Promised == attached["promise"]
Thenable == attached["thenable"]
Attached(S) == [{"promise", "thenable"} -> SUBSET S]

\* No two answers of the policy to a request, but for those of thenables.
OneAnswer ==
    \A n \in Nat : n \notin Thenable =>
        \A j, k \in DOMAIN responses : AnsweredBy(j, n) /\ AnsweredBy(k, n) => j = k

\* An event that has not reached its policy has neither a promise nor an answer
\* yet; a promised decision is one not given, and no thenable's; no event has
\* two unless its decision is a thenable.
AnswerInv ==
    /\ responses \in Seq(Answer)
    /\ attached \in Attached(1 .. Len(log))
    /\ \A k \in DOMAIN responses : responses[k].id \in 1 .. Len(log)
    /\ \A n \in Promised : n \notin Thenable /\ \A k \in DOMAIN responses : ~AnsweredBy(k, n)
    /\ OneAnswer
    /\ vm.at \in {"waiters", "policy"} =>
         /\ log # <<>> /\ Len(log) \notin Promised \cup Thenable
         /\ \A k \in DOMAIN responses : ~AnsweredBy(k, Len(log))

\* A response with a number nobody else has.
LEMMA RespondKeeps ==
    ASSUME responses \in Seq(Answer), NEW m \in Nat, NEW who \in {"policy", "script"}, Respond(m, who)
    PROVE  \E new \in Nat :
               /\ responses' \in Seq(Answer)
               /\ DOMAIN responses' = DOMAIN responses \cup {new}
               /\ \A k \in DOMAIN responses : k # new /\ responses'[k] = responses[k]
               /\ responses'[new] = [id |-> m, by |-> who]
<1> DEFINE r == [id |-> m, by |-> who]
<1>1. r \in Answer /\ responses' = Append(responses, r)
  BY DEF Answer, Respond
<1> HIDE DEF r
<1>2. /\ responses' \in Seq(Answer)
      /\ DOMAIN responses' = DOMAIN responses \cup {Len(responses) + 1}
      /\ \A k \in DOMAIN responses : k # Len(responses) + 1 /\ responses'[k] = responses[k]
      /\ responses'[Len(responses) + 1] = r /\ Len(responses) + 1 \in Nat
  BY <1>1
<1> QED  BY <1>2 DEF r

\* The steps that answer nothing and begin no event.
LEMMA AnswerFrame ==
    ASSUME AnswerInv, UNCHANGED <<log, responses, attached>>,
           vm'.at \in {"waiters", "policy"} => vm.at \in {"waiters", "policy"}
    PROVE  AnswerInv'
BY DEF AnswerInv, OneAnswer, AnsweredBy, Promised, Thenable

\* A policy's answer to a request that had none, or whose decision is a thenable,
\* and that is promised none any more.
LEMMA PolicyAnswers ==
    ASSUME AnswerInv, log \in Seq(Event), NEW n \in 1 .. Len(log), Respond(n, "policy"), UNCHANGED log,
           attached' \in Attached(1 .. Len(log)), Promised' \subseteq Promised \ {n},
           Thenable' \in {Thenable, Thenable \cup {n}},
           n \notin Thenable' => \A k \in DOMAIN responses : ~AnsweredBy(k, n),
           vm'.at \in {"waiters", "policy"} => vm.at \in {"waiters", "policy"} /\ n # Len(log)
    PROVE  AnswerInv'
<1>1. responses \in Seq(Answer) /\ Len(log) \in Nat /\ n \in Nat
  BY DEF AnswerInv
<1>2. PICK new \in Nat :
        /\ responses' \in Seq(Answer)
        /\ DOMAIN responses' = DOMAIN responses \cup {new}
        /\ \A k \in DOMAIN responses : k # new /\ responses'[k] = responses[k]
        /\ responses'[new] = [id |-> n, by |-> "policy"]
  BY <1>1, RespondKeeps
<1>3. \A m : /\ AnsweredBy(new, m)' <=> m = n
             /\ \A k \in DOMAIN responses : AnsweredBy(k, m)' <=> AnsweredBy(k, m)
  BY <1>2 DEF AnsweredBy
<1>4. \A k \in DOMAIN responses' : responses'[k].id \in 1 .. Len(log)'
  <2>1. \A k \in DOMAIN responses : responses[k].id \in 1 .. Len(log)
    BY DEF AnswerInv
  <2> QED  BY <1>2, <2>1
<1>5. ASSUME NEW m \in Promised'
      PROVE  m \notin Thenable' /\ \A k \in DOMAIN responses' : ~AnsweredBy(k, m)'
  <2>1. m \in Promised /\ m # n
    OBVIOUS
  <2>2. m \notin Thenable /\ \A k \in DOMAIN responses : ~AnsweredBy(k, m)
    BY <2>1 DEF AnswerInv
  <2> QED  BY <1>2, <1>3, <2>1, <2>2
<1>6. ASSUME NEW m \in Nat, m \notin Thenable', NEW j \in DOMAIN responses', NEW k \in DOMAIN responses',
             AnsweredBy(j, m)', AnsweredBy(k, m)'
      PROVE  j = k
  <2>1. CASE m = n
    BY <1>2, <1>3, <1>6, <2>1
  <2>2. CASE m # n
    <3>1. j \in DOMAIN responses /\ k \in DOMAIN responses /\ AnsweredBy(j, m) /\ AnsweredBy(k, m)
      BY <1>2, <1>3, <1>6, <2>2
    <3>2. m \notin Thenable
      BY <1>6
    <3> QED  BY <3>1, <3>2 DEF AnswerInv, OneAnswer
  <2> QED  BY <2>1, <2>2
<1>7. ASSUME vm'.at \in {"waiters", "policy"}
      PROVE  /\ log' # <<>> /\ Len(log)' \notin Promised' \cup Thenable'
             /\ \A k \in DOMAIN responses' : ~AnsweredBy(k, Len(log))'
  <2>1. /\ vm.at \in {"waiters", "policy"} /\ n # Len(log) /\ log' = log
        /\ Promised' \subseteq Promised /\ Thenable' \subseteq Thenable \cup {n}
    BY <1>7
  <2>2. /\ log # <<>> /\ Len(log) \notin Promised \cup Thenable
        /\ \A k \in DOMAIN responses : ~AnsweredBy(k, Len(log))
    BY <2>1 DEF AnswerInv
  <2>3. \A k \in DOMAIN responses' : ~(responses'[k].by = "policy" /\ responses'[k].id = Len(log))
    BY <1>2, <2>1, <2>2 DEF AnsweredBy
  <2> QED  BY <2>1, <2>2, <2>3 DEF AnsweredBy
<1>8. OneAnswer'
  BY <1>6 DEF OneAnswer
<1>9. attached' \in Attached(1 .. Len(log'))
  OBVIOUS
<1> QED  BY <1>2, <1>4, <1>5, <1>7, <1>8, <1>9 DEF AnswerInv

LEMMA AnswerScript ==
    ASSUME IInv, AnswerInv, NEW n \in RequestIDs, ScriptResponds(n)
    PROVE  AnswerInv'
<1>1. /\ responses \in Seq(Answer) /\ n \in Nat /\ n \in 1 .. Len(log) /\ Respond(n, "script")
      /\ UNCHANGED <<log, vm, attached>>
  BY DEF AnswerInv, ScriptResponds, RequestIDs, IInv, Typed, eventVars
<1>2. PICK new \in Nat :
        /\ responses' \in Seq(Answer)
        /\ DOMAIN responses' = DOMAIN responses \cup {new}
        /\ \A k \in DOMAIN responses : k # new /\ responses'[k] = responses[k]
        /\ responses'[new] = [id |-> n, by |-> "script"]
  BY <1>1, RespondKeeps
<1>3. \A m : /\ ~AnsweredBy(new, m)'
             /\ \A k \in DOMAIN responses : AnsweredBy(k, m)' <=> AnsweredBy(k, m)
  BY <1>2 DEF AnsweredBy
<1>4. \A k \in DOMAIN responses' : responses'[k].id \in 1 .. Len(log)'
  BY <1>1, <1>2 DEF AnswerInv
<1>5. /\ \A m \in Promised, k \in DOMAIN responses' : ~AnsweredBy(k, m)'
      /\ \A k \in DOMAIN responses' : vm.at \in {"waiters", "policy"} => ~AnsweredBy(k, Len(log))'
  BY <1>1, <1>2, <1>3 DEF AnswerInv
<1>6. Promised' = Promised /\ Thenable' = Thenable
  BY <1>1 DEF Promised, Thenable
<1>7. OneAnswer'
  BY <1>2, <1>3, <1>6 DEF AnswerInv, OneAnswer
<1> QED  BY <1>1, <1>2, <1>4, <1>5, <1>6, <1>7 DEF AnswerInv

LEMMA AnswerBegins ==
    ASSUME IInv, AnswerInv, RunEvent
    PROVE  AnswerInv'
<1> DEFINE e == Head(queue).event
           n == Len(log)
<1>1. log' = Append(log, e) /\ UNCHANGED <<responses, attached>> /\ log \in Seq(Event) /\ n \in Nat
  BY DEF RunEvent, IInv, Typed
<1>2. e \in Event
  BY TailKeeps DEF RunEvent, Ready, IInv, Task
<1> HIDE DEF e
<1>3. Len(log') = n + 1 /\ log' # <<>>
  BY <1>1, <1>2
<1> HIDE DEF n
<1>4. \A k \in DOMAIN responses : responses[k].id # n + 1 /\ responses[k].id \in 1 .. n + 1
  BY <1>1 DEF AnswerInv, n
<1>5. 1 .. n \subseteq 1 .. n + 1 /\ n + 1 \notin 1 .. n
  BY <1>1
<1>6. attached \in Attached(1 .. n + 1) /\ n + 1 \notin Promised \cup Thenable
  BY <1>5 DEF AnswerInv, Attached, Promised, Thenable, n
<1>7. Promised' = Promised /\ Thenable' = Thenable
  BY <1>1 DEF Promised, Thenable
<1>8. OneAnswer'
  BY <1>1, <1>7 DEF AnswerInv, OneAnswer, AnsweredBy
<1> QED  BY <1>1, <1>3, <1>4, <1>6, <1>7, <1>8 DEF AnswerInv, AnsweredBy

\* A request gets attached to, before or without its answer.
LEMMA AttachKeeps ==
    ASSUME NEW S, attached \in Attached(S), NEW n \in S, NEW kind \in {"promise", "thenable"}, Attach(n, kind)
    PROVE  /\ attached' \in Attached(S)
           /\ Promised' = IF kind = "promise" THEN Promised \cup {n} ELSE Promised
           /\ Thenable' = IF kind = "thenable" THEN Thenable \cup {n} ELSE Thenable
BY DEF Attach, Attached, Promised, Thenable

LEMMA AnswerPolicy ==
    ASSUME IInv, AnswerInv, ApplyPolicy
    PROVE  AnswerInv'
<1> DEFINE n == Len(log)
<1>1. /\ vm.at = "policy" /\ vm'.at = "handlers" /\ UNCHANGED log /\ n \in 1 .. n
      /\ n \notin Promised \cup Thenable /\ attached \in Attached(1 .. n)
      /\ \A k \in DOMAIN responses : ~AnsweredBy(k, n)
  BY DEF ApplyPolicy, CallHandlers, eventVars, AnswerInv, IInv, Typed
<1>2. CASE UNCHANGED <<responses, attached>>
  BY <1>1, <1>2, AnswerFrame
<1>3. ASSUME NEW reply, Callback(reply) PROVE AnswerInv'
  <2>1. CASE reply \in {"promise", "thenable"}
    <3>1. Attach(n, reply)
      BY <1>3, <2>1 DEF Callback
    <3>2. /\ attached' \in Attached(1 .. n)
          /\ Promised' = IF reply = "promise" THEN Promised \cup {n} ELSE Promised
          /\ Thenable' = IF reply = "thenable" THEN Thenable \cup {n} ELSE Thenable
      BY <1>1, <2>1, <3>1, AttachKeeps
    <3>3. CASE UNCHANGED responses
      <4>1. \A m, k : AnsweredBy(k, m)' <=> AnsweredBy(k, m)
        BY <3>3 DEF AnsweredBy
      <4>2. \A m \in Promised' : m \notin Thenable' /\ \A k \in DOMAIN responses : ~AnsweredBy(k, m)
        BY <1>1, <2>1, <3>2 DEF AnswerInv
      <4>3. OneAnswer'
        <5>1. Thenable \subseteq Thenable'
          BY <3>2
        <5>2. \A m \in Nat : m \notin Thenable' =>
                \A j, k \in DOMAIN responses : AnsweredBy(j, m) /\ AnsweredBy(k, m) => j = k
          BY <5>1 DEF AnswerInv, OneAnswer
        <5> QED  BY <3>3, <4>1, <5>2 DEF OneAnswer
      <4> QED  BY <1>1, <3>2, <3>3, <4>1, <4>2, <4>3 DEF AnswerInv
    <3>4. CASE reply = "thenable" /\ Respond(n, "policy")
      <4>1. Promised' \subseteq Promised \ {n}
        BY <1>1, <3>2, <3>4
      <4> QED  BY <1>1, <3>2, <3>4, <4>1, PolicyAnswers DEF IInv, Typed
    <3> QED  BY <1>3, <2>1, <3>3, <3>4 DEF Callback
  <2>2. CASE reply \notin {"promise", "thenable"} /\ Respond(n, "policy")
    <3>1. UNCHANGED attached
      BY <1>3, <2>2 DEF Callback
    <3>2. Promised' = Promised /\ Thenable' = Thenable
      BY <3>1 DEF Promised, Thenable
    <3>3. Promised' \subseteq Promised \ {n}
      BY <1>1, <3>2
    <3> QED  BY <1>1, <2>2, <3>1, <3>2, <3>3, PolicyAnswers DEF IInv, Typed
  <2>3. CASE UNCHANGED <<responses, attached>>
    BY <1>2, <2>3
  <2> QED  BY <1>3, <2>1, <2>2, <2>3 DEF Callback
<1>4. UNCHANGED <<responses, attached>> \/ \E reply \in Reply : Callback(reply)
  BY DEF ApplyPolicy
<1> QED  BY <1>2, <1>3, <1>4

LEMMA AnswerNext == ASSUME IInv, AnswerInv, [Next]_vars PROVE AnswerInv'
<1>1. CASE RunEvent
  BY <1>1, AnswerBegins
<1>2. CASE ApplyPolicy
  BY <1>2, AnswerPolicy
<1>3. CASE \E n \in RequestIDs : ScriptResponds(n)
  BY <1>3, AnswerScript
<1>4. ASSUME NEW n \in RequestIDs, DecisionSettles(n) PROVE AnswerInv'
  <2>1. /\ n \in Promised /\ n \in 1 .. Len(log) /\ Respond(n, "policy")
        /\ attached' = [attached EXCEPT !["promise"] = @ \ {n}] /\ UNCHANGED <<vm, log>>
    BY <1>4 DEF DecisionSettles, RequestIDs, eventVars, Promised
  <2>2. attached \in Attached(1 .. Len(log))
    BY DEF AnswerInv
  <2>3. /\ attached' \in Attached(1 .. Len(log))
        /\ Promised' = Promised \ {n} /\ Thenable' = Thenable
    BY <2>1, <2>2 DEF Attached, Promised, Thenable
  <2>4. /\ n \notin Thenable /\ \A k \in DOMAIN responses : ~AnsweredBy(k, n)
        /\ vm'.at \in {"waiters", "policy"} => vm.at \in {"waiters", "policy"} /\ n # Len(log)
    BY <2>1 DEF AnswerInv
  <2> QED  BY <2>1, <2>3, <2>4, PolicyAnswers DEF IInv, Typed
<1>8. ASSUME NEW n \in RequestIDs, ThenableCallsBack(n) PROVE AnswerInv'
  <2>1. /\ n \in Thenable /\ n \in 1 .. Len(log) /\ Respond(n, "policy") /\ UNCHANGED <<vm, log, attached>>
    BY <1>8 DEF ThenableCallsBack, RequestIDs, eventVars, Thenable
  <2>2. Promised' = Promised /\ Thenable' = Thenable
    BY <2>1 DEF Promised, Thenable
  <2>3. /\ n \notin Promised /\ attached' \in Attached(1 .. Len(log))
        /\ vm'.at \in {"waiters", "policy"} => vm.at \in {"waiters", "policy"} /\ n # Len(log)
    BY <2>1 DEF AnswerInv
  <2>4. Promised' \subseteq Promised \ {n}
    BY <2>2, <2>3
  <2> QED  BY <2>1, <2>2, <2>3, <2>4, PolicyAnswers DEF IInv, Typed
<1>5. CASE UNCHANGED <<log, responses, attached, vm>>
  BY <1>5, AnswerFrame
<1>6. CASE \/ WaitersDone \/ CallHandler \/ HandlersDone
           \/ \E w \in Waiters : Offer(w)
  <2>1. UNCHANGED <<log, responses, attached>>
    BY <1>6 DEF WaitersDone, CallHandler, HandlersDone, Offer, eventVars
  <2>2. vm'.at \in {"waiters", "policy"} => vm.at \in {"waiters", "policy"}
    <3>1. vm = [at |-> vm.at, todo |-> vm.todo, calls |-> vm.calls]
      BY DEF IInv, Typed
    <3>2. WaitersDone => vm.at = "waiters"
      BY DEF WaitersDone
    <3>3. HandlersDone => vm'.at = "idle"
      BY DEF HandlersDone, Idle
    <3>4. CallHandler \/ (\E w \in Waiters : Offer(w)) => vm'.at = vm.at
      BY <3>1 DEF CallHandler, Offer
    <3> QED  BY <1>6, <3>2, <3>3, <3>4
  <2> QED  BY <2>1, <2>2, AnswerFrame
<1>7. \/ RunEvent \/ ApplyPolicy \/ (\E n \in RequestIDs : ScriptResponds(n) \/ DecisionSettles(n) \/ ThenableCallsBack(n))
      \/ UNCHANGED <<log, responses, attached, vm>>
      \/ WaitersDone \/ CallHandler \/ HandlersDone \/ \E w \in Waiters : Offer(w)
  BY DEF Next, vars, eventVars, Emit, TimerFires, RequestReturns, Shutdown, Stop, LoopStep,
         RunTimeout, RunResolve, ScriptStep, WaitFor, StartRequest, SetPolicy, ClearPolicy,
         ResetMetrics, RegisterHandler, RemoveHandler, RemovedFrom
<1> QED  BY <1>1, <1>2, <1>3, <1>4, <1>5, <1>6, <1>7, <1>8

\* Policies may change, decisions may be promised and the script may answer
\* itself: a request gets one answer of a policy at most, unless its decision was
\* a thenable of the script's own, whose callbacks the runtime does not count.
THEOREM PolicyAnswersAtMostOnce == Spec => []PolicyAnswersOnce
<1>1. Init => AnswerInv
  BY DEF Init, AnswerInv, OneAnswer, Attached, Promised, Thenable, Idle
<1>2. AnswerInv => PolicyAnswersOnce
  <2> SUFFICES ASSUME AnswerInv, NEW n \in RequestIDs \ attached["thenable"]
               PROVE  LET answers == {k \in DOMAIN responses : responses[k] = [id |-> n, by |-> "policy"]}
                      IN Cardinality(answers) + (IF n \in attached["promise"] THEN 1 ELSE 0) <= 1
    BY DEF PolicyAnswersOnce
  <2> DEFINE answers == {k \in DOMAIN responses : responses[k] = [id |-> n, by |-> "policy"]}
  <2>1. n \in Nat /\ n \notin Thenable /\ \A k \in answers : AnsweredBy(k, n) /\ k \in DOMAIN responses
    BY DEF RequestIDs, AnsweredBy, Thenable
  <2>2. Cardinality({}) = 0 /\ \A k : Cardinality({k}) = 1
    BY FS_EmptySet, FS_Singleton
  <2> HIDE DEF answers
  <2>3. CASE answers = {}
    <3>1. Cardinality(answers) = 0
      BY <2>2, <2>3
    <3> QED  BY <3>1 DEF answers
  <2>4. CASE answers # {}
    <3>1. PICK k \in answers : TRUE
      BY <2>4
    <3>2. answers = {k}
      BY <2>1, <3>1 DEF AnswerInv, OneAnswer
    <3>3. n \notin attached["promise"]
      BY <2>1, <3>1 DEF AnswerInv, Promised
    <3>4. Cardinality(answers) = 1
      BY <2>2, <3>2
    <3> QED  BY <3>3, <3>4 DEF answers
  <2> QED  BY <2>3, <2>4
<1> QED  BY <1>1, <1>2, AnswerNext, Invariant, PTL DEF Spec

-----------------------------------------------------------------------------
(* Handlers.                                                               *)

HandlerRecord ==
    [bucket : Buckets, slot : Nat \ {0}, from : Nat \ {0}, until : Nat, heard : Seq(Nat)]

HandlerTyped ==
    /\ handler \in Seq(HandlerRecord)
    /\ slots \in [Buckets -> Seq(Nat)]
    /\ vm.calls \in Seq(Nat)

\* A slot is its handler's own for good, and empty once that is removed.
SlotsOwned ==
    /\ \A h \in Handlers :
         /\ handler[h].slot \in DOMAIN slots[handler[h].bucket]
         /\ slots[handler[h].bucket][handler[h].slot] = IF handler[h].until = 0 THEN h ELSE 0
    /\ \A b \in Buckets : \A i \in DOMAIN slots[b] :
         slots[b][i] # 0 => /\ slots[b][i] \in Handlers
                            /\ handler[slots[b][i]].bucket = b /\ handler[slots[b][i]].slot = i

\* A handler still to be called is for the current event, and in the copy once.
CallsDue ==
    /\ vm.at # "handlers" => vm.calls = <<>>
    /\ vm.at \in {"waiters", "policy", "handlers"} => log # <<>>
    /\ vm.at = "waiters" => Current.kind \in Kinds
    /\ vm.at = "policy" => Current.kind = "request"
    /\ \A i, j \in DOMAIN vm.calls : vm.calls[i] = vm.calls[j] /\ vm.calls[i] # 0 => i = j
    /\ \A i \in DOMAIN vm.calls :
         vm.calls[i] # 0 => /\ vm.calls[i] \in Handlers
                            /\ handler[vm.calls[i]].bucket = Current.kind
                            /\ handler[vm.calls[i]].from <= Len(log)
                            /\ \/ handler[vm.calls[i]].until = 0
                               \/ handler[vm.calls[i]].until > Len(log)

ToCall(h)  == \E i \in DOMAIN vm.calls : vm.calls[i] = h
LastDue(h) == IF handler[h].until > 0 THEN handler[h].until - 1 ELSE NextHeard - 1

\* Handler h should have heard event n by now.
Due(h, n) == /\ n \in Nat /\ handler[h].from <= n /\ n <= LastDue(h)
             /\ log[n].kind = handler[h].bucket
             /\ ~(ToCall(h) /\ n = Len(log))

HeardExactly(h) ==
    /\ handler[h].from <= NextHeard /\ handler[h].until <= NextHeard
    /\ \A n \in Nat : (\E i \in DOMAIN handler[h].heard : handler[h].heard[i] = n) <=> Due(h, n)
    /\ \A i, j \in DOMAIN handler[h].heard : i < j => handler[h].heard[i] < handler[h].heard[j]

HandlerInv == HandlerTyped /\ SlotsOwned /\ CallsDue /\ \A h \in Handlers : HeardExactly(h)

LEMMA HandlerTypes ==
    ASSUME HandlerTyped, NEW h \in Handlers
    PROVE  /\ h \in Nat \ {0} /\ handler[h] \in HandlerRecord
           /\ handler[h].bucket \in Buckets /\ handler[h].slot \in Nat \ {0} /\ handler[h].from \in Nat \ {0}
           /\ handler[h].until \in Nat /\ handler[h].heard \in Seq(Nat)
<1>1. handler[h] \in HandlerRecord /\ h \in Nat \ {0}
  BY DEF HandlerTyped, Handlers
<1> QED  BY <1>1 DEF HandlerRecord

\* Which events are over for the handlers.
LEMMA HeardSoFar ==
    ASSUME IInv
    PROVE  /\ Len(log) \in Nat /\ NextHeard \in Nat
           /\ NextHeard = IF vm.at \in {"waiters", "policy"} THEN Len(log) ELSE Len(log) + 1
<1>1. Len(log) \in Nat
  BY DEF IInv, Typed
<1> QED  BY <1>1 DEF NextHeard

\* Steps that leave the handlers, what is to be called and what is over alone.
LEMMA HeardStays ==
    ASSUME IInv, IInv', HandlerInv, UNCHANGED handlerVars, NextHeard' = NextHeard, vm'.calls = vm.calls,
           log' = log \/ vm.calls = <<>>,
           \A n \in 1 .. NextHeard - 1 : log'[n] = log[n]
    PROVE  HandlerTyped' /\ SlotsOwned' /\ \A h \in Handlers' : HeardExactly(h)'
<1>1. HandlerTyped' /\ SlotsOwned' /\ Handlers' = Handlers
  BY DEF HandlerInv, HandlerTyped, SlotsOwned, handlerVars, Handlers
<1>2. ASSUME NEW h \in Handlers PROVE HeardExactly(h)'
  <2>1. HeardExactly(h) /\ handler[h].from \in Nat \ {0} /\ handler[h].until \in Nat /\ NextHeard \in Nat
    BY HandlerTypes, HeardSoFar DEF HandlerInv
  <2>2. LastDue(h)' = LastDue(h) /\ LastDue(h) <= NextHeard - 1
    BY <2>1 DEF LastDue, handlerVars, HeardExactly
  <2>3. ToCall(h)' <=> ToCall(h)
    BY DEF ToCall
  <2>4. \A n \in Nat : handler[h].from <= n /\ n <= LastDue(h) => n \in 1 .. NextHeard - 1
    <3>1. LastDue(h) \in Int
      BY <2>1 DEF LastDue
    <3> QED  BY <2>1, <2>2, <3>1
  <2>5. ToCall(h) => log' = log
    BY DEF ToCall
  <2>6. \A n \in Nat : Due(h, n)' <=> Due(h, n)
    BY <2>2, <2>3, <2>4, <2>5 DEF Due, handlerVars
  <2> QED  BY <2>1, <2>6 DEF HeardExactly, handlerVars
<1> QED  BY <1>1, <1>2

\* The slots of the current event's kind are copied to be called.
LEMMA HandlersCopied ==
    ASSUME IInv, IInv', HandlerInv, UNCHANGED handlerVars, vm.calls = <<>>,
           NEW b \in Buckets, vm' = CallHandlers(b),
           log' # <<>>, NextHeard = Len(log'), log'[Len(log')].kind = b,
           \A n \in 1 .. Len(log') - 1 : log'[n] = log[n]
    PROVE  HandlerInv'
<1> DEFINE L == Len(log')
           q == slots[b]
<1>1. /\ L \in Nat /\ NextHeard = L /\ NextHeard' = L + 1 /\ log'[L].kind = b /\ Current'.kind = b
      /\ vm'.at = "handlers" /\ vm'.calls = q /\ vm'.todo = {}
      /\ handler' = handler /\ slots' = slots /\ Handlers' = Handlers
  BY HeardSoFar DEF CallHandlers, NextHeard, IInv, Typed, Current, Handlers, handlerVars
<1>2. L \in Nat \ {0}
  BY EmptySeq DEF IInv, Typed
<1> HIDE DEF L
<1>3. /\ \A h \in Handlers : /\ handler[h].slot \in DOMAIN slots[handler[h].bucket]
                             /\ slots[handler[h].bucket][handler[h].slot] = IF handler[h].until = 0 THEN h ELSE 0
      /\ \A i \in DOMAIN q : q[i] # 0 => /\ q[i] \in Handlers
                                         /\ handler[q[i]].bucket = b /\ handler[q[i]].slot = i
  BY DEF HandlerInv, SlotsOwned
<1>4. \A h \in Handlers : ToCall(h)' <=> handler[h].bucket = b /\ handler[h].until = 0
  <2> SUFFICES ASSUME NEW h \in Handlers PROVE ToCall(h)' <=> handler[h].bucket = b /\ handler[h].until = 0
    OBVIOUS
  <2>1. h # 0
    BY HandlerTypes DEF HandlerInv
  <2>2. ASSUME handler[h].bucket = b, handler[h].until = 0 PROVE ToCall(h)'
    BY <1>1, <1>3, <2>2 DEF ToCall
  <2>3. ASSUME ToCall(h)' PROVE handler[h].bucket = b /\ handler[h].until = 0
    <3>1. PICK i \in DOMAIN q : q[i] = h
      BY <1>1, <2>3 DEF ToCall
    <3>2. handler[h].bucket = b /\ handler[h].slot = i
      BY <1>3, <2>1, <3>1
    <3> QED  BY <1>3, <2>1, <3>1, <3>2
  <2> QED  BY <2>2, <2>3
<1>5. HandlerTyped' /\ SlotsOwned'
  BY <1>1 DEF HandlerInv, HandlerTyped, SlotsOwned
<1>6. ASSUME NEW h \in Handlers PROVE HeardExactly(h)'
  <2>1. HeardExactly(h) /\ handler[h].from \in Nat \ {0} /\ handler[h].until \in Nat
    BY HandlerTypes DEF HandlerInv
  <2>2. /\ LastDue(h) = IF handler[h].until > 0 THEN handler[h].until - 1 ELSE L - 1
        /\ LastDue(h)' = IF handler[h].until > 0 THEN handler[h].until - 1 ELSE L
        /\ handler[h].until <= L /\ handler[h].from <= L
    BY <1>1, <1>2, <2>1 DEF LastDue, HeardExactly
  <2>3. ~ToCall(h)
    BY DEF ToCall
  <2>4. ASSUME NEW n \in Nat PROVE Due(h, n)' <=> Due(h, n)
    <3>1. CASE n < L
      <4>1. handler[h].from <= n => log'[n] = log[n]
        BY <1>2, <2>1, <3>1 DEF L
      <4> QED  BY <1>1, <1>2, <2>1, <2>2, <2>3, <3>1, <4>1 DEF Due, L
    <3>2. CASE n = L
      BY <1>1, <1>2, <1>4, <2>1, <2>2, <3>2 DEF Due, L
    <3>3. CASE n > L
      BY <1>1, <1>2, <2>1, <2>2, <3>3 DEF Due
    <3> QED  BY <1>2, <3>1, <3>2, <3>3
  <2> QED  BY <1>1, <1>2, <2>1, <2>2, <2>4 DEF HeardExactly
<1>7. CallsDue'
  <2>1. ASSUME NEW i \in DOMAIN q, NEW j \in DOMAIN q, q[i] = q[j], q[i] # 0 PROVE i = j
    BY <1>3, <2>1
  <2>2. ASSUME NEW i \in DOMAIN q, q[i] # 0
        PROVE  /\ q[i] \in Handlers /\ handler[q[i]].bucket = b /\ handler[q[i]].from <= L
               /\ handler[q[i]].until = 0
    <3>1. q[i] \in Handlers /\ handler[q[i]].bucket = b /\ handler[q[i]].slot = i
      BY <1>3, <2>2
    <3>2. handler[q[i]].from <= L
      BY <1>1, <3>1 DEF HandlerInv, HeardExactly
    <3> QED  BY <1>3, <2>2, <3>1, <3>2
  <2> QED  BY <1>1, <2>1, <2>2 DEF CallsDue, L
<1> QED  BY <1>1, <1>5, <1>6, <1>7 DEF HandlerInv

LEMMA CallStep ==
    ASSUME IInv, IInv', HandlerInv, CallHandler
    PROVE  HandlerInv'
<1> DEFINE q == vm.calls
           t == Tail(q)
           g == Head(q)
<1>1. /\ q \in Seq(Nat) /\ q # <<>> /\ vm.at = "handlers" /\ vm'.at = "handlers" /\ vm'.calls = t
      /\ handler' = IF g = 0 THEN handler ELSE [handler EXCEPT ![g].heard = Append(@, Len(log))]
      /\ UNCHANGED <<log, slots>>
  <2>1. vm = [at |-> vm.at, todo |-> vm.todo, calls |-> vm.calls]
    BY DEF IInv, Typed
  <2> QED  BY <2>1 DEF CallHandler, eventVars, HandlerInv, HandlerTyped
<1>2. /\ t \in Seq(Nat) /\ g = q[1] /\ 1 \in DOMAIN q /\ g \in Nat
      /\ \A i \in DOMAIN t : i + 1 \in DOMAIN q /\ t[i] = q[i + 1] /\ i + 1 # 1 /\ i \in Nat
      /\ \A i \in DOMAIN q : i = 1 \/ (i - 1 \in DOMAIN t /\ t[i - 1] = q[i])
  BY <1>1
<1> HIDE DEF q, t, g
<1>3. CallsDue /\ HandlerTyped /\ SlotsOwned /\ Len(log) \in Nat /\ log # <<>>
  BY <1>1, HeardSoFar DEF HandlerInv, CallsDue
<1>4. g # 0 => /\ g \in Handlers /\ handler[g].bucket = Current.kind /\ handler[g].from <= Len(log)
               /\ (handler[g].until = 0 \/ handler[g].until > Len(log)) /\ ToCall(g)
               /\ ~(\E i \in DOMAIN t : t[i] = g)
  BY <1>2, <1>3 DEF CallsDue, ToCall, q
\* Only what g has heard changes.
<1>5. /\ handler' \in Seq(HandlerRecord) /\ Handlers' = Handlers
      /\ \A h \in Handlers : /\ h # g => handler'[h] = handler[h]
                             /\ handler'[h].bucket = handler[h].bucket /\ handler'[h].slot = handler[h].slot
                             /\ handler'[h].from = handler[h].from /\ handler'[h].until = handler[h].until
      /\ g # 0 => handler'[g].heard = Append(handler[g].heard, Len(log))
  <2>1. CASE g = 0
    BY <1>1, <1>3, <2>1 DEF HandlerTyped, Handlers
  <2>2. CASE g # 0
    <3> DEFINE x == [handler[g] EXCEPT !.heard = Append(@, Len(log))]
    <3>1. /\ x \in HandlerRecord /\ x.bucket = handler[g].bucket /\ x.slot = handler[g].slot
          /\ x.from = handler[g].from /\ x.until = handler[g].until
          /\ x.heard = Append(handler[g].heard, Len(log))
      <4>1. handler[g] \in HandlerRecord /\ handler[g].heard \in Seq(Nat)
        BY <1>3, <1>4, <2>2, HandlerTypes
      <4>2. Append(handler[g].heard, Len(log)) \in Seq(Nat)
        BY <1>3, <4>1, AppendProperties
      <4> QED  BY <4>1, <4>2 DEF HandlerRecord
    <3>2. handler' = [handler EXCEPT ![g] = x]
      BY <1>1, <2>2
    <3> HIDE DEF x
    <3>3. handler' \in Seq(HandlerRecord) /\ Handlers' = Handlers /\ handler'[g] = x
          /\ \A h \in Handlers : h # g => handler'[h] = handler[h]
      BY <1>3, <1>4, <2>2, <3>1, <3>2 DEF HandlerTyped, Handlers
    <3> QED  BY <3>1, <3>3
  <2> QED  BY <2>1, <2>2
<1>6. HandlerTyped'
  BY <1>1, <1>2, <1>3, <1>5 DEF HandlerTyped
<1>7. SlotsOwned'
  <2>1. ASSUME NEW h \in Handlers
        PROVE  /\ handler'[h].slot \in DOMAIN slots'[handler'[h].bucket]
               /\ slots'[handler'[h].bucket][handler'[h].slot] = IF handler'[h].until = 0 THEN h ELSE 0
    BY <1>1, <1>3, <1>5 DEF SlotsOwned
  <2>2. ASSUME NEW b \in Buckets, NEW i \in DOMAIN slots'[b], slots'[b][i] # 0
        PROVE  /\ slots'[b][i] \in Handlers
               /\ handler'[slots'[b][i]].bucket = b /\ handler'[slots'[b][i]].slot = i
    BY <1>1, <1>3, <1>5, <2>2 DEF SlotsOwned
  <2> QED  BY <1>5, <2>1, <2>2 DEF SlotsOwned
<1>8. CallsDue'
  <2>1. ASSUME NEW i \in DOMAIN t, NEW j \in DOMAIN t, t[i] = t[j], t[i] # 0 PROVE i = j
    <3>1. i + 1 = j + 1
      BY <1>2, <1>3, <2>1 DEF CallsDue, q
    <3> QED  BY <1>2, <3>1
  <2>2. ASSUME NEW i \in DOMAIN t, t[i] # 0
        PROVE  /\ t[i] \in Handlers /\ handler'[t[i]].bucket = Current.kind /\ handler'[t[i]].from <= Len(log)
               /\ (handler'[t[i]].until = 0 \/ handler'[t[i]].until > Len(log))
    <3>1. /\ t[i] \in Handlers /\ handler[t[i]].bucket = Current.kind /\ handler[t[i]].from <= Len(log)
          /\ (handler[t[i]].until = 0 \/ handler[t[i]].until > Len(log))
      BY <1>2, <1>3, <2>2 DEF CallsDue, q
    <3> QED  BY <1>5, <3>1
  <2>3. Current' = Current /\ log' = log
    BY <1>1 DEF Current
  <2> QED  BY <1>1, <1>3, <1>5, <2>1, <2>2, <2>3 DEF CallsDue
<1>9. ASSUME NEW h \in Handlers PROVE HeardExactly(h)'
  <2>1. /\ HeardExactly(h) /\ handler[h].from \in Nat \ {0} /\ handler[h].until \in Nat
        /\ handler[h].heard \in Seq(Nat) /\ h # 0
    BY HandlerTypes DEF HandlerInv
  <2>2. NextHeard = Len(log) + 1 /\ NextHeard' = NextHeard /\ LastDue(h)' = LastDue(h)
    BY <1>1, <1>5, HeardSoFar DEF NextHeard, LastDue
  <2>3. CASE h # g
    <3>1. (\E i \in DOMAIN t : t[i] = h) <=> (\E i \in DOMAIN q : q[i] = h)
      <4>1. ASSUME NEW i \in DOMAIN q, q[i] = h PROVE \E j \in DOMAIN t : t[j] = h
        BY <1>2, <2>3, <4>1
      <4> QED  BY <1>2, <4>1
    <3>3. ToCall(h)' <=> ToCall(h)
      BY <1>1, <3>1 DEF ToCall, q
    <3>2. \A n \in Nat : Due(h, n)' <=> Due(h, n)
      BY <1>1, <1>5, <2>2, <2>3, <3>3 DEF Due
    <3> QED  BY <1>5, <2>1, <2>2, <2>3, <3>2 DEF HeardExactly
  <2>4. CASE h = g
    <3> DEFINE s == handler[h].heard
               r == Append(s, Len(log))
    <3>1. ~ToCall(h)' /\ ToCall(h) /\ handler'[h].heard = r
      BY <1>1, <1>4, <1>5, <2>1, <2>4 DEF ToCall
    <3>2. /\ Len(s) \in Nat /\ DOMAIN r = DOMAIN s \cup {Len(s) + 1}
          /\ r[Len(s) + 1] = Len(log) /\ \A i \in DOMAIN s : r[i] = s[i] /\ i < Len(s) + 1 /\ i \in Nat /\ s[i] \in Nat
      <4>1. s \in Seq(Nat) /\ r = Append(s, Len(log))
        BY <2>1
      <4> HIDE DEF s, r
      <4>2. /\ Len(s) \in Nat /\ DOMAIN s = 1 .. Len(s) /\ DOMAIN r = 1 .. Len(s) + 1
            /\ r[Len(s) + 1] = Len(log) /\ \A i \in 1 .. Len(s) : r[i] = s[i]
        BY <1>3, <4>1, AppendProperties, LenProperties
      <4>3. \A i \in DOMAIN s : i < Len(s) + 1 /\ i \in Nat /\ s[i] \in Nat
        BY <4>1, <4>2
      <4> QED  BY <4>2, <4>3
    <3> HIDE DEF r
    <3>3. /\ handler[h].from <= Len(log) /\ log[Len(log)].kind = handler[h].bucket
          /\ LastDue(h) >= Len(log) /\ LastDue(h) <= Len(log) /\ LastDue(h) \in Int
      BY <1>3, <1>4, <2>1, <2>2, <2>4 DEF LastDue, Current, HeardExactly
    <3>4. ASSUME NEW n \in Nat
          PROVE  (\E i \in DOMAIN r : r[i] = n) <=> Due(h, n)'
      <4>1. (\E i \in DOMAIN r : r[i] = n) <=> (\E i \in DOMAIN s : s[i] = n) \/ n = Len(log)
        BY <3>2
      <4>2. (\E i \in DOMAIN s : s[i] = n) <=> Due(h, n)
        BY <2>1 DEF HeardExactly
      <4>3. Due(h, n) \/ n = Len(log) <=> Due(h, n)'
        BY <1>1, <1>3, <1>5, <2>1, <2>2, <3>1, <3>3 DEF Due
      <4> QED  BY <4>1, <4>2, <4>3
    <3>5. \A i \in DOMAIN s : s[i] < Len(log)
      <4> SUFFICES ASSUME NEW i \in DOMAIN s PROVE s[i] < Len(log)
        OBVIOUS
      <4>1. Due(h, s[i]) /\ s[i] \in Nat
        BY <2>1, <3>2 DEF HeardExactly
      <4> QED  BY <1>3, <3>1, <3>3, <4>1 DEF Due
    <3>6. \A i, j \in DOMAIN r : i < j => r[i] < r[j]
      BY <1>3, <2>1, <3>2, <3>5 DEF HeardExactly
    <3> QED  BY <1>5, <2>1, <2>2, <3>1, <3>4, <3>6 DEF HeardExactly
  <2> QED  BY <2>3, <2>4
<1> QED  BY <1>5, <1>6, <1>7, <1>8, <1>9 DEF HandlerInv

LEMMA RegisterStep ==
    ASSUME IInv, IInv', HandlerInv, NEW b \in Buckets, RegisterHandler(b)
    PROVE  HandlerInv'
<1> DEFINE g == Len(handler) + 1
           x == [bucket |-> b, slot |-> Len(slots[b]) + 1, from |-> NextHeard, until |-> 0, heard |-> <<>>]
           q == slots[b]
<1>1. /\ HandlerTyped /\ SlotsOwned /\ CallsDue /\ Len(log) \in Nat /\ NextHeard \in Nat
      /\ handler \in Seq(HandlerRecord) /\ slots \in [Buckets -> Seq(Nat)] /\ Len(handler) \in Nat
      /\ Handlers = 1 .. Len(handler) /\ q \in Seq(Nat) /\ Len(q) \in Nat /\ DOMAIN q = 1 .. Len(q)
  BY HeardSoFar, LenProperties DEF HandlerInv, HandlerTyped, Handlers
<1>2. NextHeard \in Nat \ {0}
  BY <1>1, HeardSoFar, EmptySeq DEF CallsDue, IInv, Typed
<1>3. x \in HandlerRecord
  BY <1>1, <1>2 DEF HandlerRecord
<1>4. /\ handler' = Append(handler, x) /\ slots' = [slots EXCEPT ![b] = Append(q, g)]
      /\ UNCHANGED <<log, vm>>
  BY DEF RegisterHandler, eventVars
<1>5. /\ x.bucket = b /\ x.slot = Len(q) + 1 /\ x.from = NextHeard /\ x.until = 0 /\ x.heard = <<>>
  OBVIOUS
<1> HIDE DEF x, q, g
<1>6. /\ handler' \in Seq(HandlerRecord) /\ Handlers' = Handlers \cup {g} /\ g \notin Handlers /\ g \in Nat \ {0}
      /\ \A h \in Handlers : handler'[h] = handler[h]
      /\ handler'[g] = x
  BY <1>1, <1>3, <1>4, AppendProperties DEF Handlers, g
<1>7. /\ slots' \in [Buckets -> Seq(Nat)] /\ slots'[b] = Append(q, g)
      /\ \A c \in Buckets : c # b => slots'[c] = slots[c]
      /\ DOMAIN slots'[b] = DOMAIN q \cup {Len(q) + 1} /\ Len(q) + 1 \notin DOMAIN q
      /\ \A i \in DOMAIN q : slots'[b][i] = q[i]
      /\ slots'[b][Len(q) + 1] = g
  <2>1. Append(q, g) \in Seq(Nat) /\ Len(Append(q, g)) = Len(q) + 1
    BY <1>1, <1>6, AppendProperties
  <2>2. DOMAIN Append(q, g) = 1 .. Len(q) + 1
    BY <2>1, LenProperties
  <2>3. slots' \in [Buckets -> Seq(Nat)] /\ slots'[b] = Append(q, g) /\ \A c \in Buckets : c # b => slots'[c] = slots[c]
    BY <1>1, <1>4, <2>1
  <2>4. (\A i \in 1 .. Len(q) : Append(q, g)[i] = q[i]) /\ Append(q, g)[Len(q) + 1] = g
    BY <1>1, <1>6, AppendProperties
  <2> QED  BY <1>1, <2>2, <2>3, <2>4
<1>8. HandlerTyped'
  BY <1>1, <1>4, <1>6, <1>7 DEF HandlerTyped
<1>9. SlotsOwned'
  <2>1. ASSUME NEW h \in Handlers'
        PROVE  /\ handler'[h].slot \in DOMAIN slots'[handler'[h].bucket]
               /\ slots'[handler'[h].bucket][handler'[h].slot] = IF handler'[h].until = 0 THEN h ELSE 0
    <3>1. CASE h = g
      BY <1>5, <1>6, <1>7, <3>1
    <3>2. CASE h # g
      <4>1. /\ h \in Handlers /\ handler'[h] = handler[h] /\ handler[h].bucket \in Buckets
            /\ handler[h].slot \in DOMAIN slots[handler[h].bucket]
            /\ slots[handler[h].bucket][handler[h].slot] = IF handler[h].until = 0 THEN h ELSE 0
        BY <1>1, <1>6, <3>2, HandlerTypes DEF SlotsOwned
      <4> QED  BY <1>7, <4>1 DEF q
    <3> QED  BY <3>1, <3>2
  <2>2. ASSUME NEW c \in Buckets, NEW i \in DOMAIN slots'[c], slots'[c][i] # 0
        PROVE  /\ slots'[c][i] \in Handlers'
               /\ handler'[slots'[c][i]].bucket = c /\ handler'[slots'[c][i]].slot = i
    <3>1. CASE c = b /\ i = Len(q) + 1
      BY <1>5, <1>6, <1>7, <3>1
    <3>2. CASE ~(c = b /\ i = Len(q) + 1)
      <4>1. i \in DOMAIN slots[c] /\ slots'[c][i] = slots[c][i]
        BY <1>7, <2>2, <3>2 DEF q
      <4>2. slots[c][i] \in Handlers /\ handler[slots[c][i]].bucket = c /\ handler[slots[c][i]].slot = i
        BY <1>1, <2>2, <4>1 DEF SlotsOwned
      <4> QED  BY <1>6, <4>1, <4>2
    <3> QED  BY <3>1, <3>2
  <2> QED  BY <2>1, <2>2 DEF SlotsOwned
<1>10. CallsDue'
  <2>1. \A i \in DOMAIN vm.calls : vm.calls[i] # 0 => vm.calls[i] \in Handlers /\ handler'[vm.calls[i]] = handler[vm.calls[i]]
    BY <1>1, <1>6 DEF CallsDue
  <2> QED  BY <1>1, <1>4, <1>6, <2>1 DEF CallsDue, Current
<1>11. ASSUME NEW h \in Handlers' PROVE HeardExactly(h)'
  <2>1. NextHeard' = NextHeard /\ (ToCall(h)' <=> ToCall(h))
    BY <1>4 DEF NextHeard, ToCall
  <2>2. CASE h = g
    <3>1. ~(\E i \in DOMAIN handler'[h].heard : TRUE)
      BY <1>5, <1>6, <2>2
    <3>2. LastDue(h)' = NextHeard - 1 /\ handler'[h].from = NextHeard /\ handler'[h].until = 0
      BY <1>5, <1>6, <2>1, <2>2 DEF LastDue
    <3>3. \A n \in Nat : ~Due(h, n)'
      BY <1>2, <3>2 DEF Due
    <3> QED  BY <1>2, <2>1, <3>1, <3>2, <3>3 DEF HeardExactly
  <2>3. CASE h # g
    <3>1. h \in Handlers /\ handler'[h] = handler[h] /\ HeardExactly(h)
      BY <1>6, <2>3 DEF HandlerInv
    <3>2. LastDue(h)' = LastDue(h)
      BY <2>1, <3>1 DEF LastDue
    <3>3. \A n \in Nat : Due(h, n)' <=> Due(h, n)
      BY <1>4, <2>1, <3>1, <3>2 DEF Due
    <3> QED  BY <2>1, <3>1, <3>3 DEF HeardExactly
  <2> QED  BY <2>2, <2>3
<1> QED  BY <1>8, <1>9, <1>10, <1>11 DEF HandlerInv

LEMMA RemoveStep ==
    ASSUME IInv, IInv', HandlerInv, NEW g \in Handlers, RemoveHandler(g)
    PROVE  HandlerInv'
<1> DEFINE b == handler[g].bucket
           k == handler[g].slot
           q == slots[b]
           e == [q EXCEPT ![k] = 0]
           u == IF handler[g].until = 0 THEN NextHeard ELSE handler[g].until
           x == [handler[g] EXCEPT !.until = u]
<1>1. /\ HandlerTyped /\ SlotsOwned /\ CallsDue /\ Len(log) \in Nat /\ NextHeard \in Nat
      /\ handler \in Seq(HandlerRecord) /\ slots \in [Buckets -> Seq(Nat)]
      /\ b \in Buckets /\ k \in DOMAIN q /\ q \in Seq(Nat) /\ g \in Nat \ {0} /\ u \in Nat
  BY HeardSoFar, HandlerTypes DEF HandlerInv, HandlerTyped, SlotsOwned
<1>2. NextHeard \in Nat \ {0} /\ u # 0
  BY <1>1, HeardSoFar, EmptySeq DEF CallsDue, IInv, Typed
<1>3. /\ x \in HandlerRecord /\ x.bucket = b /\ x.slot = k /\ x.from = handler[g].from /\ x.until = u
      /\ x.heard = handler[g].heard
  <2>1. handler[g] \in HandlerRecord
    BY <1>1, HandlerTypes
  <2> HIDE DEF u
  <2> QED  BY <1>1, <2>1 DEF HandlerRecord
<1>4. /\ handler' = [handler EXCEPT ![g] = x] /\ slots' = [slots EXCEPT ![b] = e]
      /\ UNCHANGED <<log, vm>>
  BY DEF RemoveHandler, RemovedFrom, eventVars
<1>5. /\ e \in Seq(Nat) /\ DOMAIN e = DOMAIN q /\ e[k] = 0
      /\ \A i \in DOMAIN q : i # k => e[i] = q[i]
  BY <1>1, ExceptSeq
<1> HIDE DEF x, e, u, q, b, k
<1>6. /\ handler' \in Seq(HandlerRecord) /\ Handlers' = Handlers
      /\ \A h \in Handlers : h # g => handler'[h] = handler[h]
      /\ handler'[g] = x
  BY <1>1, <1>3, <1>4 DEF Handlers
<1>7. /\ slots' \in [Buckets -> Seq(Nat)] /\ slots'[b] = e
      /\ \A c \in Buckets : c # b => slots'[c] = slots[c]
      /\ \A c \in Buckets : DOMAIN slots'[c] = DOMAIN slots[c]
      /\ \A c \in Buckets : \A i \in DOMAIN slots[c] :
           slots'[c][i] = IF c = b /\ i = k THEN 0 ELSE slots[c][i]
  BY <1>1, <1>4, <1>5 DEF q
<1>8. HandlerTyped'
  BY <1>1, <1>4, <1>6, <1>7 DEF HandlerTyped
<1>9. SlotsOwned'
  <2>1. ASSUME NEW h \in Handlers
        PROVE  /\ handler'[h].slot \in DOMAIN slots'[handler'[h].bucket]
               /\ slots'[handler'[h].bucket][handler'[h].slot] = IF handler'[h].until = 0 THEN h ELSE 0
    <3>1. CASE h = g
      BY <1>1, <1>2, <1>3, <1>5, <1>6, <1>7, <3>1
    <3>2. CASE h # g
      <4>1. /\ handler'[h] = handler[h] /\ handler[h].bucket \in Buckets
            /\ handler[h].slot \in DOMAIN slots[handler[h].bucket]
            /\ slots[handler[h].bucket][handler[h].slot] = IF handler[h].until = 0 THEN h ELSE 0
        BY <1>1, <1>6, <3>2, HandlerTypes DEF SlotsOwned
      <4>2. slots[b][k] = IF handler[g].until = 0 THEN g ELSE 0
        BY <1>1 DEF SlotsOwned, b, k
      <4>3. h # 0
        BY <1>1, HandlerTypes
      <4>4. CASE handler[h].until = 0
        <5>1. ~(handler[h].bucket = b /\ handler[h].slot = k)
          BY <3>2, <4>1, <4>2, <4>3, <4>4
        <5> QED  BY <1>7, <4>1, <4>4, <5>1
      <4>5. CASE handler[h].until # 0
        BY <1>7, <4>1, <4>5
      <4> QED  BY <4>4, <4>5
    <3> QED  BY <3>1, <3>2
  <2>2. ASSUME NEW c \in Buckets, NEW i \in DOMAIN slots'[c], slots'[c][i] # 0
        PROVE  /\ slots'[c][i] \in Handlers
               /\ handler'[slots'[c][i]].bucket = c /\ handler'[slots'[c][i]].slot = i
    <3>1. /\ i \in DOMAIN slots[c] /\ slots'[c][i] = slots[c][i] /\ slots[c][i] \in Handlers
          /\ handler[slots[c][i]].bucket = c /\ handler[slots[c][i]].slot = i
      BY <1>1, <1>7, <2>2 DEF SlotsOwned
    <3>2. \A h \in Handlers : handler'[h].bucket = handler[h].bucket /\ handler'[h].slot = handler[h].slot
      BY <1>3, <1>6 DEF b, k
    <3> QED  BY <3>1, <3>2
  <2> QED  BY <1>6, <2>1, <2>2 DEF SlotsOwned
<1>10. CallsDue'
  <2>1. ASSUME NEW i \in DOMAIN vm.calls, vm.calls[i] # 0
        PROVE  /\ vm.calls[i] \in Handlers /\ handler'[vm.calls[i]].bucket = Current.kind
               /\ handler'[vm.calls[i]].from <= Len(log)
               /\ (handler'[vm.calls[i]].until = 0 \/ handler'[vm.calls[i]].until > Len(log))
    <3> DEFINE h == vm.calls[i]
    <3>1. /\ h \in Handlers /\ handler[h].bucket = Current.kind /\ handler[h].from <= Len(log)
          /\ (handler[h].until = 0 \/ handler[h].until > Len(log))
      BY <1>1, <2>1 DEF CallsDue
    <3> HIDE DEF h
    <3>2. CASE h # g
      BY <1>6, <3>1, <3>2 DEF h
    <3>3. CASE h = g
      <4>1. vm.calls # <<>> /\ NextHeard = Len(log) + 1
        BY <1>1, HeardSoFar DEF CallsDue
      <4>2. u > Len(log)
        BY <1>1, <3>1, <3>3, <4>1 DEF u
      <4> QED  BY <1>3, <1>6, <3>1, <3>3, <4>2 DEF b, h
    <3> QED  BY <3>2, <3>3
  <2> QED  BY <1>1, <1>4, <1>6, <2>1 DEF CallsDue, Current
<1>11. ASSUME NEW h \in Handlers PROVE HeardExactly(h)'
  <2>1. /\ NextHeard' = NextHeard /\ (ToCall(h)' <=> ToCall(h)) /\ HeardExactly(h)
        /\ handler[h].from \in Nat \ {0} /\ handler[h].until \in Nat
    BY <1>1, <1>4, HandlerTypes DEF NextHeard, ToCall, HandlerInv
  <2>2. /\ handler'[h].from = handler[h].from /\ handler'[h].bucket = handler[h].bucket
        /\ handler'[h].heard = handler[h].heard
        /\ handler'[h].until = IF h = g THEN u ELSE handler[h].until
    BY <1>3, <1>6 DEF b
  <2>3. LastDue(h)' = LastDue(h) /\ handler'[h].until <= NextHeard
    BY <1>1, <1>2, <2>1, <2>2 DEF LastDue, HeardExactly, u
  <2>4. \A n \in Nat : Due(h, n)' <=> Due(h, n)
    BY <1>4, <2>1, <2>2, <2>3 DEF Due
  <2> QED  BY <2>1, <2>2, <2>3, <2>4 DEF HeardExactly
<1> QED  BY <1>6, <1>8, <1>9, <1>10, <1>11 DEF HandlerInv

\* An event task begins.
LEMMA BeginsStep ==
    ASSUME IInv, IInv', HandlerInv, RunEvent
    PROVE  HandlerInv'
<1> DEFINE e == Head(queue).event
<1>1. e \in Event /\ e.kind \in Buckets
  <2>1. Head(queue) \in Task /\ Head(queue).kind = "event"
    BY TailKeeps DEF RunEvent, Ready, IInv
  <2> QED  BY <2>1, EventAssumption DEF Task
<1>2. /\ vm.at = "idle" /\ log' = Append(log, e) /\ UNCHANGED handlerVars
      /\ IF e.kind = "ui" THEN vm' = CallHandlers("ui")
         ELSE vm' = [Idle EXCEPT !.at = "waiters", !.todo = Pending]
  BY DEF RunEvent, Ready
<1> HIDE DEF e
<1>3. /\ Len(log) \in Nat /\ Len(log') = Len(log) + 1 /\ log'[Len(log) + 1] = e /\ log' # <<>>
      /\ \A n \in 1 .. Len(log) : log'[n] = log[n]
  BY <1>1, <1>2, AppendProperties, LenProperties DEF IInv, Typed
<1>4. vm.calls = <<>> /\ NextHeard = Len(log) + 1
  BY <1>2, HeardSoFar DEF HandlerInv, CallsDue
<1>5. CASE e.kind = "ui"
  <2>1. "ui" \in Buckets /\ NextHeard = Len(log') /\ log'[Len(log')].kind = "ui"
    BY <1>3, <1>4, <1>5 DEF Buckets
  <2> QED  BY <1>2, <1>3, <1>4, <1>5, <2>1, HandlersCopied
<1>6. CASE e.kind # "ui"
  <2>1. vm'.at = "waiters" /\ vm'.calls = <<>> /\ Current'.kind \in Kinds
    BY <1>1, <1>2, <1>3, <1>6 DEF Idle, Current, Buckets
  <2>2. NextHeard' = NextHeard
    BY <1>3, <1>4, <2>1 DEF NextHeard
  <2>3. HandlerTyped' /\ SlotsOwned' /\ \A h \in Handlers' : HeardExactly(h)'
    BY <1>2, <1>3, <1>4, <2>1, <2>2, HeardStays
  <2>4. CallsDue'
    BY <1>3, <2>1 DEF CallsDue
  <2> QED  BY <2>3, <2>4 DEF HandlerInv
<1> QED  BY <1>5, <1>6

\* A task reaches the handlers of its event.
LEMMA ReachesStep ==
    ASSUME IInv, IInv', HandlerInv, vm.at \in {"waiters", "policy"}, UNCHANGED <<log, handlerVars>>,
           vm' = CallHandlers(Current.kind)
    PROVE  HandlerInv'
<1>1. vm.calls = <<>> /\ log # <<>> /\ Current.kind \in Buckets
  BY DEF HandlerInv, CallsDue, Buckets, Kinds
<1>2. NextHeard = Len(log)
  BY HeardSoFar
<1> QED  BY <1>1, <1>2, HandlersCopied DEF Current

LEMMA HandlersRest ==
    ASSUME IInv, IInv', HandlerInv, UNCHANGED <<log, handlerVars>>, vm'.calls = vm.calls,
           \/ vm'.at = vm.at
           \/ vm.at = "waiters" /\ vm'.at = "policy" /\ Current.kind = "request"
           \/ vm.at \in {"idle", "handlers", "script"} /\ vm.calls = <<>> /\ vm'.at \in {"idle", "script"}
    PROVE  HandlerInv'
<1>1. NextHeard' = NextHeard
  BY DEF NextHeard
<1>2. HandlerTyped' /\ SlotsOwned' /\ \A h \in Handlers' : HeardExactly(h)'
  BY <1>1, HeardStays
<1>3. CallsDue'
  BY DEF HandlerInv, CallsDue, Current, handlerVars, Handlers
<1> QED  BY <1>2, <1>3 DEF HandlerInv

LEMMA HandlerNext == ASSUME IInv, IInv', HandlerInv, [Next]_vars PROVE HandlerInv'
<1>1. CASE UNCHANGED <<log, vm, handlerVars>>
  BY <1>1, HandlersRest
<1>2. CASE RunEvent
  BY <1>2, BeginsStep
<1>3. ASSUME NEW w \in Waiters, Offer(w) PROVE HandlerInv'
  <2>1. vm = [at |-> vm.at, todo |-> vm.todo, calls |-> vm.calls]
    BY DEF IInv, Typed
  <2>2. vm'.at = vm.at /\ vm'.calls = vm.calls /\ UNCHANGED <<log, handlerVars>>
    BY <1>3, <2>1 DEF Offer, eventVars
  <2> QED  BY <2>2, HandlersRest
<1>4. CASE WaitersDone
  <2>1. UNCHANGED <<log, handlerVars>> /\ vm.at = "waiters"
    BY <1>4 DEF WaitersDone, eventVars
  <2>2. CASE Current.kind = "request"
    <3>1. vm = [at |-> vm.at, todo |-> vm.todo, calls |-> vm.calls]
      BY DEF IInv, Typed
    <3>2. vm'.at = "policy" /\ vm'.calls = vm.calls
      BY <1>4, <2>2, <3>1 DEF WaitersDone
    <3> QED  BY <2>1, <2>2, <3>2, HandlersRest
  <2>3. CASE Current.kind # "request"
    <3>1. Current.kind = "notification"
      BY <2>1, <2>3 DEF HandlerInv, CallsDue, Kinds
    <3> QED  BY <1>4, <2>1, <2>3, <3>1, ReachesStep DEF WaitersDone
  <2> QED  BY <2>2, <2>3
<1>5. CASE ApplyPolicy
  <2>1. UNCHANGED <<log, handlerVars>> /\ vm.at = "policy" /\ Current.kind = "request" /\ vm' = CallHandlers("request")
    BY <1>5 DEF ApplyPolicy, eventVars, HandlerInv, CallsDue
  <2> QED  BY <2>1, ReachesStep
<1>6. CASE CallHandler
  BY <1>6, CallStep
<1>7. CASE HandlersDone
  <2>1. UNCHANGED <<log, handlerVars>> /\ vm.at = "handlers" /\ vm.calls = <<>> /\ vm'.at = "idle" /\ vm'.calls = <<>>
    BY <1>7 DEF HandlersDone, eventVars, Idle
  <2> QED  BY <2>1, HandlersRest
<1>8. CASE \E b \in {e.kind : e \in Event} : RegisterHandler(b)
  BY <1>8, RegisterStep, EventAssumption
<1>9. CASE \E h \in Handlers : RemoveHandler(h)
  BY <1>9, RemoveStep
<1>10. \/ UNCHANGED <<log, vm, handlerVars>>
       \/ RunEvent \/ (\E w \in Waiters : Offer(w)) \/ WaitersDone \/ ApplyPolicy \/ CallHandler \/ HandlersDone
       \/ (\E b \in {e.kind : e \in Event} : RegisterHandler(b)) \/ (\E h \in Handlers : RemoveHandler(h))
  BY DEF Next, vars, eventVars, Emit, TimerFires, RequestReturns, Shutdown, Stop, LoopStep,
         RunTimeout, RunResolve, ScriptStep, WaitFor, StartRequest, SetPolicy, ClearPolicy,
         ResetMetrics, DecisionSettles, ThenableCallsBack, ScriptResponds
<1> QED  BY <1>1, <1>2, <1>3, <1>4, <1>5, <1>6, <1>7, <1>8, <1>9, <1>10

LEMMA InitHandlers == Init => HandlerInv
<1> SUFFICES ASSUME Init PROVE HandlerInv
  OBVIOUS
<1>1. /\ vm = Idle /\ vm.at = "idle" /\ vm.calls = <<>> /\ handler = <<>> /\ Handlers = {}
      /\ slots \in [Buckets -> Seq(Nat)] /\ \A b \in Buckets : slots[b] = <<>>
  BY DEF Init, Idle, Handlers
<1>2. <<>> \in Seq(HandlerRecord) /\ <<>> \in Seq(Nat) /\ DOMAIN <<>> = {}
  OBVIOUS
<1> QED  BY <1>1, <1>2 DEF HandlerInv, HandlerTyped, SlotsOwned, CallsDue

\* Each handler has heard every event of its kind between its registration and
\* its removal, once and in order, whatever handlers are added or removed while
\* an event is dispatched (registerHandler, EmitRPCNotification, EmitRPCRequest).
THEOREM HandlersHear == Spec => []HandlersHearAll
<1>1. IInv /\ HandlerInv => HandlersHearAll
  <2> SUFFICES ASSUME IInv, HandlerInv, NEW h \in Handlers
               PROVE  LET x == handler[h]
                          last == IF x.until > 0 THEN x.until - 1 ELSE NextHeard - 1
                          due == {n \in x.from .. last : log[n].kind = x.bucket}
                      IN /\ ToSet(x.heard) = IF h \in ToSet(vm.calls) THEN due \ {Len(log)} ELSE due
                         /\ \A i, j \in DOMAIN x.heard : i < j => x.heard[i] < x.heard[j]
    BY DEF HandlersHearAll
  <2> DEFINE s == handler[h].heard
             due == {n \in handler[h].from .. LastDue(h) : log[n].kind = handler[h].bucket}
             all == IF h \in ToSet(vm.calls) THEN due \ {Len(log)} ELSE due
  <2>1. /\ HeardExactly(h) /\ s \in Seq(Nat) /\ handler[h].from \in Nat \ {0} /\ handler[h].until \in Nat
        /\ NextHeard \in Nat
    BY HandlerTypes, HeardSoFar DEF HandlerInv
  <2>2. LastDue(h) \in Int
    BY <2>1 DEF LastDue
  <2>3. h \in ToSet(vm.calls) <=> ToCall(h)
    BY DEF ToSet, ToCall
  <2>4. \A n \in all : n \in Nat /\ Due(h, n)
    BY <2>1, <2>2, <2>3 DEF Due
  <2>5. \A n \in Nat : Due(h, n) => n \in all
    BY <2>1, <2>2, <2>3 DEF Due
  <2>6. \A n \in ToSet(s) : n \in Nat /\ \E i \in DOMAIN s : s[i] = n
    BY <2>1 DEF ToSet
  <2>7. \A n : (\E i \in DOMAIN s : s[i] = n) => n \in ToSet(s)
    BY DEF ToSet
  <2>8. ToSet(s) = all
    <3> HIDE DEF all
    <3>1. \A n \in ToSet(s) : n \in all
      BY <2>1, <2>5, <2>6 DEF HeardExactly
    <3>2. \A n \in all : n \in ToSet(s)
      BY <2>1, <2>4, <2>7 DEF HeardExactly
    <3> QED  BY <3>1, <3>2
  <2>9. \A i, j \in DOMAIN s : i < j => s[i] < s[j]
    BY <2>1 DEF HeardExactly
  <2> QED  BY <2>8, <2>9 DEF LastDue
<1>2. Init => IInv
  BY InitInv
<1>3. IInv /\ HandlerInv /\ [Next]_vars => IInv' /\ HandlerInv'
  BY NextInv, HandlerNext
<1> QED  BY <1>1, <1>2, <1>3, InitHandlers, PTL DEF Spec

-----------------------------------------------------------------------------
(* The types of the rest.                                                  *)

\* Policies are numbered as they are set; only requests are answered.
RestInv ==
    /\ {accepting, running, inForce} \subseteq BOOLEAN
    /\ vm.at \in {"idle", "waiters", "policy", "handlers", "script"}
    /\ policy \in 0 .. epoch /\ epoch \in 0 .. MaxPolicies
    /\ received \in 0 .. MaxEvents
    /\ counts \in [Methods -> Nat] /\ totals \in [Kinds -> Nat]
    /\ attached \in Attached(RequestIDs)
    /\ responses \in Seq(Answer) /\ \A k \in DOMAIN responses : responses[k].id \in RequestIDs

LEMMA RequestsStay ==
    ASSUME IInv, [Next]_vars
    PROVE  RequestIDs \subseteq RequestIDs'
<1>1. log \in Seq(Event)
  BY DEF IInv, Typed
<1>2. CASE UNCHANGED log
  BY <1>2 DEF RequestIDs
<1>3. CASE RunEvent
  <2>1. PICK e \in Event : log' = Append(log, e)
    <3>1. log' = Append(log, Head(queue).event) /\ Head(queue) \in Task /\ Head(queue).kind = "event"
      BY <1>3 DEF RunEvent, Ready, IInv, Typed
    <3>2. Head(queue).event \in Event
      BY <3>1 DEF Task
    <3> QED  BY <3>1, <3>2
  <2>2. /\ Len(log) \in Nat /\ Len(log') = Len(log) + 1 /\ \A n \in 1 .. Len(log) : log'[n] = log[n]
    BY <1>1, <2>1
  <2> QED  BY <2>2 DEF RequestIDs
<1>4. UNCHANGED log \/ RunEvent
  BY DEF Next, vars, eventVars, Emit, TimerFires, RequestReturns, Shutdown, Stop, LoopStep,
         RunTimeout, RunResolve, Offer, WaitersDone, ApplyPolicy, CallHandler,
         HandlersDone, ScriptStep, WaitFor, StartRequest, ResetMetrics, SetPolicy, ClearPolicy, DecisionSettles,
         ThenableCallsBack, ScriptResponds, RegisterHandler, RemoveHandler, RemovedFrom
<1> QED  BY <1>2, <1>3, <1>4

LEMMA AnswersTyped ==
    ASSUME IInv, HandlerInv, RestInv, [Next]_vars
    PROVE  /\ attached' \in Attached(RequestIDs')
           /\ responses' \in Seq(Answer) /\ \A k \in DOMAIN responses' : responses'[k].id \in RequestIDs'
<1>1. /\ attached \in Attached(RequestIDs) /\ responses \in Seq(Answer)
      /\ \A k \in DOMAIN responses : responses[k].id \in RequestIDs
      /\ RequestIDs \subseteq RequestIDs' /\ Len(log) \in Nat
  BY RequestsStay DEF RestInv, IInv, Typed
<1>2. ASSUME NEW n \in RequestIDs, NEW who \in {"policy", "script"}, Respond(n, who)
      PROVE  responses' \in Seq(Answer) /\ \A k \in DOMAIN responses' : responses'[k].id \in RequestIDs'
  <2> DEFINE a == [id |-> n, by |-> who]
  <2>1. n \in Nat
    BY DEF RequestIDs
  <2>2. a \in Answer /\ responses' = Append(responses, a) /\ a.id \in RequestIDs
    BY <1>2, <2>1 DEF Answer, Respond
  <2> HIDE DEF a
  <2>3. /\ responses' \in Seq(Answer)
        /\ \A k \in DOMAIN responses' :
             \/ k \in DOMAIN responses /\ responses'[k] = responses[k]
             \/ responses'[k] = a
    BY <1>1, <2>2
  <2> QED  BY <1>1, <2>2, <2>3
<1>7. attached \in Attached(RequestIDs')
  BY <1>1 DEF Attached
<1>3. CASE UNCHANGED <<attached, responses>>
  BY <1>1, <1>3, <1>7
<1>4. CASE ApplyPolicy
  <2>1. log # <<>> /\ Current.kind = "request" /\ vm.at = "policy"
    BY <1>4 DEF ApplyPolicy, HandlerInv, CallsDue
  <2>2. Len(log) \in RequestIDs
    <3>1. Len(log) # 0
      BY <2>1 DEF IInv, Typed
    <3> QED  BY <1>1, <2>1, <3>1 DEF RequestIDs, Current
  <2>3. UNCHANGED responses \/ Respond(Len(log), "policy")
    BY <1>4 DEF ApplyPolicy, Callback
  <2>4. UNCHANGED attached \/ \E kind \in {"promise", "thenable"} : Attach(Len(log), kind)
    BY <1>4 DEF ApplyPolicy, Callback
  <2>5. attached' \in Attached(RequestIDs')
    BY <1>1, <1>7, <2>2, <2>4, AttachKeeps
  <2> QED  BY <1>1, <1>2, <2>2, <2>3, <2>5
<1>5. ASSUME NEW n \in RequestIDs, DecisionSettles(n) \/ ThenableCallsBack(n) \/ ScriptResponds(n)
      PROVE  /\ attached' \in Attached(RequestIDs')
             /\ responses' \in Seq(Answer) /\ \A k \in DOMAIN responses' : responses'[k].id \in RequestIDs'
  <2>1. Respond(n, "policy") \/ Respond(n, "script")
    BY <1>5 DEF DecisionSettles, ThenableCallsBack, ScriptResponds
  <2>2. UNCHANGED attached \/ attached' = [attached EXCEPT !["promise"] = @ \ {n}]
    BY <1>5 DEF DecisionSettles, ThenableCallsBack, ScriptResponds
  <2>3. attached' \in Attached(RequestIDs')
    BY <1>7, <2>2 DEF Attached
  <2> QED  BY <1>1, <1>2, <2>1, <2>3
<1>6. \/ UNCHANGED <<attached, responses>> \/ ApplyPolicy
      \/ \E n \in RequestIDs : DecisionSettles(n) \/ ThenableCallsBack(n) \/ ScriptResponds(n)
  BY DEF Next, vars, Emit, TimerFires, RequestReturns, Shutdown, Stop, LoopStep,
         RunTimeout, RunResolve, RunEvent, Offer, WaitersDone, CallHandler,
         HandlersDone, ScriptStep, WaitFor, StartRequest, ResetMetrics, SetPolicy, ClearPolicy,
         RegisterHandler, RemoveHandler, RemovedFrom
<1> QED  BY <1>3, <1>4, <1>5, <1>6

LEMMA MetricsTyped ==
    ASSUME IInv, counts \in [Methods -> Nat], totals \in [Kinds -> Nat], [Next]_vars
    PROVE  counts' \in [Methods -> Nat] /\ totals' \in [Kinds -> Nat]
<1>1. CASE RunEvent
  <2>1. PICK e \in Event : e = Head(queue).event
    <3>1. Head(queue) \in Task /\ Head(queue).kind = "event"
      BY <1>1 DEF RunEvent, Ready, IInv, Typed
    <3> QED  BY <3>1 DEF Task
  <2>2. UNCHANGED <<counts, totals>> \/ (e.kind # "ui" /\ RecordEventMetrics(e))
    BY <1>1, <2>1 DEF RunEvent
  <2>3. e.method \in Methods /\ (e.kind # "ui" => e.kind \in Kinds)
    BY EventAssumption DEF Methods, Buckets
  <2> QED  BY <2>2, <2>3 DEF RecordEventMetrics
<1>2. CASE ResetMetrics
  BY <1>2 DEF ResetMetrics
<1>3. UNCHANGED <<counts, totals>> \/ RunEvent \/ ResetMetrics
  BY DEF Next, vars, eventVars, Emit, TimerFires, RequestReturns, Shutdown, Stop, LoopStep,
         RunTimeout, RunResolve, Offer, WaitersDone, ApplyPolicy, CallHandler,
         HandlersDone, ScriptStep, WaitFor, StartRequest, SetPolicy, ClearPolicy, DecisionSettles,
         ThenableCallsBack, ScriptResponds, RegisterHandler, RemoveHandler, RemovedFrom
<1> QED  BY <1>1, <1>2, <1>3

\* Where a step leaves the task being run.
LEMMA PlaceTyped ==
    ASSUME IInv, vm.at \in {"idle", "waiters", "policy", "handlers", "script"}, [Next]_vars
    PROVE  vm'.at \in {"idle", "waiters", "policy", "handlers", "script"}
<1>1. vm = [at |-> vm.at, todo |-> vm.todo, calls |-> vm.calls]
  BY DEF IInv, Typed
<1>2. CASE (\E w \in Waiters : Offer(w)) \/ CallHandler
  <2>1. vm'.at = vm.at
    BY <1>1, <1>2 DEF Offer, CallHandler
  <2> QED  BY <2>1
<1>3. CASE RunEvent \/ WaitersDone \/ ApplyPolicy \/ HandlersDone
  <2>1. \A b : CallHandlers(b).at = "handlers"
    BY DEF CallHandlers
  <2>2. [Idle EXCEPT !.at = "waiters", !.todo = Pending].at = "waiters" /\ Idle.at = "idle"
    BY DEF Idle
  <2>3. [vm EXCEPT !.at = "policy"].at = "policy"
    BY <1>1
  <2> QED  BY <1>3, <2>1, <2>2, <2>3 DEF RunEvent, WaitersDone, ApplyPolicy, HandlersDone
<1>4. (\E w \in Waiters : Offer(w)) \/ CallHandler \/ RunEvent \/ WaitersDone \/ ApplyPolicy \/ HandlersDone \/ UNCHANGED vm
  BY DEF Next, vars, Emit, TimerFires, RequestReturns, Shutdown, Stop, LoopStep,
         RunTimeout, RunResolve, ScriptStep, WaitFor, StartRequest, SetPolicy, ClearPolicy,
         ResetMetrics, DecisionSettles, ThenableCallsBack, ScriptResponds, RegisterHandler, RemoveHandler, RemovedFrom
<1> QED  BY <1>2, <1>3, <1>4

LEMMA RestNext == ASSUME IInv, HandlerInv, RestInv, [Next]_vars PROVE RestInv'
<1>1. /\ accepting \in BOOLEAN /\ running \in BOOLEAN /\ inForce \in BOOLEAN
      /\ policy \in 0 .. epoch /\ epoch \in 0 .. MaxPolicies /\ received \in 0 .. MaxEvents
      /\ {MaxPolicies, MaxEvents} \subseteq Nat
  BY BoundAssumption DEF RestInv
<1>2. accepting' \in BOOLEAN /\ running' \in BOOLEAN
  <2>1. UNCHANGED <<accepting, running>> \/ Shutdown \/ Stop
    BY DEF Next, vars, Emit, TimerFires, RequestReturns, LoopStep,
         RunTimeout, RunResolve, RunEvent, Offer, WaitersDone, ApplyPolicy, CallHandler,
         HandlersDone, ScriptStep, WaitFor, StartRequest, ResetMetrics, SetPolicy, ClearPolicy, DecisionSettles,
         ThenableCallsBack, ScriptResponds, RegisterHandler, RemoveHandler, RemovedFrom
  <2> QED  BY <1>1, <2>1 DEF Shutdown, Stop
<1>3. inForce' \in BOOLEAN /\ policy' \in 0 .. epoch' /\ epoch' \in 0 .. MaxPolicies
  <2>1. CASE SetPolicy
    BY <1>1, <2>1 DEF SetPolicy
  <2>2. CASE \E k \in 0 .. epoch : ClearPolicy(k)
    <3>1. PICK k : ClearPolicy(k)
      BY <2>2
    <3>2. inForce' \in BOOLEAN
      BY <3>1 DEF ClearPolicy
    <3>3. policy' \in {0, policy} /\ epoch' = epoch
      BY <3>1 DEF ClearPolicy
    <3> QED  BY <1>1, <3>2, <3>3
  <2>3. UNCHANGED <<policy, epoch, inForce>> \/ SetPolicy \/ \E k \in 0 .. epoch : ClearPolicy(k)
    BY DEF Next, vars, policyVars, Emit, TimerFires, RequestReturns, Shutdown, Stop, LoopStep,
         RunTimeout, RunResolve, RunEvent, Offer, WaitersDone, ApplyPolicy, CallHandler,
         HandlersDone, ScriptStep, WaitFor, StartRequest, ResetMetrics, DecisionSettles,
         ThenableCallsBack, ScriptResponds, RegisterHandler, RemoveHandler, RemovedFrom
  <2> QED  BY <1>1, <2>1, <2>2, <2>3
<1>4. received' \in 0 .. MaxEvents
  <2>1. UNCHANGED received \/ (received < MaxEvents /\ received' = received + 1)
    BY DEF Next, vars, Emit, TimerFires, RequestReturns, Shutdown, Stop, LoopStep,
         RunTimeout, RunResolve, RunEvent, Offer, WaitersDone, ApplyPolicy, CallHandler,
         HandlersDone, ScriptStep, WaitFor, StartRequest, ResetMetrics, SetPolicy, ClearPolicy, DecisionSettles,
         ThenableCallsBack, ScriptResponds, RegisterHandler, RemoveHandler, RemovedFrom
  <2> QED  BY <1>1, <2>1
<1> QED  BY <1>2, <1>3, <1>4, AnswersTyped, MetricsTyped, PlaceTyped DEF RestInv

LEMMA InitRest == Init => RestInv
<1> SUFFICES ASSUME Init PROVE RestInv
  OBVIOUS
<1>1. responses = <<>> /\ <<>> \in Seq(Answer) /\ DOMAIN <<>> = {} /\ vm.at = "idle" /\ attached \in Attached(RequestIDs)
  BY DEF Init, Idle, Attached
<1>2. {accepting, running, inForce} \subseteq BOOLEAN
  BY DEF Init
<1>3. policy \in 0 .. epoch /\ epoch \in 0 .. MaxPolicies /\ received \in 0 .. MaxEvents
  BY BoundAssumption DEF Init
<1>4. counts \in [Methods -> Nat] /\ totals \in [Kinds -> Nat]
  BY DEF Init
<1> QED  BY <1>1, <1>2, <1>3, <1>4 DEF RestInv

LEMMA SeqWithin ==
    ASSUME NEW S, NEW T, NEW s \in Seq(S), \A i \in DOMAIN s : s[i] \in T
    PROVE  s \in Seq(T)
OBVIOUS

LEMMA TypesFollow == ASSUME IInv, HandlerInv, RestInv PROVE TypeOK
<1>1. /\ queue \in Seq(Task) /\ log \in Seq(Event) /\ Len(log) \in Nat /\ DOMAIN log = 1 .. Len(log)
      /\ vm.todo \subseteq Waiters /\ request \in Seq(RequestState)
  BY DEF IInv, Typed
<1>2. \A n \in DOMAIN queue : queue[n].kind \in {"event", "timeout", "resolve", "script"}
  BY <1>1 DEF Task
<1>3. \A w \in Waiters :
         /\ waiter[w].wait \in Wait
         /\ waiter[w].state \in {"pending", "resolved", "rejected", "timedOut"}
         /\ waiter[w].timer \in {"armed", "fired", "stopped"}
         /\ waiter[w].born \in 0 .. Len(log)
         /\ waiter[w].ended \in 0 .. Len(log)
  <2>1. \A w \in Waiters : waiter[w].timer \in {"armed", "fired", "stopped"}
    <3>1. \A w \in Waiters : waiter[w] \in WaiterRecord
      BY DEF IInv, Typed, Waiters
    <3> QED  BY <3>1 DEF WaiterRecord
  <2> QED  BY <1>1, <2>1, WaiterTyped
<1>4. \A q \in DOMAIN request : request[q] \in {"inFlight", "posted", "settled", "lost"}
  BY <1>1 DEF RequestState
<1>5. \A h \in Handlers : handler[h].bucket \in Buckets /\ handler[h].heard \in Seq(DOMAIN log)
  <2> SUFFICES ASSUME NEW h \in Handlers PROVE handler[h].bucket \in Buckets /\ handler[h].heard \in Seq(DOMAIN log)
    OBVIOUS
  <2>1. /\ handler[h].bucket \in Buckets /\ handler[h].from \in Nat \ {0} /\ handler[h].until \in Nat
        /\ handler[h].heard \in Seq(Nat)
    <3>1. handler[h] \in HandlerRecord
      BY DEF HandlerInv, HandlerTyped, Handlers
    <3> QED  BY <3>1 DEF HandlerRecord
  <2>2. LastDue(h) <= Len(log)
    <3>1. handler[h].until <= NextHeard /\ NextHeard <= Len(log) + 1 /\ NextHeard \in Nat
      BY <1>1 DEF HandlerInv, HeardExactly, NextHeard
    <3> QED  BY <1>1, <2>1, <3>1 DEF LastDue
  <2>3. \A i \in DOMAIN handler[h].heard : handler[h].heard[i] \in 1 .. Len(log)
    <3> SUFFICES ASSUME NEW i \in DOMAIN handler[h].heard PROVE handler[h].heard[i] \in 1 .. Len(log)
      OBVIOUS
    <3>1. handler[h].heard[i] \in Nat
      BY <2>1
    <3>2. Due(h, handler[h].heard[i])
      BY <3>1 DEF HandlerInv, HeardExactly
    <3>3. LastDue(h) \in Int
      <4>1. NextHeard \in Nat
        BY <1>1 DEF NextHeard
      <4> QED  BY <2>1, <4>1 DEF LastDue
    <3> QED  BY <1>1, <2>1, <2>2, <3>1, <3>2, <3>3 DEF Due
  <2>4. handler[h].heard \in Seq(1 .. Len(log))
    BY <2>1, <2>3, SeqWithin
  <2> QED  BY <1>1, <2>1, <2>4
<1>6. vm.calls \in Seq(Handlers \cup {0})
  <2>1. vm.calls \in Seq(Nat) /\ \A i \in DOMAIN vm.calls : vm.calls[i] \in Handlers \cup {0}
    BY DEF HandlerInv, HandlerTyped, CallsDue
  <2> QED  BY <2>1
<1>7. slots \in [Buckets -> Seq(Handlers \cup {0})]
  <2>1. \A b \in Buckets : \A i \in DOMAIN slots[b] : slots[b][i] \in Handlers \cup {0}
    BY DEF HandlerInv, SlotsOwned
  <2>2. slots \in [Buckets -> Seq(Nat)]
    BY DEF HandlerInv, HandlerTyped
  <2>3. \A b \in Buckets : slots[b] \in Seq(Handlers \cup {0})
    BY <2>1, <2>2
  <2> QED  BY <2>2, <2>3
<1>8. \A n \in DOMAIN responses : responses[n].id \in RequestIDs /\ responses[n].by \in {"policy", "script"}
  <2>1. \A n \in DOMAIN responses : responses[n] \in Answer /\ responses[n].id \in RequestIDs
    BY DEF RestInv
  <2> QED  BY <2>1 DEF Answer
<1> QED  BY <1>1, <1>2, <1>3, <1>4, <1>5, <1>6, <1>7, <1>8 DEF RestInv, TypeOK, Attached

\* Every variable of the runtime keeps its type, for any script, events and bounds
\* (the fields of moduleRuntime and what the loop holds while a task runs).
THEOREM TypesHold == Spec => []TypeOK
<1>1. IInv /\ HandlerInv /\ RestInv => TypeOK
  BY TypesFollow
<1>2. Init => IInv /\ HandlerInv /\ RestInv
  BY InitInv, InitHandlers, InitRest
<1>3. IInv /\ HandlerInv /\ RestInv /\ [Next]_vars => IInv' /\ HandlerInv' /\ RestInv'
  BY NextInv, HandlerNext, RestNext
<1> QED  BY <1>1, <1>2, <1>3, PTL DEF Spec
=============================================================================
