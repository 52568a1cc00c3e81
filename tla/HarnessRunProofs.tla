--------------------------- MODULE HarnessRunProofs ---------------------------
(***************************************************************************)
(* The command `harness run', for any script, server and flags.  Its       *)
(* steps are those of the JavaScript runtime with their inputs bound, and  *)
(* the tasks that run the script; what was proved of the runtime is used   *)
(* here for the run.                                                       *)
(***************************************************************************)
EXTENDS HarnessRun, JsRuntimeProofs

-----------------------------------------------------------------------------
(* The steps of the runtime within the run.                                *)

\* What the server sent, and how far the read loop is.
WireInv ==
    /\ output \in Seq(Message)
    /\ \A k \in DOMAIN output : IsEvent(output[k]) => output[k].event \in Event
    /\ consumed \in 0 .. Len(output)
    /\ asked \subseteq DOMAIN request /\ asked \subseteq 1 .. MaxRequests
    /\ heard \in Seq(1 .. consumed)

\* The events the read loop hands over are some the runtime may be given.
LEMMA RunStep ==
    ASSUME WireInv, [RunNext]_runVars
    PROVE  [Next]_vars \/ RunString \/ RunScript \/ ScriptEnds
<1>1. CASE UNCHANGED vars
  BY <1>1
<1>2. CASE ReadNext
  <2> DEFINE m == output[consumed + 1]
  <2>1. consumed + 1 \in DOMAIN output /\ (IF Takes(m) THEN Emit(m.event) ELSE UNCHANGED vars)
    BY <1>2 DEF ReadNext, WireInv
  <2>2. Takes(m) => m.event \in Event
    BY <2>1 DEF WireInv, Takes, IsEvent
  <2> QED  BY <2>1, <2>2 DEF Next
<1>3. CASE Tasks \/ CloseRuntime
  BY <1>3 DEF Tasks, CloseRuntime, Next
<1>4. CASE ScriptCalls
  BY <1>4 DEF ScriptCalls, Next, ScriptStep
<1>5. ASSUME NEW q \in 1 .. MaxRequests, RequestEnds(q) PROVE [Next]_vars
  <2>1. RequestReturns(q) /\ q \in DOMAIN request
    BY <1>5 DEF RequestEnds, RequestReturns
  <2> QED  BY <2>1 DEF Next
<1>6. \/ UNCHANGED vars \/ ReadNext \/ Tasks \/ CloseRuntime \/ ScriptCalls \/ RunString \/ RunScript \/ ScriptEnds
      \/ \E q \in 1 .. MaxRequests : RequestEnds(q)
  <2>1. (\E ok \in {"ok", "notOk"} : UIEmit(ok)) \/ (\E q \in 1 .. MaxRequests : SendRequest(q)) \/ Server => UNCHANGED vars
    BY DEF UIEmit, SendRequest, Server, ServerSends
  <2>2. Command => UNCHANGED vars \/ CloseRuntime \/ RunString
    BY DEF Command, Connect, OnNotification, OnRequest, UIEventMatches, UITimeout, SettleEnds, Unsubscribe, CloseClient
  <2>3. UNCHANGED runVars => UNCHANGED vars
    BY DEF runVars
  <2> QED  BY <2>1, <2>2, <2>3 DEF RunNext
<1> QED  BY <1>1, <1>2, <1>3, <1>4, <1>5, <1>6

\* The tasks that run the script keep what was proved of the runtime.
LEMMA ScriptTask ==
    ASSUME IInv, HandlerInv, RunString \/ RunScript \/ ScriptEnds
    PROVE  IInv' /\ HandlerInv'
<1>1. CASE RunString
  <2>1. /\ UNCHANGED <<accepting, vm, waiter, log, request, handlerVars>>
        /\ queue' = queue \/ Post([kind |-> "script"])
    BY <1>1 DEF RunString, eventVars
  <2>2. [kind |-> "script"] \in Task
    BY DEF Task
  <2>3. CASE Post([kind |-> "script"])
    <3>1. IInv'
      BY <2>1, <2>2, <2>3, PostQuiet DEF IInv, Typed
    <3> QED  BY <2>1, <3>1, HandlersRest
  <2>4. CASE queue' = queue
    <3>1. UNCHANGED <<queue, accepting, vm, waiter, log, request, handlerVars>>
      BY <2>1, <2>4
    <3>2. Typed' /\ Frame
      BY <3>1 DEF IInv, Typed, Waiters, WaitInv, SnapshotInv, Frame, Queued
    <3>3. IInv'
      BY <3>2, FrameKeeps DEF IInv
    <3> QED  BY <3>1, <3>3, HandlersRest
  <2> QED  BY <2>1, <2>3, <2>4
<1>2. CASE RunScript
  <2>1. /\ UNCHANGED <<accepting, waiter, log, request, handlerVars>>
        /\ vm.at = "idle" /\ vm' = [at |-> "script", todo |-> {}, calls |-> <<>>]
        /\ queue # <<>> /\ queue' = Tail(queue) /\ Head(queue).kind = "script"
    BY <1>2 DEF RunScript, Ready, eventVars
  <2>2. vm.todo = {} /\ vm.calls = <<>> /\ \A w : TimeoutTask(w) # Head(queue)
    BY <2>1 DEF IInv, WaitInv, SnapshotInv, HandlerInv, CallsDue, TimeoutTask
  <2>3. Typed' /\ Frame
    BY <2>1, <2>2, TailKeeps DEF IInv, Typed, Frame, Waiters
  <2>4. IInv'
    BY <2>3, FrameKeeps DEF IInv
  <2> QED  BY <2>1, <2>2, <2>4, HandlersRest
<1>3. CASE ScriptEnds
  <2>1. /\ UNCHANGED <<queue, accepting, waiter, log, request, handlerVars>>
        /\ vm.at = "script" /\ vm' = [at |-> "idle", todo |-> {}, calls |-> <<>>]
    BY <1>3 DEF ScriptEnds, eventVars, Idle
  <2>2. vm.todo = {} /\ vm.calls = <<>>
    BY <2>1 DEF IInv, WaitInv, SnapshotInv, HandlerInv, CallsDue
  <2>3. Typed' /\ Frame
    BY <2>1, <2>2 DEF IInv, Typed, Frame, Waiters, Queued
  <2>4. IInv'
    BY <2>3, FrameKeeps DEF IInv
  <2> QED  BY <2>1, <2>2, <2>4, HandlersRest
<1> QED  BY <1>1, <1>2, <1>3

LEMMA RuntimeKept ==
    ASSUME IInv, HandlerInv, WireInv, [RunNext]_runVars
    PROVE  IInv' /\ HandlerInv'
BY RunStep, ScriptTask, NextInv, HandlerNext

\* What a step does to the requests of the script.
LEMMA Requested ==
    ASSUME WireInv, [RunNext]_runVars
    PROVE  \/ DOMAIN request' = DOMAIN request
           \/ /\ scripted /\ Len(request) < MaxRequests /\ request' = Append(request, "inFlight")
              /\ UNCHANGED <<asked, output, consumed, heard, waiter>>
<1>1. CASE ScriptCalls
  BY <1>1 DEF ScriptCalls, WaitFor, StartRequest, wireVars
<1>2. ASSUME NEW q \in 1 .. MaxRequests, RequestEnds(q) PROVE DOMAIN request' = DOMAIN request
  BY <1>2 DEF RequestEnds, RequestReturns
<1>3. CASE Tasks
  BY <1>3 DEF Tasks, LoopStep, TimerFires, RunTimeout, RunResolve, RunEvent, Offer, WaitersDone, ApplyPolicy,
              CallHandler, HandlersDone
<1>4. \/ UNCHANGED request \/ ScriptCalls \/ (\E q \in 1 .. MaxRequests : RequestEnds(q)) \/ Tasks
  BY DEF RunNext, runVars, Command, Connect, OnNotification, OnRequest, RunString, RunScript, ScriptEnds,
         UIEventMatches, UITimeout, SettleEnds, Unsubscribe, CloseRuntime, Shutdown, Stop, CloseClient,
         UIEmit, SendRequest, ReadNext, Emit, Server, ServerSends, vars
<1> QED  BY <1>1, <1>2, <1>3, <1>4

\* What a step does to the queue and to the events dispatched and heard.
LEMMA RunLog ==
    ASSUME IInv, WireInv, [RunNext]_runVars
    PROVE  \/ UNCHANGED <<log, queue, heard>>
           \/ RunString
           \/ UNCHANGED <<log, heard>> /\ \E t \in Task : t.kind \notin {"event", "script"} /\ Post(t)
           \/ ReadNext /\ Takes(output[consumed + 1]) /\ UNCHANGED log
           \/ /\ UNCHANGED <<log, heard>>
              /\ queue # <<>> /\ queue' = Tail(queue) /\ Head(queue).kind # "event"
           \/ RunEvent /\ UNCHANGED heard
<1>1. CASE ReadNext
  BY <1>1 DEF ReadNext, Emit, eventVars, vars
<1>2. CASE RunScript
  BY <1>2 DEF RunScript, Ready, wireVars, eventVars
<1>3. CASE Tasks
  <2>1. UNCHANGED heard
    BY <1>3 DEF Tasks, wireVars
  <2>2. ASSUME NEW w \in Waiters, TimerFires(w)
        PROVE  UNCHANGED log /\ TimeoutTask(w) \in Task /\ TimeoutTask(w).kind = "timeout" /\ Post(TimeoutTask(w))
    <3>1. w \in Nat
      BY DEF Waiters, IInv, Typed
    <3> QED  BY <2>2, <3>1 DEF TimerFires, eventVars, TimeoutTask, Task
  <2>3. CASE RunTimeout \/ RunResolve
    BY <2>1, <2>3 DEF RunTimeout, RunResolve, Ready, eventVars
  <2>4. CASE (\E w \in Waiters : Offer(w)) \/ WaitersDone \/ ApplyPolicy \/ CallHandler \/ HandlersDone
    BY <2>1, <2>4 DEF Offer, WaitersDone, ApplyPolicy, CallHandler, HandlersDone, eventVars
  <2> QED  BY <1>3, <2>1, <2>2, <2>3, <2>4 DEF Tasks, LoopStep
<1>4. ASSUME NEW q \in 1 .. MaxRequests, RequestEnds(q)
      PROVE  UNCHANGED <<log, heard>> /\ \E t \in Task : t.kind \notin {"event", "script"} /\ Post(t)
  <2>1. q \in Nat /\ Post(ResolveTask(q)) /\ UNCHANGED <<log, heard>>
    BY <1>4 DEF RequestEnds, RequestReturns, wireVars, eventVars
  <2>2. ResolveTask(q) \in Task /\ ResolveTask(q).kind = "resolve"
    BY <2>1 DEF ResolveTask, Task
  <2> QED  BY <2>1, <2>2
<1>5. CASE ScriptCalls
  BY <1>5 DEF ScriptCalls, WaitFor, StartRequest, wireVars, eventVars
<1>6. CASE CloseRuntime \/ ScriptEnds
  BY <1>6 DEF CloseRuntime, Shutdown, Stop, ScriptEnds, wireVars, eventVars
<1>7. \/ UNCHANGED <<log, queue, heard>> \/ RunString \/ ReadNext \/ RunScript \/ Tasks
      \/ (\E q \in 1 .. MaxRequests : RequestEnds(q)) \/ ScriptCalls \/ CloseRuntime \/ ScriptEnds
  BY DEF RunNext, runVars, wireVars, Command, Connect, OnNotification, OnRequest,
         UIEventMatches, UITimeout, SettleEnds, Unsubscribe, CloseClient,
         UIEmit, SendRequest, Server, ServerSends, vars, eventVars
<1> QED  BY <1>1, <1>2, <1>3, <1>4, <1>5, <1>6, <1>7

-----------------------------------------------------------------------------
(* Where the command, the script and the subscriptions are.                *)

ScriptTasks == {i \in DOMAIN queue : queue[i].kind = "script"}

\* The text of the script is run once, while the command waits for its end; the
\* script makes no request before; the runtime hears of everything and takes
\* posts until the command leaves.
ControlInv ==
    /\ cmd \in Location
    /\ scripted => cmd \notin {"connect", "onNotification", "onRequest", "script"}
    /\ cmd # "running" => ScriptTasks = {}
    /\ vm.at = "script" => cmd = "running" /\ ScriptTasks = {}
    /\ \A i, j \in ScriptTasks : i = j
    /\ request # <<>> => scripted
    /\ Len(request) \in Nat /\ Len(request) <= MaxRequests
    /\ cmd = "onRequest" => "notification" \in subscribed
    /\ cmd \in {"script", "running", "waitUI", "settle"} => Kinds \subseteq subscribed
    /\ cmd \notin {"stop", "close", "done"} => accepting

\* Which script tasks there are after a task is posted, and after one is taken.
LEMMA ScriptPosted ==
    ASSUME IInv, NEW t \in Task, Post(t)
    PROVE  \E k : \A i \in ScriptTasks' : i \in ScriptTasks \/ (t.kind = "script" /\ i = k)
<1>1. CASE queue' = queue
  <2>1. ScriptTasks' = ScriptTasks
    BY <1>1 DEF ScriptTasks
  <2> QED  BY <2>1
<1>2. CASE queue' = Append(queue, t)
  <2> DEFINE k == Len(queue) + 1
  <2>1. /\ DOMAIN queue' = DOMAIN queue \cup {k}
        /\ queue'[k] = t /\ \A i \in DOMAIN queue : queue'[i] = queue[i]
    BY <1>2 DEF IInv, Typed
  <2> HIDE DEF k
  <2>2. \A i \in ScriptTasks' : i \in DOMAIN queue' /\ queue'[i].kind = "script"
    BY DEF ScriptTasks
  <2>3. \A i \in DOMAIN queue : queue[i].kind = "script" => i \in ScriptTasks
    BY DEF ScriptTasks
  <2>4. \A i \in ScriptTasks' : i \in ScriptTasks \/ (t.kind = "script" /\ i = k)
    BY <2>1, <2>2, <2>3
  <2> QED  BY <2>4
<1> QED  BY <1>1, <1>2 DEF Post

LEMMA ScriptTaken ==
    ASSUME IInv, queue # <<>>, queue' = Tail(queue)
    PROVE  /\ \A i \in ScriptTasks' : i \in Nat /\ i + 1 \in ScriptTasks /\ i + 1 # 1
           /\ Head(queue).kind = "script" => 1 \in ScriptTasks
<1>1. queue \in Seq(Task)
  BY DEF IInv, Typed
<1>2. /\ \A i \in DOMAIN queue' : i \in Nat /\ i + 1 \in DOMAIN queue /\ queue'[i] = queue[i + 1] /\ i + 1 # 1
      /\ 1 \in DOMAIN queue /\ queue[1] = Head(queue)
  BY <1>1
<1> QED  BY <1>2 DEF ScriptTasks

LEMMA NoScript ==
    ASSUME IInv, [Next]_vars
    PROVE  vm'.at = "script" => vm.at = "script"
<1>1. vm = [at |-> vm.at, todo |-> vm.todo, calls |-> vm.calls]
  BY DEF IInv, Typed
<1>2. CASE (\E w \in Waiters : Offer(w)) \/ CallHandler
  <2>1. vm'.at = vm.at
    BY <1>1, <1>2 DEF Offer, CallHandler
  <2> QED  BY <2>1
<1>3. CASE RunEvent \/ WaitersDone \/ ApplyPolicy \/ HandlersDone
  <2>1. \A b : CallHandlers(b).at = "handlers"
    BY DEF CallHandlers
  <2>2. [Idle EXCEPT !.at = "waiters", !.todo = Pending].at = "waiters" /\ Idle.at = "idle"
    BY DEF Idle
  <2>3. [vm EXCEPT !.at = "policy"].at = "policy"
    BY <1>1
  <2> QED  BY <1>3, <2>1, <2>2, <2>3 DEF RunEvent, WaitersDone, ApplyPolicy, HandlersDone
<1>4. CASE UNCHANGED vm
  BY <1>4
<1>5. (\E w \in Waiters : Offer(w)) \/ CallHandler \/ RunEvent \/ WaitersDone \/ ApplyPolicy \/ HandlersDone \/ UNCHANGED vm
  BY DEF Next, vars, Emit, TimerFires, RequestReturns, Shutdown, Stop, LoopStep,
         RunTimeout, RunResolve, ScriptStep, WaitFor, StartRequest, SetPolicy, ClearPolicy,
         ResetMetrics, DecisionSettles, ThenableCallsBack, ScriptResponds, RegisterHandler, RemoveHandler, RemovedFrom
<1> QED  BY <1>2, <1>3, <1>4, <1>5

\* No other step adds a task of the script or begins one.
LEMMA ScriptTasksKept ==
    ASSUME IInv, WireInv, ControlInv, [RunNext]_runVars, ~RunString, ~RunScript
    PROVE  /\ ScriptTasks = {} => ScriptTasks' = {}
           /\ \A i, j \in ScriptTasks' : i = j
           /\ vm'.at = "script" => vm.at = "script"
<1>1. \A i, j \in ScriptTasks : i = j
  BY DEF ControlInv
<1>2. ASSUME UNCHANGED queue PROVE (ScriptTasks = {} => ScriptTasks' = {}) /\ \A i, j \in ScriptTasks' : i = j
  BY <1>1, <1>2 DEF ScriptTasks
<1>3. ASSUME NEW t \in Task, t.kind # "script", Post(t)
      PROVE  (ScriptTasks = {} => ScriptTasks' = {}) /\ \A i, j \in ScriptTasks' : i = j
  <2>1. \A i \in ScriptTasks' : i \in ScriptTasks
    BY <1>3, ScriptPosted
  <2> QED  BY <1>1, <2>1
<1>4. ASSUME queue # <<>>, queue' = Tail(queue)
      PROVE  (ScriptTasks = {} => ScriptTasks' = {}) /\ \A i, j \in ScriptTasks' : i = j
  <2>1. \A i \in ScriptTasks' : i \in Nat /\ i + 1 \in ScriptTasks
    BY <1>4, ScriptTaken
  <2>2. ASSUME NEW i \in ScriptTasks', NEW j \in ScriptTasks' PROVE i = j
    <3>1. i \in Nat /\ j \in Nat /\ i + 1 = j + 1
      BY <1>1, <2>1
    <3> QED  BY <3>1
  <2> QED  BY <2>1, <2>2
<1>5. ASSUME ReadNext, Takes(output[consumed + 1]) PROVE \E t \in Task : t.kind # "script" /\ Post(t)
  <2> DEFINE m == output[consumed + 1]
  <2>1. consumed + 1 \in DOMAIN output /\ Emit(m.event)
    BY <1>5 DEF ReadNext, WireInv
  <2>2. m.event \in Event
    BY <1>5, <2>1 DEF WireInv, Takes, IsEvent
  <2>3. EventTask(m.event) \in Task /\ EventTask(m.event).kind # "script" /\ Post(EventTask(m.event))
    BY <2>1, <2>2 DEF EventTask, Task, Emit
  <2> QED  BY <2>3
<1>6. RunEvent => queue # <<>> /\ queue' = Tail(queue)
  BY DEF RunEvent, Ready
<1>7. (ScriptTasks = {} => ScriptTasks' = {}) /\ \A i, j \in ScriptTasks' : i = j
  BY RunLog, <1>2, <1>3, <1>4, <1>5, <1>6
<1>8. vm'.at = "script" => vm.at = "script"
  <2>1. ScriptEnds => vm'.at = "idle"
    BY DEF ScriptEnds, Idle
  <2> QED  BY <2>1, RunStep, NoScript
<1> QED  BY <1>7, <1>8

LEMMA ControlNext ==
    ASSUME IInv, WireInv, ControlInv, [RunNext]_runVars
    PROVE  ControlInv'
<1>1. /\ cmd \in Location
      /\ scripted => cmd \notin {"connect", "onNotification", "onRequest", "script"}
      /\ cmd # "running" => ScriptTasks = {}
      /\ vm.at = "script" => cmd = "running" /\ ScriptTasks = {}
      /\ \A i, j \in ScriptTasks : i = j
      /\ request # <<>> => scripted
      /\ Len(request) \in Nat /\ Len(request) <= MaxRequests
      /\ cmd = "onRequest" => "notification" \in subscribed
      /\ cmd \in {"script", "running", "waitUI", "settle"} => Kinds \subseteq subscribed
      /\ cmd \notin {"stop", "close", "done"} => accepting
  BY DEF ControlInv
<1>2. request \in Seq(RequestState) /\ request' \in Seq(RequestState)
  <2>1. RunString \/ RunScript \/ ScriptEnds => UNCHANGED request
    BY DEF RunString, RunScript, ScriptEnds
  <2> QED  BY <2>1, RunStep, NextInv DEF IInv, Typed
<1>3. /\ request' # <<>> => scripted
      /\ Len(request') \in Nat /\ Len(request') <= MaxRequests
  <2>1. CASE DOMAIN request' = DOMAIN request
    <3>1. Len(request') = Len(request) /\ (request' = <<>> <=> request = <<>>)
      BY <1>2, <2>1, LenProperties, EmptySeq
    <3> QED  BY <1>1, <1>2, <3>1
  <2>2. CASE scripted /\ Len(request) < MaxRequests /\ request' = Append(request, "inFlight")
    <3>1. Len(request') = Len(request) + 1
      BY <1>2, <2>2, AppendProperties DEF RequestState
    <3>2. MaxRequests \in Nat
      BY BoundAssumption
    <3> QED  BY <1>1, <2>2, <3>1, <3>2
  <2> QED  BY Requested, <2>1, <2>2
<1>4. CASE RunString
  <2>1. /\ cmd = "script" /\ UNCHANGED <<scripted, subscribed, accepting, vm, request>>
        /\ \/ cmd' = "running" /\ Post([kind |-> "script"])
           \/ cmd' = "unsubscribe" /\ UNCHANGED queue
    BY <1>4 DEF RunString, Goes, Quits, uiVars
  <2>2. ScriptTasks = {} /\ vm.at # "script" /\ ~scripted /\ accepting
    BY <1>1, <2>1
  <2>3. [kind |-> "script"] \in Task
    BY DEF Task
  <2>4. (\A i, j \in ScriptTasks' : i = j) /\ (cmd' = "unsubscribe" => ScriptTasks' = {})
    <3>1. CASE cmd' = "running"
      <4>1. PICK k : \A i \in ScriptTasks' : i \in ScriptTasks \/ i = k
        BY <2>1, <2>3, <3>1, ScriptPosted
      <4> QED  BY <2>2, <3>1, <4>1
    <3>2. CASE cmd' = "unsubscribe"
      <4>1. ScriptTasks' = ScriptTasks
        BY <2>1, <3>2 DEF ScriptTasks
      <4> QED  BY <2>2, <4>1
    <3> QED  BY <2>1, <3>1, <3>2
  <2> QED  BY <1>1, <1>3, <2>1, <2>2, <2>4 DEF ControlInv, Location, Leaving
<1>5. CASE RunScript
  <2>1. /\ vm'.at = "script" /\ scripted' = TRUE /\ UNCHANGED <<cmd, subscribed, accepting, request>>
        /\ queue # <<>> /\ queue' = Tail(queue) /\ Head(queue).kind = "script"
    BY <1>5 DEF RunScript, Ready, cmdVars
  <2>2. cmd = "running" /\ ScriptTasks' = {}
    BY <1>1, <2>1, ScriptTaken
  <2> QED  BY <1>1, <1>3, <2>1, <2>2 DEF ControlInv
<1>6. CASE ~RunString /\ ~RunScript
  <2>1. /\ ScriptTasks = {} => ScriptTasks' = {}
        /\ \A i, j \in ScriptTasks' : i = j
        /\ vm'.at = "script" => vm.at = "script"
    BY <1>6, ScriptTasksKept
  <2>2. CASE UNCHANGED <<cmd, scripted, subscribed, accepting>>
    BY <1>1, <1>3, <2>1, <2>2 DEF ControlInv
  <2>3. CASE ScriptEnds
    <3>1. /\ vm.at = "script" /\ vm'.at = "idle" /\ UNCHANGED <<scripted, subscribed, accepting>>
          /\ cmd' \in {"waitUI", "settle", "unsubscribe"}
      BY <2>3 DEF ScriptEnds, Quits, uiVars, Idle
    <3> QED  BY <1>1, <1>3, <2>1, <3>1 DEF ControlInv, Location, Leaving
  <2>4. CASE Command
    <3>1. UNCHANGED <<scripted, vm, request>>
      BY <1>6, <2>4 DEF Command, Connect, OnNotification, OnRequest, UIEventMatches, UITimeout, SettleEnds,
                        Unsubscribe, CloseRuntime, Shutdown, Stop, CloseClient, uiVars, vars
    <3>2. \/ cmd = "connect" /\ cmd' \in {"onNotification", "done"} /\ UNCHANGED <<subscribed, accepting>>
          \/ cmd = "onNotification" /\ cmd' = "onRequest" /\ subscribed' = subscribed \cup {"notification"} /\ UNCHANGED accepting
          \/ cmd = "onRequest" /\ cmd' = "script" /\ subscribed' = subscribed \cup {"request"} /\ UNCHANGED accepting
          \/ cmd = "waitUI" /\ cmd' \in {"settle", "unsubscribe"} /\ UNCHANGED <<subscribed, accepting>>
          \/ cmd = "settle" /\ cmd' = "unsubscribe" /\ UNCHANGED <<subscribed, accepting>>
          \/ cmd = "unsubscribe" /\ cmd' = "shutdown" /\ UNCHANGED accepting
          \/ cmd = "shutdown" /\ cmd' = "stop"
          \/ cmd = "stop" /\ cmd' = "close"
          \/ cmd = "close" /\ cmd' = "done"
      BY <1>6, <2>4 DEF Command, Connect, OnNotification, OnRequest, UIEventMatches, UITimeout, SettleEnds,
                        Unsubscribe, CloseRuntime, CloseClient, Goes, Quits, vars
    <3>3. cmd = "onRequest" /\ subscribed' = subscribed \cup {"request"} => Kinds \subseteq subscribed'
      BY <1>1 DEF Kinds
    <3> QED  BY <1>1, <1>3, <2>1, <3>1, <3>2, <3>3 DEF ControlInv, Location, Leaving
  <2>5. UNCHANGED <<cmd, scripted, subscribed, accepting>> \/ ScriptEnds \/ Command
    BY <1>6 DEF RunNext, runVars, cmdVars, uiVars, vars, UIEmit, SendRequest, RequestEnds, RequestReturns, ReadNext, Emit,
           Server, ServerSends, ScriptCalls, WaitFor, StartRequest, Tasks, TimerFires, LoopStep, RunTimeout, RunResolve,
           RunEvent, Offer, WaitersDone, ApplyPolicy, CallHandler, HandlersDone
  <2> QED  BY <2>2, <2>3, <2>4, <2>5
<1> QED  BY <1>4, <1>5, <1>6
-----------------------------------------------------------------------------
(* The wire.                                                               *)

\* A message is sent after requests the server has received.
LEMMA Sends ==
    ASSUME WireInv, NEW m \in Message, output' = Append(output, m), IsEvent(m) => m.event \in Event,
           UNCHANGED <<asked, consumed, heard, request>>
    PROVE  WireInv'
<1>1. /\ output' \in Seq(Message) /\ Len(output') = Len(output) + 1 /\ Len(output) \in Nat
      /\ DOMAIN output' = DOMAIN output \cup {Len(output) + 1}
      /\ output'[Len(output) + 1] = m /\ \A k \in DOMAIN output : output'[k] = output[k]
  BY DEF WireInv
<1>2. \A k \in DOMAIN output' : IsEvent(output'[k]) => output'[k].event \in Event
  BY <1>1 DEF WireInv
<1>3. consumed \in 0 .. Len(output')
  BY <1>1 DEF WireInv
<1> QED  BY <1>1, <1>2, <1>3 DEF WireInv

LEMMA ServerStep ==
    ASSUME WireInv, Server
    PROVE  WireInv' /\ \E m \in Message : output' = Append(output, m) /\ m.after = asked
<1>1. asked \subseteq 1 .. MaxRequests
  BY DEF WireInv
<1>2. /\ NewRequest \in Envelope /\ NewNotification \in Envelope /\ NewResponse(TRUE) \in Envelope
      /\ ~IsRequest(NewResponse(TRUE)) /\ ~IsNotification(NewResponse(TRUE))
  BY DEF NewRequest, NewNotification, NewResponse, Envelope, IsRequest, IsNotification
<1>3. ASSUME NEW q \in asked, ServerSends(NewResponse(TRUE), q, NoObject)
      PROVE  WireInv' /\ \E m \in Message : output' = Append(output, m) /\ m.after = asked
  <2> DEFINE m == [envelope |-> NewResponse(TRUE), id |-> q, event |-> NoObject, after |-> asked]
  <2>1. MaxRequests \in Nat /\ q \in 0 .. MaxRequests
    BY <1>1, BoundAssumption
  <2>2. m \in Message
    BY <1>1, <1>2, <2>1 DEF Message
  <2>3. ~IsEvent(m) /\ m.after = asked
    BY <1>2 DEF IsEvent
  <2>4. output' = Append(output, m) /\ UNCHANGED <<asked, consumed, heard, request>>
    BY <1>3 DEF ServerSends, vars
  <2> HIDE DEF m
  <2> QED  BY <2>2, <2>3, <2>4, Sends
<1>4. ASSUME NEW e \in Event,
             ServerSends(IF e.kind = "request" THEN NewRequest ELSE NewNotification, 0, e)
      PROVE  WireInv' /\ \E m \in Message : output' = Append(output, m) /\ m.after = asked
  <2> DEFINE v == IF e.kind = "request" THEN NewRequest ELSE NewNotification
             m == [envelope |-> v, id |-> 0, event |-> e, after |-> asked]
  <2>1. MaxRequests \in Nat /\ 0 \in 0 .. MaxRequests /\ v \in Envelope
    BY <1>2, BoundAssumption
  <2>2. output' = Append(output, m) /\ UNCHANGED <<asked, consumed, heard, request>>
    BY <1>4 DEF ServerSends, vars
  <2> HIDE DEF v
  <2>3. m \in Message /\ m.event \in Event /\ m.after = asked
    BY <1>1, <2>1 DEF Message
  <2> HIDE DEF m
  <2> QED  BY <2>2, <2>3, Sends
<1> QED  BY <1>3, <1>4 DEF Server

\* The read loop takes the next message, and may hand its event to the runtime.
LEMMA Reads ==
    ASSUME WireInv, ReadNext
    PROVE  /\ consumed + 1 \in DOMAIN output /\ consumed' = consumed + 1 /\ consumed \in Nat
           /\ UNCHANGED <<output, asked>>
           /\ \/ heard' = heard /\ ~(Takes(output[consumed + 1]) /\ accepting)
              \/ heard' = Append(heard, consumed + 1) /\ Takes(output[consumed + 1]) /\ accepting
           /\ heard \in Seq(1 .. consumed + 1) /\ heard' \in Seq(1 .. consumed')
<1>1. /\ consumed < Len(output) /\ consumed' = consumed + 1 /\ UNCHANGED <<output, asked>>
      /\ consumed \in Nat /\ Len(output) \in Nat /\ DOMAIN output = 1 .. Len(output)
      /\ heard \in Seq(1 .. consumed)
  BY DEF ReadNext, WireInv
<1>2. \/ heard' = heard /\ ~(Takes(output[consumed + 1]) /\ accepting)
      \/ heard' = Append(heard, consumed + 1) /\ Takes(output[consumed + 1]) /\ accepting
  BY DEF ReadNext
<1>3. heard \in Seq(1 .. consumed + 1)
  <2>1. \A n \in DOMAIN heard : heard[n] \in 1 .. consumed + 1
    BY <1>1
  <2> QED  BY <1>1, <2>1, SeqDef
<1>4. Append(heard, consumed + 1) \in Seq(1 .. consumed + 1)
  <2>1. consumed + 1 \in 1 .. consumed + 1
    BY <1>1
  <2> QED  BY <1>3, <2>1, AppendProperties
<1>5. consumed + 1 \in DOMAIN output
  BY <1>1
<1>6. heard' \in Seq(1 .. consumed + 1)
  BY <1>2, <1>3, <1>4
<1>7. heard' \in Seq(1 .. consumed')
  BY <1>1, <1>6
<1> QED  BY <1>1, <1>2, <1>3, <1>5, <1>7

LEMMA WireNext ==
    ASSUME IInv, WireInv, [RunNext]_runVars
    PROVE  WireInv'
<1>1. DOMAIN request \subseteq DOMAIN request'
  <2>1. CASE request' = Append(request, "inFlight")
    BY <2>1, AppendProperties DEF IInv, Typed, RequestState
  <2> QED  BY <2>1, Requested
<1>2. CASE UNCHANGED <<asked, output, consumed, heard>>
  BY <1>1, <1>2 DEF WireInv
<1>3. ASSUME NEW q \in 1 .. MaxRequests, SendRequest(q) PROVE WireInv'
  <2>1. q \in DOMAIN request /\ asked' = asked \cup {q} /\ UNCHANGED <<output, consumed, heard>>
    BY <1>3 DEF SendRequest
  <2> QED  BY <1>1, <2>1 DEF WireInv
<1>4. CASE ReadNext
  <2>1. consumed' \in 0 .. Len(output)
    BY <1>4, Reads DEF WireInv
  <2> QED  BY <1>1, <1>4, <2>1, Reads DEF WireInv
<1>5. CASE Server
  BY <1>5, ServerStep
<1>6. UNCHANGED <<asked, output, consumed, heard>> \/ (\E q \in 1 .. MaxRequests : SendRequest(q)) \/ ReadNext \/ Server
  BY DEF RunNext, runVars, wireVars, Command, Connect, OnNotification, OnRequest, RunString, RunScript, ScriptEnds,
         UIEventMatches, UITimeout, SettleEnds, Unsubscribe, CloseRuntime, CloseClient, Tasks, ScriptCalls,
         UIEmit, RequestEnds
<1> QED  BY <1>2, <1>3, <1>4, <1>5, <1>6

-----------------------------------------------------------------------------
(* The invariant of the run.                                               *)

RunInv == IInv /\ HandlerInv /\ WireInv /\ ControlInv

LEMMA RunInitial == RunInit => RunInv
<1> SUFFICES ASSUME RunInit PROVE RunInv
  OBVIOUS
<1>1. IInv /\ HandlerInv
  BY InitInv, InitHandlers DEF RunInit
<1>2. WireInv
  <2>1. output = <<>> /\ consumed = 0 /\ heard = <<>> /\ asked = {}
    BY DEF RunInit
  <2>2. <<>> \in Seq(Message) /\ <<>> \in Seq(1 .. 0) /\ 0 \in 0 .. 0 /\ Len(<<>>) = 0 /\ DOMAIN <<>> = {}
    OBVIOUS
  <2> QED  BY <2>1, <2>2 DEF WireInv
<1>3. ControlInv
  <2>1. queue = <<>> /\ request = <<>> /\ vm.at = "idle" /\ accepting /\ cmd = "connect" /\ scripted = FALSE
    BY DEF RunInit, Init, Idle
  <2>2. ScriptTasks = {} /\ Len(<<>>) = 0 /\ MaxRequests \in Nat
    BY <2>1, BoundAssumption DEF ScriptTasks
  <2> QED  BY <2>1, <2>2 DEF ControlInv, Location
<1> QED  BY <1>1, <1>2, <1>3 DEF RunInv

LEMMA RunInvNext == RunInv /\ [RunNext]_runVars => RunInv'
BY RuntimeKept, WireNext, ControlNext DEF RunInv

LEMMA RunInvariant == RunSpec => []RunInv
BY RunInitial, RunInvNext, PTL DEF RunSpec
-----------------------------------------------------------------------------
(* The exit code.                                                          *)

\* Until the command has left the select, the channel holds the first event of the
\* awaited type, if there was one; the command settles only with one that lets it.
VerdictInv ==
    /\ {slot, first} \subseteq {"empty", "ok", "notOk"}
    /\ cmd \notin Leaving \cup {"settle"} => slot = first
    /\ cmd = "settle" /\ flags.wait => first # "empty" /\ (flags.fail => first = "ok")
    /\ cmd \notin Leaving => verdict = "none"
    /\ VerdictTellsFirst

LEMMA VerdictKept ==
    ASSUME VerdictInv, UNCHANGED <<flags, slot, first, verdict>>,
           cmd' \in Leaving \/ cmd \notin Leaving,
           cmd' = "settle" => cmd = "settle" \/ ~flags.wait,
           cmd = "settle" => cmd' \in Leaving \cup {"settle"}
    PROVE  VerdictInv'
BY DEF VerdictInv, VerdictTellsFirst

LEMMA VerdictNext == RunInv /\ VerdictInv /\ [RunNext]_runVars => VerdictInv'
<1> SUFFICES ASSUME RunInv, VerdictInv, [RunNext]_runVars PROVE VerdictInv'
  OBVIOUS
<1>1. CASE UNCHANGED <<flags, slot, first, verdict, cmd>>
  BY <1>1, VerdictKept
<1>2. CASE Connect
  <2>1. /\ UNCHANGED <<flags, slot, first>> /\ cmd = "connect"
        /\ \/ cmd' = "onNotification" /\ verdict' = verdict
           \/ cmd' = "done" /\ verdict' = "failed"
    BY <1>2 DEF Connect, Goes, uiVars
  <2> QED  BY <2>1 DEF VerdictInv, VerdictTellsFirst, Leaving
<1>3. CASE OnNotification \/ OnRequest \/ Unsubscribe \/ CloseRuntime \/ CloseClient
  <2>1. /\ UNCHANGED <<flags, slot, first, verdict>> /\ cmd # "settle" /\ cmd' # "settle"
        /\ cmd' \in Leaving \/ cmd \notin Leaving
    BY <1>3 DEF OnNotification, OnRequest, Unsubscribe, CloseRuntime, CloseClient, Goes, uiVars, Leaving
  <2> QED  BY <2>1, VerdictKept
<1>4. CASE RunString \/ ScriptEnds
  <2>1. /\ UNCHANGED <<flags, slot, first>>
        /\ \/ verdict' = verdict /\ cmd = "script" /\ cmd' = "running"
           \/ verdict' = verdict /\ cmd' = (IF flags.wait THEN "waitUI" ELSE "settle") /\ cmd = "running"
           \/ cmd' = "unsubscribe" /\ verdict' = "failed"
    BY <1>4 DEF RunString, ScriptEnds, Goes, Quits, uiVars, RunInv, ControlInv
  <2> QED  BY <2>1 DEF VerdictInv, VerdictTellsFirst, Leaving
<1>5. CASE UIEventMatches
  <2>1. /\ cmd = "waitUI" /\ slot # "empty" /\ slot' = "empty" /\ UNCHANGED <<flags, first>>
        /\ IF slot = "notOk" /\ flags.fail
           THEN cmd' = "unsubscribe" /\ verdict' = "okFalse"
           ELSE cmd' = "settle" /\ UNCHANGED verdict
    BY <1>5 DEF UIEventMatches, Quits
  <2> QED  BY <2>1 DEF VerdictInv, VerdictTellsFirst, Leaving
<1>6. CASE UITimeout \/ SettleEnds
  <2>1. /\ UNCHANGED <<flags, slot, first>> /\ cmd' = "unsubscribe"
        /\ verdict' = "timeout" \/ (cmd = "settle" /\ verdict' = "ok")
    BY <1>6 DEF UITimeout, SettleEnds, Quits, uiVars
  <2> QED  BY <2>1 DEF VerdictInv, VerdictTellsFirst, Leaving
<1>7. ASSUME NEW ok \in {"ok", "notOk"}, UIEmit(ok) PROVE VerdictInv'
  <2>1. /\ cmd \in {"running", "waitUI"} /\ UNCHANGED <<cmd, flags, verdict>>
        /\ first' = IF first = "empty" THEN ok ELSE first
        /\ slot' = IF slot = "empty" THEN ok ELSE slot
    BY <1>7 DEF UIEmit, cmdVars
  <2>2. cmd \notin Leaving /\ cmd # "settle" /\ verdict = "none"
    BY <2>1 DEF Leaving, VerdictInv
  <2>3. {slot, first} \subseteq {"empty", "ok", "notOk"} /\ slot = first
    BY <2>2 DEF VerdictInv
  <2>4. {slot', first'} \subseteq {"empty", "ok", "notOk"} /\ slot' = first'
    BY <2>1, <2>3
  <2> QED  BY <2>1, <2>2, <2>4 DEF VerdictInv, VerdictTellsFirst
<1>8. ASSUME NEW q \in 1 .. MaxRequests, SendRequest(q) \/ RequestEnds(q) PROVE VerdictInv'
  BY <1>1, <1>8 DEF SendRequest, RequestEnds, cmdVars, uiVars
<1> QED  BY <1>1, <1>2, <1>3, <1>4, <1>5, <1>6, <1>7, <1>8
         DEF RunNext, runVars, Command, RunScript, Tasks, ScriptCalls, ReadNext, Server, ServerSends, cmdVars, uiVars

\* The exit code tells of the first event of the awaited type, whatever the script
\* emits after it and whenever it does (waitEventCh, the bridge's ui.emit).
THEOREM VerdictTells == RunSpec => []VerdictTellsFirst
<1>1. RunInit => VerdictInv
  BY DEF RunInit, VerdictInv, VerdictTellsFirst, Leaving
<1>2. VerdictInv => VerdictTellsFirst
  BY DEF VerdictInv
<1> QED  BY <1>1, <1>2, VerdictNext, RunInvariant, PTL DEF RunSpec
-----------------------------------------------------------------------------
(* The events on their way from the read loop to the script.               *)

\* How many event tasks are queued up to a place of the queue.
Ahead(i) == Cardinality(EventsQueued(i))

LEMMA Shifted ==
    ASSUME NEW S, IsFiniteSet(S), S \subseteq Nat, 0 \notin S,
           NEW T, T \subseteq Nat, \A j \in Nat : j \in T <=> j + 1 \in S
    PROVE  Cardinality(T) = Cardinality(S)
<1> DEFINE down == [s \in S |-> s - 1]
<1>1. \A s \in S : s \in Int /\ s - 1 \in T
  <2> SUFFICES ASSUME NEW s \in S PROVE s \in Int /\ s - 1 \in T
    OBVIOUS
  <2>1. s \in Nat /\ s # 0
    OBVIOUS
  <2>2. s - 1 \in Nat /\ (s - 1) + 1 = s
    BY <2>1
  <2> QED  BY <2>1, <2>2
<1>2. down \in [S -> T] /\ \A s \in S : down[s] = s - 1
  BY <1>1
<1> HIDE DEF down
<1>3. \A a, b \in S : down[a] = down[b] => a = b
  <2> SUFFICES ASSUME NEW a \in S, NEW b \in S, down[a] = down[b] PROVE a = b
    OBVIOUS
  <2>1. a \in Int /\ b \in Int /\ a - 1 = b - 1
    BY <1>1, <1>2
  <2> QED  BY <2>1
<1>4. \A t \in T : \E s \in S : down[s] = t
  <2> SUFFICES ASSUME NEW t \in T PROVE \E s \in S : down[s] = t
    OBVIOUS
  <2>1. t \in Nat /\ t + 1 \in S /\ (t + 1) - 1 = t
    OBVIOUS
  <2> QED  BY <1>2, <2>1
<1>5. down \in Bijection(S, T)
  BY <1>2, <1>3, <1>4 DEF Bijection, Injection, IsInjective, Surjection
<1> QED  BY <1>5, FS_Bijection DEF ExistsBijection

LEMMA AheadCounts ==
    ASSUME queue \in Seq(Task), NEW i \in Nat
    PROVE  /\ IsFiniteSet(EventsQueued(i)) /\ Ahead(i) \in Nat
           /\ \A j \in EventsQueued(i) : j \in Nat /\ Ahead(j) \in 1 .. Ahead(i)
<1>1. \A k \in Nat : IsFiniteSet(EventsQueued(k)) /\ Ahead(k) \in Nat
  <2> SUFFICES ASSUME NEW k \in Nat PROVE IsFiniteSet(EventsQueued(k)) /\ Ahead(k) \in Nat
    OBVIOUS
  <2>1. EventsQueued(k) \in SUBSET (1 .. k)
    BY DEF EventsQueued
  <2>2. IsFiniteSet(1 .. k)
    BY FS_Interval
  <2>3. IsFiniteSet(EventsQueued(k))
    BY <2>1, <2>2, FS_Subset
  <2> QED  BY <2>3, FS_CardinalityType DEF Ahead
<1>2. ASSUME NEW j \in EventsQueued(i) PROVE j \in Nat /\ Ahead(j) \in 1 .. Ahead(i)
  <2>1. j \in Nat /\ j \in EventsQueued(j) /\ EventsQueued(j) \subseteq EventsQueued(i)
    BY <1>2 DEF EventsQueued
  <2>2. Ahead(j) <= Ahead(i) /\ Ahead(j) # 0
    BY <1>1, <2>1, FS_Subset, FS_EmptySet DEF Ahead
  <2> QED  BY <1>1, <2>1, <2>2
<1> QED  BY <1>1, <1>2

LEMMA AheadPosted ==
    ASSUME queue \in Seq(Task), NEW t \in Task, queue' = Append(queue, t),
           NEW n \in Nat, Len(queue) = n
    PROVE  /\ Len(queue') = n + 1 /\ queue'[n + 1] = t
           /\ \A i \in 0 .. n : EventsQueued(i)' = EventsQueued(i) /\ Ahead(i)' = Ahead(i)
           /\ t.kind = "event" => EventsQueued(n + 1)' = EventsQueued(n) \cup {n + 1} /\ Ahead(n + 1)' = Ahead(n) + 1
           /\ t.kind # "event" => EventsQueued(n + 1)' = EventsQueued(n) /\ Ahead(n + 1)' = Ahead(n)
<1>1. /\ DOMAIN queue = 1 .. n /\ DOMAIN queue' = 1 .. n + 1 /\ Len(queue') = n + 1
      /\ queue'[n + 1] = t /\ \A i \in 1 .. n : queue'[i] = queue[i]
  OBVIOUS
<1>2. \A i \in 0 .. n : EventsQueued(i)' = EventsQueued(i)
  BY <1>1 DEF EventsQueued
<1>3. /\ t.kind = "event" => EventsQueued(n + 1)' = EventsQueued(n) \cup {n + 1}
      /\ t.kind # "event" => EventsQueued(n + 1)' = EventsQueued(n)
  BY <1>1 DEF EventsQueued
<1>4. n + 1 \notin EventsQueued(n) /\ IsFiniteSet(EventsQueued(n))
  <2>1. IsFiniteSet(EventsQueued(n))
    BY AheadCounts
  <2>2. \A j \in EventsQueued(n) : j <= n
    BY DEF EventsQueued
  <2> QED  BY <2>1, <2>2
<1>5. Cardinality(EventsQueued(n) \cup {n + 1}) = Ahead(n) + 1
  BY <1>4, FS_AddElement DEF Ahead
<1> QED  BY <1>1, <1>2, <1>3, <1>5 DEF Ahead

LEMMA AheadTaken ==
    ASSUME queue \in Seq(Task), queue # <<>>, queue' = Tail(queue)
    PROVE  /\ Len(queue') = Len(queue) - 1 /\ Len(queue') \in Nat
           /\ \A i \in 0 .. Len(queue') :
                /\ \A j \in EventsQueued(i)' : j + 1 \in EventsQueued(i + 1) /\ queue'[j] = queue[j + 1]
                /\ Ahead(i + 1) = Ahead(i)' + (IF Head(queue).kind = "event" THEN 1 ELSE 0)
<1>1. /\ Len(queue') = Len(queue) - 1 /\ Len(queue') \in Nat /\ queue' \in Seq(Task)
      /\ \A j \in 1 .. Len(queue') : j + 1 \in DOMAIN queue /\ queue'[j] = queue[j + 1]
      /\ 1 \in DOMAIN queue /\ queue[1] = Head(queue)
  OBVIOUS
<1> SUFFICES ASSUME NEW i \in 0 .. Len(queue')
             PROVE  /\ \A j \in EventsQueued(i)' : j + 1 \in EventsQueued(i + 1) /\ queue'[j] = queue[j + 1]
                    /\ Ahead(i + 1) = Ahead(i)' + (IF Head(queue).kind = "event" THEN 1 ELSE 0)
  BY <1>1
<1> DEFINE S == EventsQueued(i + 1) \ {1}
           T == {j \in 1 .. i : queue'[j].kind = "event"}
<1>2. i \in Nat /\ i <= Len(queue')
  BY <1>1
<1>3. EventsQueued(i)' = T
  BY <1>1, <1>2 DEF EventsQueued
<1>4. \A j \in Nat : j \in T <=> j + 1 \in S
  BY <1>1, <1>2 DEF EventsQueued
<1>5. S \subseteq Nat /\ 0 \notin S /\ IsFiniteSet(EventsQueued(i + 1)) /\ IsFiniteSet(S)
  <2>1. IsFiniteSet(EventsQueued(i + 1))
    BY <1>2, AheadCounts
  <2>2. IsFiniteSet(S)
    BY <2>1, FS_RemoveElement
  <2>3. S \subseteq Nat /\ 0 \notin S
    BY <1>1 DEF EventsQueued
  <2> QED  BY <2>1, <2>2, <2>3
<1>6. Cardinality(T) = Cardinality(S)
  <2> HIDE DEF S
  <2>1. T \subseteq Nat
    BY <1>2
  <2> HIDE DEF T
  <2> QED  BY <1>4, <1>5, <2>1, Shifted
<1>7. 1 \in EventsQueued(i + 1) <=> Head(queue).kind = "event"
  BY <1>1, <1>2 DEF EventsQueued
<1>8. Ahead(i + 1) \in Nat
  BY <1>2, AheadCounts
<1>9. Ahead(i + 1) = Cardinality(S) + (IF Head(queue).kind = "event" THEN 1 ELSE 0)
  BY <1>5, <1>7, <1>8, FS_RemoveElement DEF Ahead
<1>10. \A j \in T : j + 1 \in EventsQueued(i + 1) /\ queue'[j] = queue[j + 1]
  BY <1>1, <1>2, <1>4
<1> QED  BY <1>3, <1>6, <1>9, <1>10 DEF Ahead

\* The events posted to the runtime, in the order of the posts.
HeardEvents == [n \in DOMAIN heard |-> output[heard[n]].event]

LEMMA MessageEvent ==
    ASSUME WireInv, NEW k \in DOMAIN output
    PROVE  output[k].event \in Event \cup {NoObject}
<1>1. \A m \in Message : m.event \in Event \cup {NoObject}
  BY DEF Message
<1>2. output[k] \in Message
  BY DEF WireInv
<1> QED  BY <1>1, <1>2

LEMMA HeardTyped ==
    ASSUME WireInv
    PROVE  /\ HeardEvents \in Seq(Event \cup {NoObject}) /\ Len(HeardEvents) = Len(heard) /\ Len(heard) \in Nat
           /\ \A n \in DOMAIN heard : heard[n] \in 1 .. consumed /\ heard[n] \in DOMAIN output
<1>1. /\ heard \in Seq(1 .. consumed) /\ Len(heard) \in Nat /\ DOMAIN heard = 1 .. Len(heard)
      /\ output \in Seq(Message) /\ consumed \in 0 .. Len(output)
  BY DEF WireInv
<1>2. \A n \in DOMAIN heard : heard[n] \in 1 .. consumed /\ heard[n] \in DOMAIN output
  BY <1>1
<1>3. \A n \in 1 .. Len(heard) : output[heard[n]].event \in Event \cup {NoObject}
  BY <1>1, <1>2, MessageEvent
<1> QED  BY <1>1, <1>2, <1>3 DEF HeardEvents

\* What the server sent stays; the read loop adds to what was heard.
LEMMA OutputStays ==
    ASSUME WireInv, [RunNext]_runVars
    PROVE  /\ \A k \in DOMAIN output : k \in DOMAIN output' /\ output'[k] = output[k]
           /\ \/ UNCHANGED output
              \/ \E m \in Message : output' = Append(output, m) /\ m.after = asked /\ UNCHANGED <<consumed, request>>
<1>1. UNCHANGED output \/ Server
  BY DEF RunNext, runVars, wireVars, Command, Connect, OnNotification, OnRequest, RunString, RunScript, ScriptEnds,
         UIEventMatches, UITimeout, SettleEnds, Unsubscribe, CloseRuntime, CloseClient, Tasks, ScriptCalls,
         UIEmit, RequestEnds, SendRequest, ReadNext
<1>2. output \in Seq(Message)
  BY DEF WireInv
<1>3. ASSUME Server PROVE UNCHANGED <<consumed, request>>
  BY <1>3 DEF Server, ServerSends, vars
<1>4. CASE Server
  <2>1. PICK m \in Message : output' = Append(output, m) /\ m.after = asked
    BY <1>4, ServerStep
  <2> QED  BY <1>2, <1>3, <1>4, <2>1
<1> QED  BY <1>1, <1>4

LEMMA HeardStep ==
    ASSUME WireInv, [RunNext]_runVars
    PROVE  \/ UNCHANGED <<heard, HeardEvents>>
           \/ /\ ReadNext /\ Takes(output[consumed + 1]) /\ accepting
              /\ heard' = Append(heard, consumed + 1)
              /\ HeardEvents' = Append(HeardEvents, output[consumed + 1].event)
<1>1. \A k \in DOMAIN output : output'[k] = output[k]
  BY OutputStays
<1>2. \A n \in DOMAIN heard : heard[n] \in DOMAIN output
  BY HeardTyped
<1>3. CASE UNCHANGED heard
  <2>1. HeardEvents' = HeardEvents
    BY <1>1, <1>2, <1>3 DEF HeardEvents
  <2> QED  BY <1>3, <2>1
<1>4. CASE ReadNext /\ heard' # heard
  <2> DEFINE c == consumed + 1
  <2>1. /\ heard' = Append(heard, c) /\ UNCHANGED output /\ c \in DOMAIN output
        /\ heard \in Seq(1 .. c) /\ c \in 1 .. c /\ Takes(output[c]) /\ accepting
    BY <1>4, Reads
  <2> HIDE DEF c
  <2>2. /\ Len(heard') = Len(heard) + 1 /\ heard' \in Seq(1 .. c) /\ heard'[Len(heard) + 1] = c
        /\ \A n \in DOMAIN heard : heard'[n] = heard[n]
    BY <2>1
  <2>3. output[c].event \in Event \cup {NoObject}
    BY <2>1, MessageEvent
  <2>4. HeardEvents' = Append(HeardEvents, output[c].event)
    <3>1. HeardEvents' \in [1 .. Len(heard) + 1 -> Event \cup {NoObject}]
      <4>1. HeardEvents' = [n \in 1 .. Len(heard) + 1 |-> output[heard'[n]].event]
        BY <2>1, <2>2, HeardTyped DEF HeardEvents
      <4>2. \A n \in 1 .. Len(heard) + 1 : output[heard'[n]].event \in Event \cup {NoObject}
        <5>1. \A n \in 1 .. Len(heard) + 1 : heard'[n] \in DOMAIN output
          BY <2>1, <2>2, HeardTyped
        <5> QED  BY <5>1, MessageEvent
      <4> QED  BY <4>1, <4>2
    <3>2. \A n \in 1 .. Len(heard) : HeardEvents'[n] = HeardEvents[n]
      BY <2>1, <2>2, HeardTyped DEF HeardEvents
    <3>3. HeardEvents'[Len(heard) + 1] = output[c].event
      BY <2>1, <2>2, HeardTyped DEF HeardEvents
    <3> QED  BY <2>3, <3>1, <3>2, <3>3, HeardTyped
  <2> QED  BY <1>4, <2>1, <2>4 DEF c
<1>5. UNCHANGED heard \/ ReadNext
  BY DEF RunNext, runVars, wireVars, Command, Connect, OnNotification, OnRequest, RunString, RunScript, ScriptEnds,
         UIEventMatches, UITimeout, SettleEnds, Unsubscribe, CloseRuntime, CloseClient, Tasks, ScriptCalls,
         UIEmit, RequestEnds, SendRequest, Server, ServerSends
<1> QED  BY <1>3, <1>4, <1>5

\* What was dispatched, and what is queued after it, is what was posted.
QueueTells ==
    /\ Len(heard) = Len(log) + Ahead(Len(queue))
    /\ \A n \in DOMAIN log : log[n] = HeardEvents[n]
    /\ \A i \in EventsQueued(Len(queue)) : queue[i].event = HeardEvents[Len(log) + Ahead(i)]

LEMMA TellsQuiet ==
    ASSUME QueueTells, IInv, NEW t \in Task, t.kind # "event", Post(t), UNCHANGED <<log, heard, HeardEvents>>
    PROVE  QueueTells'
<1>1. CASE queue' = queue
  BY <1>1 DEF QueueTells, Ahead, EventsQueued
<1>2. CASE queue' = Append(queue, t)
  <2>1. queue \in Seq(Task) /\ Len(queue) \in Nat
    BY DEF IInv, Typed
  <2>2. PICK n \in Nat : n = Len(queue)
    BY <2>1
  <2>3. /\ Len(queue') = n + 1 /\ \A i \in 0 .. n : Ahead(i)' = Ahead(i)
        /\ EventsQueued(n + 1)' = EventsQueued(n) /\ Ahead(n + 1)' = Ahead(n)
    BY <1>2, <2>1, <2>2, AheadPosted
  <2>4. \A i \in EventsQueued(n) : i \in 0 .. n /\ queue'[i] = queue[i]
    BY <1>2, <2>1, <2>2 DEF EventsQueued
  <2>5. EventsQueued(Len(queue))' = EventsQueued(n) /\ Ahead(Len(queue))' = Ahead(n)
    BY <2>3
  <2> QED  BY <2>2, <2>3, <2>4, <2>5 DEF QueueTells
<1> QED  BY <1>1, <1>2 DEF Post

LEMMA TellsHeard ==
    ASSUME QueueTells, IInv, WireInv, NEW e \in Event, queue' = Append(queue, EventTask(e)), UNCHANGED log,
           Len(heard') = Len(heard) + 1, HeardEvents' = Append(HeardEvents, e)
    PROVE  QueueTells'
<1>1. queue \in Seq(Task) /\ Len(queue) \in Nat /\ Len(log) \in Nat /\ DOMAIN log = 1 .. Len(log)
  BY DEF IInv, Typed
<1>2. PICK n \in Nat : n = Len(queue)
  BY <1>1
<1>3. EventTask(e) \in Task /\ EventTask(e).kind = "event" /\ EventTask(e).event = e
  BY DEF EventTask, Task
<1>4. /\ Len(queue') = n + 1 /\ \A i \in 0 .. n : Ahead(i)' = Ahead(i)
      /\ EventsQueued(n + 1)' = EventsQueued(n) \cup {n + 1} /\ Ahead(n + 1)' = Ahead(n) + 1
      /\ queue'[n + 1] = EventTask(e)
  BY <1>1, <1>2, <1>3, AheadPosted
<1>5. EventsQueued(Len(queue))' = EventsQueued(n + 1)' /\ Ahead(Len(queue))' = Ahead(n + 1)'
  BY <1>4
<1>6. Len(heard) = Len(log) + Ahead(n) /\ Ahead(n) \in Nat /\ Len(heard) \in Nat
  BY <1>1, <1>2, AheadCounts DEF QueueTells
<1>7. \A k \in 1 .. Len(heard) : HeardEvents'[k] = HeardEvents[k]
  BY HeardTyped
<1>8. HeardEvents'[Len(heard) + 1] = e
  BY HeardTyped
<1>9. \A k \in DOMAIN log : log'[k] = HeardEvents'[k]
  <2>1. \A k \in DOMAIN log : k \in 1 .. Len(heard) /\ log[k] = HeardEvents[k]
    BY <1>1, <1>6 DEF QueueTells
  <2> QED  BY <1>7, <2>1
<1>10. ASSUME NEW i \in EventsQueued(n) PROVE queue'[i].event = HeardEvents'[Len(log) + Ahead(i)']
  <2>1. i \in 0 .. n /\ queue'[i] = queue[i] /\ queue[i].event = HeardEvents[Len(log) + Ahead(i)]
    BY <1>1, <1>2 DEF QueueTells, EventsQueued
  <2>2. Ahead(i) \in 1 .. Ahead(n)
    BY <1>1, AheadCounts
  <2>3. Len(log) + Ahead(i) \in 1 .. Len(heard)
    BY <1>1, <1>6, <2>2
  <2> QED  BY <1>4, <1>7, <2>1, <2>3
<1>11. queue'[n + 1].event = HeardEvents'[Len(log) + Ahead(n + 1)']
  <2>1. Len(log) + Ahead(n + 1)' = Len(heard) + 1
    BY <1>1, <1>4, <1>6
  <2> QED  BY <1>3, <1>4, <1>8, <2>1
<1>12. Len(heard') = Len(log) + Ahead(n + 1)'
  BY <1>1, <1>4, <1>6
<1> QED  BY <1>4, <1>5, <1>9, <1>10, <1>11, <1>12 DEF QueueTells

LEMMA TellsTaken ==
    ASSUME QueueTells, IInv, WireInv, queue # <<>>, queue' = Tail(queue), UNCHANGED <<heard, HeardEvents>>,
           IF Head(queue).kind = "event" THEN log' = Append(log, Head(queue).event) ELSE log' = log
    PROVE  QueueTells'
<1>1. /\ queue \in Seq(Task) /\ Len(queue) \in Nat /\ Len(log) \in Nat /\ DOMAIN log = 1 .. Len(log)
      /\ 1 \in DOMAIN queue /\ queue[1] = Head(queue) /\ log \in Seq(Event)
  BY DEF IInv, Typed
<1>2. /\ Len(queue') = Len(queue) - 1 /\ Len(queue') \in Nat
      /\ \A i \in 0 .. Len(queue') :
           /\ \A j \in EventsQueued(i)' : j + 1 \in EventsQueued(i + 1) /\ queue'[j] = queue[j + 1]
           /\ Ahead(i + 1) = Ahead(i)' + (IF Head(queue).kind = "event" THEN 1 ELSE 0)
  BY <1>1, AheadTaken
<1>3. PICK n \in Nat : n = Len(queue')
  BY <1>2
<1>4. Len(queue) = n + 1
  BY <1>1, <1>2, <1>3
<1>5. EventsQueued(Len(queue))' = EventsQueued(n)' /\ Ahead(Len(queue))' = Ahead(n)'
  BY <1>3
<1>10. n \in 0 .. Len(queue')
  BY <1>3
<1>11. \A j \in EventsQueued(n)' : j + 1 \in EventsQueued(n + 1) /\ queue'[j] = queue[j + 1]
  BY ONLY <1>2, <1>10
<1>6. \A j \in EventsQueued(n)' : j \in 0 .. n
  BY <1>1, <1>3 DEF EventsQueued
<1>7. \A i \in 0 .. n : Ahead(i)' \in Nat
  <2> SUFFICES ASSUME NEW i \in 0 .. n PROVE Ahead(i)' \in Nat
    OBVIOUS
  <2>1. EventsQueued(i)' \in SUBSET (1 .. i)
    <3>1. queue' \in Seq(Task)
      BY <1>1
    <3> QED  BY <3>1 DEF EventsQueued
  <2>2. IsFiniteSet(1 .. i)
    BY FS_Interval
  <2>3. IsFiniteSet(EventsQueued(i)')
    BY <2>1, <2>2, FS_Subset
  <2> QED  BY <2>3, FS_CardinalityType DEF Ahead
<1>8. CASE Head(queue).kind # "event"
  <2>1. \A i \in 0 .. n : Ahead(i + 1) = Ahead(i)'
    BY <1>2, <1>3, <1>7, <1>8
  <2>3. Len(heard') = Len(log') + Ahead(n)'
    BY <1>4, <1>8, <2>1 DEF QueueTells
  <2>4. \A j \in EventsQueued(n)' : queue'[j].event = HeardEvents'[Len(log') + Ahead(j)']
    BY <1>4, <1>6, <1>8, <1>11, <2>1 DEF QueueTells
  <2>5. \A k \in DOMAIN log' : log'[k] = HeardEvents'[k]
    BY <1>8 DEF QueueTells
  <2> QED  BY <1>3, <1>5, <2>3, <2>4, <2>5 DEF QueueTells
<1>9. CASE Head(queue).kind = "event"
  <2>1. \A i \in 0 .. n : Ahead(i + 1) = Ahead(i)' + 1
    BY <1>2, <1>3, <1>9
  <2>3. PICK e \in Event : e = Head(queue).event
    <3>1. Head(queue) \in Task
      BY <1>1
    <3> QED  BY <1>9, <3>1 DEF Task
  <2>9. /\ Len(log') = Len(log) + 1
        /\ \A k \in DOMAIN log' : (k \in DOMAIN log /\ log'[k] = log[k]) \/ (k = Len(log) + 1 /\ log'[k] = e)
    <3>1. log' = Append(log, e)
      BY <1>9, <2>3
    <3>2. log \in Seq(Event) /\ e \in Event
      BY <1>1
    <3>3. DOMAIN log = 1 .. Len(log) /\ DOMAIN log' = 1 .. Len(log) + 1 /\ Len(log') = Len(log) + 1
      BY ONLY <3>1, <3>2
    <3>4. log'[Len(log) + 1] = e /\ \A k \in 1 .. Len(log) : log'[k] = log[k]
      BY ONLY <3>1, <3>2
    <3>5. Len(log) \in Nat
      BY <1>1
    <3> QED  BY ONLY <3>3, <3>4, <3>5
  <2>4. Len(heard') = Len(log') + Ahead(n)'
    <3>1. Len(heard') = Len(log) + Ahead(n + 1) /\ Ahead(n + 1) = Ahead(n)' + 1 /\ Ahead(n)' \in Nat /\ Len(log) \in Nat
      BY <1>1, <1>4, <1>7, <2>1 DEF QueueTells
    <3> QED  BY ONLY <2>9, <3>1
  <2>5. \A j \in EventsQueued(n)' : queue'[j].event = HeardEvents'[Len(log') + Ahead(j)']
    <3> SUFFICES ASSUME NEW j \in EventsQueued(n)' PROVE queue'[j].event = HeardEvents'[Len(log') + Ahead(j)']
      OBVIOUS
    <3>1. j \in 0 .. n /\ j + 1 \in EventsQueued(n + 1) /\ queue'[j] = queue[j + 1]
      BY <1>6, <1>11
    <3>2. queue[j + 1].event = HeardEvents[Len(log) + Ahead(j + 1)]
      BY <1>4, <3>1 DEF QueueTells
    <3>3. Ahead(j)' \in Nat /\ Ahead(j + 1) = Ahead(j)' + 1
      BY <1>7, <2>1, <3>1
    <3>4. Len(log) + Ahead(j + 1) = Len(log') + Ahead(j)'
      <4>1. Len(log) \in Nat
        BY <1>1
      <4> QED  BY ONLY <2>9, <3>3, <4>1
    <3> QED  BY <3>1, <3>2, <3>4
  <2>6. Ahead(0)' = 0 /\ Ahead(1) = 1
    <3>1. EventsQueued(0)' = {}
      <4>1. queue' \in Seq(Task)
        BY <1>1
      <4> QED  BY <4>1 DEF EventsQueued
    <3>2. Ahead(0)' = 0
      BY <3>1, FS_EmptySet DEF Ahead
    <3>3. Ahead(0 + 1) = Ahead(0)' + 1
      BY <2>1
    <3> QED  BY <3>2, <3>3
  <2>7. Head(queue).event = HeardEvents[Len(log) + 1]
    <3>1. 1 \in EventsQueued(Len(queue))
      BY <1>1, <1>9 DEF EventsQueued
    <3>2. queue[1].event = HeardEvents[Len(log) + Ahead(1)]
      BY <3>1 DEF QueueTells
    <3> QED  BY <1>1, <2>6, <3>2
  <2>8. \A k \in DOMAIN log' : log'[k] = HeardEvents'[k]
    BY <2>3, <2>7, <2>9 DEF QueueTells
  <2> QED  BY <1>3, <1>5, <2>4, <2>5, <2>8 DEF QueueTells
<1> QED  BY <1>8, <1>9

\* What the server sends after a request of the script the runtime does not miss.
ReachInv ==
    /\ QueueTells
    /\ \A m, n \in DOMAIN heard : m < n => heard[m] < heard[n]
    /\ \A k \in DOMAIN output : output[k].after \subseteq DOMAIN request
    /\ \A k \in 1 .. consumed :
         IsEvent(output[k]) /\ output[k].after # {} /\ cmd \notin Leaving =>
             \E n \in DOMAIN heard : heard[n] = k

LEMMA TellsNext ==
    ASSUME RunInv, QueueTells, [RunNext]_runVars
    PROVE  QueueTells'
<1>1. IInv /\ WireInv
  BY DEF RunInv
<1>2. CASE UNCHANGED <<heard, HeardEvents>>
  <2>1. CASE UNCHANGED <<log, queue, heard>>
    BY <1>2, <2>1 DEF QueueTells, Ahead, EventsQueued
  <2>2. CASE RunString
    <3>1. UNCHANGED log /\ (queue' = queue \/ Post([kind |-> "script"]))
      BY <2>2 DEF RunString, eventVars
    <3>2. [kind |-> "script"] \in Task
      BY DEF Task
    <3>3. CASE queue' = queue
      BY <1>2, <3>1, <3>3 DEF QueueTells, Ahead, EventsQueued
    <3> QED  BY <1>1, <1>2, <3>1, <3>2, <3>3, TellsQuiet
  <2>3. CASE UNCHANGED <<log, heard>> /\ \E t \in Task : t.kind \notin {"event", "script"} /\ Post(t)
    BY <1>1, <1>2, <2>3, TellsQuiet
  <2>4. CASE ReadNext /\ Takes(output[consumed + 1]) /\ UNCHANGED log
    <3>1. ~accepting
      <4>1. heard' # Append(heard, consumed + 1)
        <5>1. heard \in Seq(1 .. consumed + 1) /\ consumed + 1 \in 1 .. consumed + 1
          BY <1>1, <2>4, Reads
        <5> QED  BY <1>2, <5>1
      <4> QED  BY <1>1, <2>4, <4>1, Reads
    <3>2. UNCHANGED queue
      BY <2>4, <3>1 DEF ReadNext, Emit, Post
    <3> QED  BY <1>2, <2>4, <3>2 DEF QueueTells, Ahead, EventsQueued
  <2>5. CASE UNCHANGED <<log, heard>> /\ queue # <<>> /\ queue' = Tail(queue) /\ Head(queue).kind # "event"
    BY <1>1, <1>2, <2>5, TellsTaken
  <2>6. CASE RunEvent
    <3>1. queue # <<>> /\ queue' = Tail(queue) /\ Head(queue).kind = "event" /\ log' = Append(log, Head(queue).event)
      BY <2>6 DEF RunEvent, Ready
    <3> QED  BY <1>1, <1>2, <3>1, TellsTaken
  <2> QED  BY <1>1, <2>1, <2>2, <2>3, <2>4, <2>5, <2>6, RunLog
<1>3. CASE /\ ReadNext /\ Takes(output[consumed + 1]) /\ accepting
           /\ heard' = Append(heard, consumed + 1)
           /\ HeardEvents' = Append(HeardEvents, output[consumed + 1].event)
  <2> DEFINE m == output[consumed + 1]
  <2>1. consumed + 1 \in DOMAIN output /\ Emit(m.event)
    BY <1>1, <1>3, Reads DEF ReadNext
  <2>2. m.event \in Event
    BY <1>1, <1>3, <2>1 DEF WireInv, Takes, IsEvent
  <2>3. queue' = Append(queue, EventTask(m.event)) /\ UNCHANGED log
    BY <1>3, <2>1 DEF Emit, Post, eventVars
  <2>4. Len(heard') = Len(heard) + 1
    <3>1. heard \in Seq(1 .. consumed + 1) /\ consumed + 1 \in 1 .. consumed + 1
      BY <1>1, <1>3, Reads
    <3> QED  BY <1>3, <3>1
  <2> QED  BY <1>1, <1>3, <2>2, <2>3, <2>4, TellsHeard
<1> QED  BY <1>1, <1>2, <1>3, HeardStep

\* The command does not come back once it leaves.
LEMMA LeavesForGood ==
    ASSUME RunInv, [RunNext]_runVars, cmd' \notin Leaving
    PROVE  cmd \notin Leaving
<1>1. CASE ScriptEnds
  <2>1. cmd = "running"
    BY <1>1 DEF ScriptEnds, RunInv, ControlInv
  <2> QED  BY <2>1 DEF Leaving
<1>2. CASE Command
  BY <1>2 DEF Command, Connect, OnNotification, OnRequest, RunString, UIEventMatches, UITimeout, SettleEnds,
              Unsubscribe, CloseRuntime, CloseClient, Goes, Quits, Leaving
<1>3. ScriptEnds \/ Command \/ UNCHANGED cmd
  BY DEF RunNext, runVars, cmdVars, RunScript, Tasks, ScriptCalls, UIEmit, SendRequest, RequestEnds, ReadNext,
         Server, ServerSends
<1> QED  BY <1>1, <1>2, <1>3

LEMMA ReachNext == RunInv /\ ReachInv /\ [RunNext]_runVars => ReachInv'
<1> SUFFICES ASSUME RunInv, ReachInv, [RunNext]_runVars PROVE ReachInv'
  OBVIOUS
<1>1. IInv /\ WireInv /\ WireInv' /\ ControlInv
  BY RunInvNext DEF RunInv
<1>2. QueueTells'
  BY TellsNext DEF ReachInv
<1>3. \A k \in DOMAIN output : k \in DOMAIN output' /\ output'[k] = output[k]
  BY <1>1, OutputStays
<1>4. DOMAIN request \subseteq DOMAIN request'
  <2>1. CASE request' = Append(request, "inFlight")
    BY <1>1, <2>1, AppendProperties DEF IInv, Typed, RequestState
  <2> QED  BY <1>1, <2>1, Requested
<1>5. \A k \in DOMAIN output' : output'[k].after \subseteq DOMAIN request'
  <2>1. CASE UNCHANGED output
    BY <1>4, <2>1 DEF ReachInv
  <2>2. ASSUME NEW m \in Message, output' = Append(output, m), m.after = asked
        PROVE  \A k \in DOMAIN output' : output'[k].after \subseteq DOMAIN request'
    <3>1. asked \subseteq DOMAIN request /\ output \in Seq(Message)
      BY <1>1 DEF WireInv
    <3>2. \A k \in DOMAIN output' : k \in DOMAIN output \/ output'[k] = m
      BY <2>2, <3>1
    <3>3. \A k \in DOMAIN output : output[k].after \subseteq DOMAIN request
      BY DEF ReachInv
    <3> QED  BY <1>3, <1>4, <2>2, <3>1, <3>2, <3>3
  <2> QED  BY <1>1, <2>1, <2>2, OutputStays
<1>6. CASE UNCHANGED heard
  <2>1. ASSUME NEW k \in 1 .. consumed', IsEvent(output'[k]), output'[k].after # {}, cmd' \notin Leaving
        PROVE  \E n \in DOMAIN heard : heard[n] = k
    <3>1. cmd \notin Leaving
      BY <2>1, LeavesForGood
    <3>2. CASE k \in 1 .. consumed
      <4>1. k \in DOMAIN output
        BY <1>1, <3>2 DEF WireInv
      <4> QED  BY <1>3, <2>1, <3>1, <3>2, <4>1 DEF ReachInv
    <3>3. CASE k \notin 1 .. consumed
      <4>1. ReadNext
        <5>1. UNCHANGED consumed \/ ReadNext
          BY DEF RunNext, runVars, wireVars, Command, Connect, OnNotification, OnRequest, RunString, RunScript,
                 ScriptEnds, UIEventMatches, UITimeout, SettleEnds, Unsubscribe, CloseRuntime, CloseClient, Tasks,
                 ScriptCalls, UIEmit, RequestEnds, SendRequest, Server, ServerSends
        <5> QED  BY <2>1, <3>3, <5>1
      <4>2. k = consumed + 1 /\ UNCHANGED output /\ k \in DOMAIN output
        BY <1>1, <2>1, <3>3, <4>1, Reads
      <4>3. ~(Takes(output[k]) /\ accepting)
        <5>1. heard' # Append(heard, consumed + 1)
          <6>1. heard \in Seq(1 .. consumed + 1) /\ consumed + 1 \in 1 .. consumed + 1
            BY <1>1, <4>1, Reads
          <6> QED  BY <1>6, <6>1
        <5> QED  BY <1>1, <4>1, <4>2, <5>1, Reads
      <4>4. request # <<>>
        <5>1. output[k].after \subseteq DOMAIN request /\ output[k].after # {}
          BY <2>1, <4>2 DEF ReachInv
        <5>2. request = <<>> => DOMAIN request = {}
          OBVIOUS
        <5> QED  BY <5>1, <5>2
      <4>5. cmd \in {"script", "running", "waitUI", "settle"} /\ accepting
        BY <1>1, <3>1, <4>4 DEF ControlInv, Location, Leaving
      <4>6. Kinds \subseteq subscribed /\ IsEvent(output[k])
        BY <1>1, <2>1, <4>2, <4>5 DEF ControlInv
      <4> QED  BY <4>3, <4>5, <4>6 DEF Takes, IsEvent, Kinds
    <3> QED  BY <3>2, <3>3
  <2> QED  BY <1>2, <1>5, <1>6, <2>1 DEF ReachInv
<1>7. CASE ReadNext /\ heard' = Append(heard, consumed + 1)
  <2>1. /\ heard \in Seq(1 .. consumed) /\ heard \in Seq(1 .. consumed + 1) /\ consumed \in Nat
        /\ consumed' = consumed + 1 /\ consumed + 1 \in 1 .. consumed + 1
    BY <1>1, <1>7, Reads DEF WireInv
  <2>2. /\ DOMAIN heard = 1 .. Len(heard) /\ Len(heard) \in Nat /\ DOMAIN heard' = 1 .. Len(heard) + 1
        /\ heard'[Len(heard) + 1] = consumed + 1 /\ \A n \in DOMAIN heard : heard'[n] = heard[n]
    BY <1>7, <2>1
  <2>3. \A n \in DOMAIN heard : heard[n] \in Nat /\ heard[n] < consumed + 1
    BY <2>1
  <2>4. \A m, n \in DOMAIN heard' : m < n => heard'[m] < heard'[n]
    <3> SUFFICES ASSUME NEW m \in DOMAIN heard', NEW n \in DOMAIN heard', m < n PROVE heard'[m] < heard'[n]
      OBVIOUS
    <3>1. m \in DOMAIN heard /\ (n \in DOMAIN heard \/ n = Len(heard) + 1)
      BY <2>2
    <3> QED  BY <2>2, <2>3, <3>1 DEF ReachInv
  <2>5. ASSUME NEW k \in 1 .. consumed', IsEvent(output'[k]), output'[k].after # {}, cmd' \notin Leaving
        PROVE  \E n \in DOMAIN heard' : heard'[n] = k
    <3>1. cmd \notin Leaving
      BY <2>5, LeavesForGood
    <3>2. CASE k \in 1 .. consumed
      <4>1. k \in DOMAIN output
        BY <1>1, <3>2 DEF WireInv
      <4>2. \E n \in DOMAIN heard : heard[n] = k
        BY <1>3, <2>5, <3>1, <3>2, <4>1 DEF ReachInv
      <4> QED  BY <2>2, <4>2
    <3>3. CASE k = consumed + 1
      <4>1. Len(heard) + 1 \in DOMAIN heard'
        BY <2>2
      <4> QED  BY <2>2, <3>3, <4>1
    <3> QED  BY <2>1, <3>2, <3>3
  <2> QED  BY <1>2, <1>5, <2>4, <2>5 DEF ReachInv
<1> QED  BY <1>1, <1>6, <1>7, HeardStep

LEMMA ReachInitial == RunInit => ReachInv
<1> SUFFICES ASSUME RunInit PROVE ReachInv
  OBVIOUS
<1>1. heard = <<>> /\ output = <<>> /\ consumed = 0 /\ queue = <<>> /\ log = <<>>
  BY DEF RunInit, Init
<1>2. EventsQueued(Len(queue)) = {} /\ Len(<<>>) = 0 /\ DOMAIN <<>> = {}
  BY <1>1 DEF EventsQueued
<1>3. QueueTells
  BY <1>1, <1>2, FS_EmptySet DEF QueueTells, Ahead
<1> QED  BY <1>1, <1>2, <1>3 DEF ReachInv

LEMMA Reached == RunInv /\ ReachInv => EventsReachScript
<1> SUFFICES ASSUME RunInv, ReachInv PROVE EventsReachScript
  OBVIOUS
<1> DEFINE hears(n) == output[heard[n]].event
           queued   == EventsQueued(Len(queue))
<1>1. WireInv /\ Len(log) \in Nat /\ queue \in Seq(Task) /\ Len(queue) \in Nat /\ DOMAIN log = 1 .. Len(log)
  BY DEF RunInv, IInv, Typed
<1>2. QueueTells
  BY DEF ReachInv
<1>3. /\ Ahead(Len(queue)) \in Nat /\ \A i \in queued : Ahead(i) \in 1 .. Ahead(Len(queue))
      /\ Len(heard) = Len(log) + Ahead(Len(queue)) /\ DOMAIN heard = 1 .. Len(heard)
  BY <1>1, <1>2, AheadCounts DEF QueueTells, WireInv
<1>4. \A n \in DOMAIN heard : HeardEvents[n] = hears(n)
  BY DEF HeardEvents
<1>5. ASSUME NEW n \in DOMAIN log PROVE log[n] = hears(n)
  <2>1. n \in DOMAIN heard
    BY <1>1, <1>3
  <2> QED  BY <1>2, <1>4, <2>1 DEF QueueTells
<1>6. ASSUME NEW i \in queued PROVE queue[i].event = hears(Len(log) + Cardinality(EventsQueued(i)))
  <2>1. Len(log) + Ahead(i) \in DOMAIN heard
    BY <1>1, <1>3
  <2> QED  BY <1>2, <1>4, <2>1 DEF QueueTells, Ahead
<1>7. Len(heard) = Len(log) + Cardinality(queued)
  BY <1>3 DEF Ahead
<1> QED  BY <1>5, <1>6, <1>7 DEF EventsReachScript, ReachInv

\* The runtime dispatches what the read loop posted, in the server's order, and until
\* the command leaves it misses nothing the server sent after a request of the
\* script (runtime.EmitRPCNotification, the wildcard handlers of the command).
THEOREM EventsReach == RunSpec => []EventsReachScript
BY ReachInitial, ReachNext, Reached, RunInvariant, PTL DEF RunSpec

-----------------------------------------------------------------------------
(* Waits made before a request.                                            *)

\* What a wait does not look at was sent before the server had any request made
\* after it.
EarlyInv ==
    /\ before \in Seq(Nat) /\ Len(before) = Len(waiter)
    /\ \A w \in Waiters : before[w] <= Len(request)
    /\ \A w \in Waiters : \A n \in 1 .. waiter[w].born : output[heard[n]].after \subseteq 1 .. before[w]

LEMMA SettleKeeps ==
    ASSUME waiter \in Seq(WaiterRecord), NEW w, NEW how, Settle(w, how)
    PROVE  Len(waiter') = Len(waiter) /\ \A v \in Waiters : waiter'[v].born = waiter[v].born
<1>1. CASE w \in Pending
  <2> DEFINE r == [waiter[w] EXCEPT !.state = how, !.ended = Len(log),
                                    !.timer = IF @ = "armed" THEN "stopped" ELSE @]
  <2>1. waiter' = [waiter EXCEPT ![w] = r] /\ w \in DOMAIN waiter
    BY <1>1 DEF Settle, Pending, Waiters
  <2>2. waiter[w] \in WaiterRecord
    BY <2>1
  <2>3. r.born = waiter[w].born
    BY <2>2 DEF WaiterRecord
  <2> HIDE DEF r
  <2>4. DOMAIN waiter' = DOMAIN waiter /\ \A v \in Waiters : waiter'[v] = IF v = w THEN r ELSE waiter[v]
    BY <2>1 DEF Waiters
  <2>5. Len(waiter') = Len(waiter)
    BY <2>1
  <2> QED  BY <2>3, <2>4, <2>5
<1>2. CASE w \notin Pending
  BY <1>2 DEF Settle
<1> QED  BY <1>1, <1>2

LEMMA WaitersStep ==
    ASSUME IInv, [RunNext]_runVars
    PROVE  \/ /\ UNCHANGED before /\ Len(waiter') = Len(waiter)
              /\ \A w \in Waiters : waiter'[w].born = waiter[w].born
           \/ /\ before' = Append(before, Len(request)) /\ \E wait \in Wait : WaitFor(wait)
              /\ UNCHANGED <<output, heard, request>>
<1>1. waiter \in Seq(WaiterRecord)
  BY DEF IInv, Typed
<1>2. CASE UNCHANGED <<waiter, before>>
  BY <1>2
<1>3. CASE Tasks
  <2>1. UNCHANGED before
    BY <1>3 DEF Tasks
  <2>2. ASSUME NEW w \in Waiters, TimerFires(w)
        PROVE  Len(waiter') = Len(waiter) /\ \A v \in Waiters : waiter'[v].born = waiter[v].born
    BY <1>1, <2>2 DEF TimerFires, Waiters, WaiterRecord
  <2>3. CASE RunTimeout
    BY <1>1, <2>1, <2>3, SettleKeeps DEF RunTimeout
  <2>4. ASSUME NEW w \in Waiters, Offer(w)
        PROVE  Len(waiter') = Len(waiter) /\ \A v \in Waiters : waiter'[v].born = waiter[v].born
    <3>1. Settle(w, "resolved") \/ Settle(w, "rejected") \/ UNCHANGED waiter
      BY <2>4 DEF Offer
    <3> QED  BY <1>1, <3>1, SettleKeeps
  <2>5. CASE RunResolve \/ RunEvent \/ WaitersDone \/ ApplyPolicy \/ CallHandler \/ HandlersDone
    BY <2>1, <2>5 DEF RunResolve, RunEvent, WaitersDone, ApplyPolicy, CallHandler, HandlersDone
  <2> QED  BY <1>3, <2>1, <2>2, <2>3, <2>4, <2>5 DEF Tasks, LoopStep
<1>4. CASE ScriptCalls
  BY <1>4 DEF ScriptCalls, WaitFor, StartRequest, wireVars
<1>5. UNCHANGED <<waiter, before>> \/ Tasks \/ ScriptCalls
  BY DEF RunNext, runVars, Command, Connect, OnNotification, OnRequest, RunString, RunScript, ScriptEnds,
         UIEventMatches, UITimeout, SettleEnds, Unsubscribe, CloseRuntime, Shutdown, Stop, CloseClient,
         UIEmit, SendRequest, RequestEnds, RequestReturns, ReadNext, Emit, Server, ServerSends, vars
<1> QED  BY <1>2, <1>3, <1>4, <1>5

LEMMA EarlyNext == RunInv /\ ReachInv /\ EarlyInv /\ [RunNext]_runVars => EarlyInv'
<1> SUFFICES ASSUME RunInv, ReachInv, EarlyInv, [RunNext]_runVars PROVE EarlyInv'
  OBVIOUS
<1>1. IInv /\ WireInv /\ IInv'
  BY RunInvNext DEF RunInv
<1>2. /\ waiter \in Seq(WaiterRecord) /\ waiter' \in Seq(WaiterRecord) /\ Len(waiter) \in Nat
      /\ Waiters = 1 .. Len(waiter) /\ Waiters' = 1 .. Len(waiter')
      /\ request \in Seq(RequestState) /\ request' \in Seq(RequestState)
  BY <1>1 DEF IInv, Typed, Waiters
<1>3. Len(request) \in Nat /\ Len(request') \in Nat /\ Len(request) <= Len(request')
  <2>1. Len(request) \in Nat /\ Len(request') \in Nat
    BY <1>2
  <2>2. CASE DOMAIN request' = DOMAIN request
    BY <1>2, <2>1, <2>2
  <2>3. CASE request' = Append(request, "inFlight")
    BY <1>2, <2>1, <2>3 DEF RequestState
  <2> QED  BY <1>1, <2>1, <2>2, <2>3, Requested
<1>4. Len(log) \in Nat /\ Len(log) <= Len(heard) /\ Len(heard) \in Nat
  <2>1. Len(log) \in Nat /\ Len(heard) \in Nat /\ Len(queue) \in Nat /\ queue \in Seq(Task)
    BY <1>1 DEF IInv, Typed, WireInv
  <2>2. Ahead(Len(queue)) \in Nat
    BY <2>1, AheadCounts
  <2> QED  BY <2>1, <2>2 DEF ReachInv, QueueTells
<1>5. \A n \in 1 .. Len(heard) : heard'[n] = heard[n] /\ heard[n] \in DOMAIN output
  <2>1. \A n \in 1 .. Len(heard) : heard[n] \in DOMAIN output
    BY <1>1, HeardTyped DEF WireInv
  <2>2. ASSUME ReadNext, heard' = Append(heard, consumed + 1) PROVE \A n \in 1 .. Len(heard) : heard'[n] = heard[n]
    BY <1>1, <2>2, Reads
  <2> QED  BY <1>1, <2>1, <2>2, HeardStep
<1>6. \A n \in 1 .. Len(heard) : output'[heard'[n]] = output[heard[n]]
  BY <1>1, <1>5, OutputStays
<1>7. \A w \in Waiters : waiter[w].born \in Nat /\ waiter[w].born <= Len(heard)
  BY <1>1, <1>4, WaiterTyped
<1>8. CASE /\ UNCHANGED before /\ Len(waiter') = Len(waiter)
           /\ \A w \in Waiters : waiter'[w].born = waiter[w].born
  <2>1. \A w \in Waiters' : before'[w] <= Len(request')
    BY <1>2, <1>3, <1>8 DEF EarlyInv
  <2>2. ASSUME NEW w \in Waiters', NEW n \in 1 .. waiter'[w].born
        PROVE  output'[heard'[n]].after \subseteq 1 .. before'[w]
    <3>1. w \in Waiters /\ n \in 1 .. waiter[w].born /\ n \in 1 .. Len(heard)
      BY <1>2, <1>4, <1>7, <1>8
    <3> QED  BY <1>6, <1>8, <3>1 DEF EarlyInv
  <2> QED  BY <1>8, <2>1, <2>2 DEF EarlyInv
<1>9. ASSUME NEW wait \in Wait, WaitFor(wait), before' = Append(before, Len(request)),
             UNCHANGED <<output, heard, request>>
      PROVE  EarlyInv'
  <2> DEFINE x == [wait |-> wait, state |-> "pending", timer |-> "armed", born |-> Len(log), ended |-> 0]
             k == Len(waiter) + 1
  <2>1. waiter' = Append(waiter, x) /\ x \in WaiterRecord /\ x.born = Len(log)
    BY <1>4, <1>9 DEF WaitFor, WaiterRecord
  <2> HIDE DEF x
  <2>2. /\ Waiters' = Waiters \cup {k} /\ waiter'[k] = x /\ \A w \in Waiters : waiter'[w] = waiter[w]
        /\ Len(waiter') = Len(waiter) + 1
    BY <1>2, <2>1
  <2>3. /\ before' \in Seq(Nat) /\ Len(before') = Len(before) + 1 /\ before'[k] = Len(request)
        /\ \A w \in Waiters : before'[w] = before[w]
    BY <1>2, <1>3, <1>9 DEF EarlyInv
  <2> HIDE DEF k
  <2>4. \A w \in Waiters' : before'[w] <= Len(request')
    BY <1>3, <1>9, <2>2, <2>3 DEF EarlyInv
  <2>5. ASSUME NEW w \in Waiters', NEW n \in 1 .. waiter'[w].born
        PROVE  output'[heard'[n]].after \subseteq 1 .. before'[w]
    <3>1. CASE w \in Waiters
      <4>1. n \in 1 .. waiter[w].born
        BY <2>2, <3>1
      <4> QED  BY <1>9, <2>3, <3>1, <4>1 DEF EarlyInv
    <3>2. CASE w = k
      <4>1. n \in 1 .. Len(heard)
        <5>1. waiter'[w].born = Len(log)
          BY <2>1, <2>2, <3>2
        <5>2. n \in 1 .. Len(log)
          BY <5>1
        <5> QED  BY <1>4, <5>2
      <4>2. output[heard[n]].after \subseteq DOMAIN request
        BY <1>5, <4>1 DEF ReachInv
      <4>3. DOMAIN request = 1 .. Len(request)
        BY <1>2
      <4> QED  BY <1>9, <2>3, <3>2, <4>2, <4>3
    <3> QED  BY <2>2, <3>1, <3>2
  <2> QED  BY <1>2, <2>2, <2>3, <2>4, <2>5 DEF EarlyInv
<1> QED  BY <1>1, <1>8, <1>9, WaitersStep

LEMMA EarlySeen == RunInv /\ ReachInv /\ EarlyInv => EarlyWaitSees
<1> SUFFICES ASSUME RunInv, ReachInv, EarlyInv,
                    NEW w \in Waiters, NEW n \in DOMAIN heard, NEW q \in output[heard[n]].after, q > before[w],
                    Verdict(waiter[w].wait, output[heard[n]].event) = "resolve"
             PROVE  n > LetPass(w)
  BY DEF EarlyWaitSees
<1>1. IInv /\ WireInv /\ Len(log) \in Nat /\ log \in Seq(Event) /\ DOMAIN log = 1 .. Len(log)
  BY DEF RunInv, IInv, Typed
<1>2. /\ waiter[w].born \in Nat /\ waiter[w].ended \in Nat /\ waiter[w].ended <= Len(log)
  BY <1>1, WaiterTyped
<1>3. LetPass(w) \in Int /\ LetPass(w) <= Len(log)
  BY <1>1, <1>2 DEF LetPass
<1>4. n \in Nat /\ 1 <= n
  BY <1>1 DEF WireInv
<1>5. n > waiter[w].born
  <2>1. ASSUME n <= waiter[w].born PROVE FALSE
    <3>1. q \in 1 .. before[w]
      BY <1>2, <1>4, <2>1 DEF EarlyInv
    <3>2. before[w] \in Nat
      <4>1. w \in 1 .. Len(before) /\ before \in Seq(Nat)
        BY <1>1 DEF EarlyInv, IInv, Typed, Waiters
      <4> QED  BY <4>1
    <3> QED  BY <3>1, <3>2
  <2> QED  BY <1>2, <1>4, <2>1
<1>6. ASSUME n <= LetPass(w) PROVE FALSE
  <2>1. n \in waiter[w].born + 1 .. LetPass(w) /\ n \in DOMAIN log
    BY <1>1, <1>2, <1>3, <1>4, <1>5, <1>6
  <2>2. Verdict(waiter[w].wait, log[n]) = "skip"
    BY <1>1, <2>1 DEF IInv, WaitInv, WaitTakesFirstMatch
  <2>3. log[n] = output[heard[n]].event
    BY <2>1, Reached DEF EventsReachScript
  <2> QED  BY <2>2, <2>3
<1> QED  BY <1>3, <1>4, <1>6

LEMMA EarlyInitial == RunInit => EarlyInv
<1> SUFFICES ASSUME RunInit PROVE EarlyInv
  OBVIOUS
<1>1. before = <<>> /\ waiter = <<>>
  BY DEF RunInit, Init
<1> QED  BY <1>1 DEF EarlyInv, Waiters

\* A wait made before a request sees every event the server sends once it has that
\* request (waitForEvent on the loop, session.request's goroutine, the read loop).
THEOREM EarlyWaitsSee == RunSpec => []EarlyWaitSees
BY EarlyInitial, ReachInitial, ReachNext, EarlyNext, EarlySeen, RunInvariant, PTL DEF RunSpec

-----------------------------------------------------------------------------
(* Types.                                                                  *)

\* The types of the command's own variables, and those of the runtime that no other
\* invariant needs.
PlainInv ==
    /\ RestInv
    /\ flags \in Flags /\ verdict \in {"none", "ok", "okFalse", "timeout", "failed"}
    /\ subscribed \subseteq Kinds /\ {clientClosed, scripted} \subseteq BOOLEAN

LEMMA RestOfRun ==
    ASSUME RunInv, RestInv, [RunNext]_runVars
    PROVE  RestInv'
<1>1. IInv /\ HandlerInv /\ WireInv
  BY DEF RunInv
<1>2. CASE RunString \/ RunScript \/ ScriptEnds
  <2>1. /\ UNCHANGED <<accepting, running, policy, epoch, inForce, attached, counts, totals, log, received, responses>>
        /\ vm'.at \in {"idle", "script", vm.at}
    BY <1>2 DEF RunString, RunScript, ScriptEnds, policyVars, eventVars, Idle
  <2> QED  BY <2>1 DEF RestInv, RequestIDs
<1> QED  BY <1>1, <1>2, RunStep, RestNext

LEMMA PlainNext == RunInv /\ PlainInv /\ [RunNext]_runVars => PlainInv'
<1> SUFFICES ASSUME RunInv, PlainInv, [RunNext]_runVars PROVE PlainInv'
  OBVIOUS
<1>1. RestInv'
  BY RestOfRun DEF PlainInv
<1>2. flags \in Flags /\ verdict \in {"none", "ok", "okFalse", "timeout", "failed"}
  BY DEF PlainInv
<1>3. subscribed \subseteq Kinds /\ clientClosed \in BOOLEAN /\ scripted \in BOOLEAN
  BY DEF PlainInv
<1>4. UNCHANGED flags /\ (verdict' \in {"ok", "okFalse", "timeout", "failed"} \/ UNCHANGED verdict)
  BY DEF RunNext, runVars, cmdVars, Command, Connect, OnNotification, OnRequest, RunString, RunScript, ScriptEnds,
         UIEventMatches, UITimeout, SettleEnds, Unsubscribe, CloseRuntime, CloseClient, Quits, Tasks, ScriptCalls,
         UIEmit, SendRequest, RequestEnds, ReadNext, Server, ServerSends
<1>5. subscribed' \in {{}, subscribed, subscribed \cup {"notification"}, subscribed \cup {"request"}}
  BY DEF RunNext, runVars, cmdVars, Command, Connect, OnNotification, OnRequest, RunString, RunScript, ScriptEnds,
         UIEventMatches, UITimeout, SettleEnds, Unsubscribe, CloseRuntime, CloseClient, Tasks, ScriptCalls,
         UIEmit, SendRequest, RequestEnds, ReadNext, Server, ServerSends
<1>6. clientClosed' \in {TRUE, clientClosed} /\ scripted' \in {TRUE, scripted}
  BY DEF RunNext, runVars, cmdVars, uiVars, Command, Connect, OnNotification, OnRequest, RunString, RunScript, ScriptEnds,
         UIEventMatches, UITimeout, SettleEnds, Unsubscribe, CloseRuntime, CloseClient, Tasks, ScriptCalls,
         UIEmit, SendRequest, RequestEnds, ReadNext, Server, ServerSends
<1>7. subscribed' \subseteq Kinds
  BY <1>3, <1>5 DEF Kinds
<1>8. {clientClosed', scripted'} \subseteq BOOLEAN
  BY <1>3, <1>6
<1> QED  BY <1>1, <1>2, <1>4, <1>7, <1>8 DEF PlainInv

\* Every variable of the run keeps its type, those of the runtime included: for any
\* script, events, flags and bounds.
THEOREM RunTypesHold == RunSpec => []RunTypeOK
<1>1. RunInit => PlainInv
  <2> SUFFICES ASSUME RunInit PROVE PlainInv
    OBVIOUS
  <2>1. RestInv
    BY InitRest DEF RunInit
  <2> QED  BY <2>1 DEF RunInit, PlainInv
<1>2. RunInit => VerdictInv
  BY DEF RunInit, VerdictInv, VerdictTellsFirst, Leaving
<1>3. RunInit => EarlyInv
  BY EarlyInitial
<1>4. RunInv /\ PlainInv /\ VerdictInv /\ EarlyInv => RunTypeOK
  <2> SUFFICES ASSUME RunInv, PlainInv, VerdictInv, EarlyInv PROVE RunTypeOK
    OBVIOUS
  <2>1. TypeOK
    BY TypesFollow DEF RunInv, PlainInv
  <2>2. before \in [Waiters -> 0 .. Len(request)]
    <3>1. Waiters = 1 .. Len(before) /\ before \in Seq(Nat) /\ Len(request) \in Nat
      BY DEF EarlyInv, RunInv, IInv, Typed, Waiters
    <3>2. \A w \in Waiters : before[w] \in 0 .. Len(request)
      BY <3>1 DEF EarlyInv
    <3> QED  BY <3>1, <3>2
  <2>3. /\ asked \subseteq DOMAIN request /\ output \in Seq(Message) /\ consumed \in 0 .. Len(output)
        /\ heard \in Seq(1 .. consumed) /\ cmd \in Location
    BY DEF RunInv, WireInv, ControlInv
  <2>4. {slot, first} \subseteq {"empty", "ok", "notOk"}
    BY DEF VerdictInv
  <2> QED  BY <2>1, <2>2, <2>3, <2>4 DEF RunTypeOK, PlainInv
<1> QED  BY <1>1, <1>2, <1>3, <1>4, ReachInitial, ReachNext, EarlyNext, VerdictNext, PlainNext, RunInvariant, PTL
         DEF RunSpec
=============================================================================
