------------------------------- MODULE JsRuntime -------------------------------
(***************************************************************************)
(* The JavaScript runtime of pkg/js: one event loop runs posted tasks in   *)
(* order, and only tasks touch the VM.  The read loop posts events, timers *)
(* post timeouts, and the goroutine of each session.request posts its      *)
(* result.  A task runs JavaScript - predicates, promise continuations,    *)
(* policy callbacks, handlers - that may call back into the session at     *)
(* every one of those points, so the dispatch of an event is several steps *)
(* with calls of the script in between.                                    *)
(*                                                                         *)
(* The runner and the event loop are libraries: a post is refused after    *)
(* Shutdown, and Stop lets the running task end and drops the rest.        *)
(***************************************************************************)
EXTENDS Integers, Sequences, FiniteSets, EventMatch, SequencesExt

CONSTANTS
    Wait,           \* the waits the script asks for
    Event,          \* the events the server sends
    Reply,          \* what a policy callback may do, of Decision
    MaxEvents,      \* bounds: events received,
    MaxWaiters,     \*         calls of waitFor and waitCompleted,
    MaxRequests,    \*         calls of session.request,
    MaxPolicies,    \*         calls of approvals.setPolicy with a policy,
    MaxResponses,   \*         responses the script sends itself,
    MaxAnswered,    \*         responses after which thenables call back no more,
    MaxHandlers     \*         handlers registered

\* What comes of a callback: a decision, a promise of one, an object whose then
\* function is the script's own, or nothing - it throws, returns undefined, or
\* the policy has no callback for the method.
Decision == {"decision", "promise", "thenable", "nothing"}

ASSUME ReplyAssumption == Reply \subseteq Decision
Kinds == {"notification", "request"}

\* What handlers are registered for, and what is posted: "ui" stands for EmitUIEvent.
Buckets == Kinds \cup {"ui"}

ASSUME EventAssumption == \A e \in Event : e.kind \in Buckets
ASSUME WaitAssumption ==   \* waitFor refuses a wait for no kind of event
    \A wait \in Wait : wait.kinds \in (SUBSET Kinds) \ {{}} /\ wait.where \in Predicate
ASSUME BoundAssumption ==
    {MaxEvents, MaxWaiters, MaxRequests, MaxPolicies, MaxResponses, MaxAnswered, MaxHandlers}
        \subseteq Nat

VARIABLES
    queue,      \* posted tasks, oldest first
    accepting,  \* the runner takes posts
    running,    \* the event loop runs
    vm,         \* the task being run: where, the waiters still to be offered the event,
                \* the handlers still to be called with it
    waiter,     \* waiter[w]: the w-th wait
    request,    \* request[q]: the state of the q-th session.request
    policy, epoch,
    attached,   \* requests whose decision is a pending "promise", and those whose
                \* decision is a "thenable"
    counts, totals,  \* event metrics, by method and by kind
    received,   \* how many events were received
    log,        \* the events dispatched so far, the current one included
    responses,  \* the responses sent: the request, and who answered
    slots,      \* slots[b]: the handlers of bucket b, 0 where one was removed
    handler,    \* history: handler[h]: what the h-th handler is for, the first event
                \* it must hear, the first it need not, and those it heard
    inForce     \* history: no cleanup, reset or later policy has ended the last policy

eventVars  == <<counts, totals, log>>
policyVars == <<policy, epoch, inForce>>
handlerVars == <<slots, handler>>
vars == <<queue, accepting, running, vm, waiter, request, policyVars, attached,
          eventVars, received, responses, handlerVars>>

EventTask(e)   == [kind |-> "event", event |-> e]
TimeoutTask(w) == [kind |-> "timeout", id |-> w]
ResolveTask(q) == [kind |-> "resolve", id |-> q]

Idle == [at |-> "idle", todo |-> {}, calls |-> <<>>]
Waiters  == DOMAIN waiter

\* Mutation: a waiter whose timer has fired is taken for settled.
PendingArmed == {w \in Waiters : waiter[w].state = "pending" /\ waiter[w].timer = "armed"}

Pending  == {w \in Waiters : waiter[w].state = "pending"}
Methods  == {e.method : e \in Event}
Handlers == DOMAIN handler
Current  == log[Len(log)]       \* the event being dispatched
RequestIDs == {n \in 1 .. Len(log) : log[n].kind = "request"}

\* Every variable has its type.  Tasks that run a script are HarnessRun's.
TypeOK ==
    /\ \A n \in DOMAIN queue : queue[n].kind \in {"event", "timeout", "resolve", "script"}
    /\ accepting \in BOOLEAN /\ running \in BOOLEAN
    /\ vm.at \in {"idle", "waiters", "policy", "handlers", "script"} /\ vm.todo \subseteq Waiters
    /\ vm.calls \in Seq(Handlers \cup {0}) /\ slots \in [Buckets -> Seq(Handlers \cup {0})]
    /\ \A h \in Handlers : handler[h].bucket \in Buckets /\ handler[h].heard \in Seq(DOMAIN log)
    /\ \A w \in Waiters :
         /\ waiter[w].wait \in Wait
         /\ waiter[w].state \in {"pending", "resolved", "rejected", "timedOut"}
         /\ waiter[w].timer \in {"armed", "fired", "stopped"}
         /\ waiter[w].born \in 0 .. Len(log)
         /\ waiter[w].ended \in 0 .. Len(log)
    /\ \A q \in DOMAIN request : request[q] \in {"inFlight", "posted", "settled", "lost"}
    /\ policy \in 0 .. epoch /\ epoch \in 0 .. MaxPolicies /\ inForce \in BOOLEAN
    /\ attached \in [{"promise", "thenable"} -> SUBSET RequestIDs]
    /\ counts \in [Methods -> Nat] /\ totals \in [Kinds -> Nat]
    /\ received \in 0 .. MaxEvents
    /\ log \in Seq(Event)
    /\ \A n \in DOMAIN responses :
         responses[n].id \in RequestIDs /\ responses[n].by \in {"policy", "script"}

Init ==
    /\ queue = <<>>
    /\ accepting = TRUE /\ running = TRUE
    /\ vm = Idle
    /\ waiter = <<>>
    /\ request = <<>>
    /\ policy = 0 /\ epoch = 0 /\ inForce = FALSE
    /\ attached = [k \in {"promise", "thenable"} |-> {}]
    /\ counts = [m \in Methods |-> 0] /\ totals = [k \in Kinds |-> 0]
    /\ received = 0
    /\ log = <<>>
    /\ responses = <<>>
    /\ slots = [b \in Buckets |-> <<>>] /\ handler = <<>>

-----------------------------------------------------------------------------
(* Posts from other goroutines.                                            *)

Post(task) == queue' = IF accepting THEN Append(queue, task) ELSE queue

\* EmitRPCNotification and EmitRPCRequest, called by the client's read loop.
Emit(e) ==
    /\ received < MaxEvents /\ received' = received + 1
    /\ Post(EventTask(e))
    /\ UNCHANGED <<accepting, running, vm, waiter, request, policyVars, attached,
                   eventVars, responses, handlerVars>>

\* The timer of a wait expires.
TimerFires(w) ==
    /\ w \in Waiters /\ waiter[w].timer = "armed"
    /\ waiter' = [waiter EXCEPT ![w].timer = "fired"]
    /\ Post(TimeoutTask(w))
    /\ UNCHANGED <<accepting, running, vm, request, policyVars, attached, eventVars,
                   received, responses, handlerVars>>

\* The client's Request returns, and its goroutine posts the outcome.
RequestReturns(q) ==
    /\ q \in DOMAIN request /\ request[q] = "inFlight"
    /\ request' = [request EXCEPT ![q] = IF accepting THEN "posted" ELSE "lost"]
    /\ Post(ResolveTask(q))
    /\ UNCHANGED <<accepting, running, vm, waiter, policyVars, attached, eventVars,
                   received, responses, handlerVars>>

\* Close: runner.Shutdown, then loop.Stop once the running task has ended.
Shutdown ==
    /\ accepting
    /\ accepting' = FALSE
    /\ UNCHANGED <<queue, running, vm, waiter, request, policyVars, attached, eventVars,
                   received, responses, handlerVars>>

Stop ==
    /\ ~accepting /\ running /\ vm.at = "idle"
    /\ running' = FALSE
    /\ UNCHANGED <<queue, accepting, vm, waiter, request, policyVars, attached, eventVars,
                   received, responses, handlerVars>>

-----------------------------------------------------------------------------
(* The event loop.                                                         *)

Ready(kind) == /\ running /\ vm.at = "idle"
               /\ queue # <<>> /\ Head(queue).kind = kind

\* Mutation: a settled waiter is settled again by what comes later.
SettleAgain(w, how) ==
    waiter' = [waiter EXCEPT ![w].state = how, ![w].ended = Len(log),
                             ![w].timer = IF @ = "armed" THEN "stopped" ELSE @]

\* Mutation: the timer of a settled waiter is not stopped.
SettleTimerRuns(w, how) ==
    IF w \in Pending
    THEN waiter' = [waiter EXCEPT ![w].state = how, ![w].ended = Len(log)]
    ELSE UNCHANGED waiter

\* settleEventWaiter: the first to settle a waiter wins.
Settle(w, how) ==
    IF w \in Pending
    THEN waiter' = [waiter EXCEPT ![w].state = how, ![w].ended = Len(log),
                                  ![w].timer = IF @ = "armed" THEN "stopped" ELSE @]
    ELSE UNCHANGED waiter

\* Mutation: a timeout task does nothing.
RunTimeoutIgnored ==
    /\ Ready("timeout")
    /\ queue' = Tail(queue)
    /\ UNCHANGED <<accepting, running, vm, waiter, request, policyVars, attached, eventVars,
                   received, responses, handlerVars>>

RunTimeout ==
    /\ Ready("timeout")
    /\ queue' = Tail(queue)
    /\ Settle(Head(queue).id, "timedOut")
    /\ UNCHANGED <<accepting, running, vm, request, policyVars, attached, eventVars,
                   received, responses, handlerVars>>

\* The promise of a session.request is settled.
RunResolve ==
    /\ Ready("resolve")
    /\ queue' = Tail(queue)
    /\ request' = [request EXCEPT ![Head(queue).id] = "settled"]
    /\ UNCHANGED <<accepting, running, vm, waiter, policyVars, attached, eventVars,
                   received, responses, handlerVars>>

RecordEventMetrics(e) ==
    /\ counts' = [counts EXCEPT ![e.method] = @ + 1]
    /\ totals' = [totals EXCEPT ![e.kind] = @ + 1]

\* The slots of a bucket are copied; handlers registered later are not called.
CallHandlers(b) == [at |-> "handlers", todo |-> {}, calls |-> slots[b]]

\* An event task begins: recordEventMetrics, and the snapshot of the waiters
\* that dispatchEventToWaiters will offer the event to.  An event of the user
\* interface goes to its handlers only.
RunEvent ==
    /\ Ready("event")
    /\ LET e == Head(queue).event IN
         /\ queue' = Tail(queue)
         /\ log' = Append(log, e)
         /\ IF e.kind = "ui"
            THEN UNCHANGED <<counts, totals>> /\ vm' = CallHandlers("ui")
            ELSE RecordEventMetrics(e) /\ vm' = [Idle EXCEPT !.at = "waiters", !.todo = Pending]
    /\ UNCHANGED <<accepting, running, waiter, request, policyVars, attached, received, responses, handlerVars>>

\* The event is offered to one waiter of the snapshot, in no fixed order.
Offer(w) ==
    /\ vm.at = "waiters" /\ w \in vm.todo
    /\ vm' = [vm EXCEPT !.todo = @ \ {w}]
    /\ LET verdict == Verdict(waiter[w].wait, Current) IN
       CASE verdict = "resolve" -> Settle(w, "resolved")
         [] verdict = "reject"  -> Settle(w, "rejected")
         [] OTHER               -> UNCHANGED waiter
    /\ UNCHANGED <<queue, accepting, running, request, policyVars, attached, eventVars,
                   received, responses, handlerVars>>

\* All were offered it.
WaitersDone ==
    /\ vm.at = "waiters" /\ vm.todo = {}
    /\ vm' = IF Current.kind = "request" THEN [vm EXCEPT !.at = "policy"]
             ELSE CallHandlers("notification")
    /\ UNCHANGED <<queue, accepting, running, waiter, request, policyVars, attached,
                   eventVars, received, responses, handlerVars>>

Respond(n, who) == responses' = Append(responses, [id |-> n, by |-> who])

Attach(n, kind) == attached' = [attached EXCEPT ![kind] = @ \cup {n}]

\* Mutation: after attaching to a promise, the promise is taken for a decision.
CallbackFallsThrough(reply) ==
    /\ IF reply \in {"promise", "thenable"} THEN Attach(Len(log), reply) ELSE UNCHANGED attached
    /\ IF reply = "nothing" THEN UNCHANGED responses ELSE Respond(Len(log), "policy")

\* What applyApprovalPolicy makes of the callback's reply.  It attaches to a
\* promise and to any thenable, and answers for a then that throws; what such a
\* then answers before it throws is counted as answered right after.
Callback(reply) ==
    /\ IF reply \in {"promise", "thenable"} THEN Attach(Len(log), reply) ELSE UNCHANGED attached
    /\ \/ reply # "decision" /\ UNCHANGED responses
       \/ reply \in {"decision", "thenable"} /\ Respond(Len(log), "policy")

\* applyApprovalPolicy; without a policy nothing happens.
ApplyPolicy ==
    /\ vm.at = "policy"
    /\ vm' = CallHandlers("request")
    /\ IF policy = 0
       THEN UNCHANGED <<responses, attached>>
       ELSE \E reply \in Reply : Callback(reply)
    /\ UNCHANGED <<queue, accepting, running, waiter, request, policyVars, eventVars, received, handlerVars>>

\* The next handler is called, and may throw; what it calls is a step of the
\* script.  Empty slots are passed over.
CallHandler ==
    /\ vm.at = "handlers" /\ vm.calls # <<>>
    /\ vm' = [vm EXCEPT !.calls = Tail(@)]
    /\ LET h == Head(vm.calls) IN
         handler' = IF h = 0 THEN handler ELSE [handler EXCEPT ![h].heard = Append(@, Len(log))]
    /\ UNCHANGED <<queue, accepting, running, waiter, request, policyVars, attached,
                   eventVars, received, responses, slots>>

HandlersDone ==
    /\ vm.at = "handlers" /\ vm.calls = <<>>
    /\ vm' = Idle
    /\ UNCHANGED <<queue, accepting, running, waiter, request, policyVars, attached,
                   eventVars, received, responses, handlerVars>>

LoopStep ==
    \/ RunTimeout \/ RunResolve \/ RunEvent
    \/ \E w \in Waiters : Offer(w)
    \/ WaitersDone \/ ApplyPolicy \/ CallHandler \/ HandlersDone

-----------------------------------------------------------------------------
(* Calls the script makes, between tasks (RunString) or inside one.        *)

\* waitForEvent: the waiter enters the map and its timer is armed.
WaitFor(wait) ==
    /\ running /\ Len(waiter) < MaxWaiters
    /\ waiter' = Append(waiter, [wait |-> wait, state |-> "pending", timer |-> "armed",
                                 born |-> Len(log), ended |-> 0])
    /\ UNCHANGED <<queue, accepting, running, vm, request, policyVars, attached, eventVars,
                   received, responses, handlerVars>>

\* rpcRequestPromiseFrom: a goroutine calls the client.
StartRequest ==
    /\ running /\ Len(request) < MaxRequests
    /\ request' = Append(request, "inFlight")
    /\ UNCHANGED <<queue, accepting, running, vm, waiter, policyVars, attached, eventVars,
                   received, responses, handlerVars>>

SetPolicy ==
    /\ running /\ epoch < MaxPolicies
    /\ epoch' = epoch + 1 /\ policy' = epoch + 1 /\ inForce' = TRUE
    /\ UNCHANGED <<queue, accepting, running, vm, waiter, request, attached, eventVars,
                   received, responses, handlerVars>>

\* Mutation: the epoch is not compared.
ClearPolicyAny(k) ==
    /\ running
    /\ policy' = 0
    /\ inForce' = (inForce /\ k \notin {0, epoch})
    /\ UNCHANGED <<queue, accepting, running, vm, waiter, request, epoch, attached, eventVars,
                   received, responses, handlerVars>>

\* clearApprovalPolicy: k = 0 for setPolicy(null), else the epoch of the
\* cleanup function called, at any time and any number of times.
ClearPolicy(k) ==
    /\ running
    /\ policy' = IF k \in {0, epoch} THEN 0 ELSE policy
    /\ inForce' = (inForce /\ k \notin {0, epoch})
    /\ UNCHANGED <<queue, accepting, running, vm, waiter, request, epoch, attached, eventVars,
                   received, responses, handlerVars>>

\* A promised decision is settled, once: fulfilled with anything, or rejected.
DecisionSettles(n) ==
    /\ running /\ n \in attached["promise"]
    /\ attached' = [attached EXCEPT !["promise"] = @ \ {n}]
    /\ Respond(n, "policy")
    /\ UNCHANGED <<queue, accepting, running, vm, waiter, request, policyVars,
                   eventVars, received, handlerVars>>

\* A thenable of the script's own calls onFulfilled or onRejected, whenever and
\* as often as it likes: neither remembers that it was called.
ThenableCallsBack(n) ==
    /\ running /\ n \in attached["thenable"] /\ Len(responses) < MaxAnswered
    /\ Respond(n, "policy")
    /\ UNCHANGED <<queue, accepting, running, vm, waiter, request, policyVars, attached,
                   eventVars, received, handlerVars>>

\* approval.accept and its siblings, session.respond, session.respondError.
ScriptResponds(n) ==
    /\ running /\ n \in RequestIDs
    /\ Cardinality({k \in DOMAIN responses : responses[k].by = "script"}) < MaxResponses
    /\ Respond(n, "script")
    /\ UNCHANGED <<queue, accepting, running, vm, waiter, request, policyVars, attached,
                   eventVars, received, handlerVars>>

\* events.metrics().reset
ResetMetrics ==
    /\ running
    /\ counts' = [m \in Methods |-> 0] /\ totals' = [k \in Kinds |-> 0]
    /\ UNCHANGED <<queue, accepting, running, vm, waiter, request, policyVars, attached, log,
                   received, responses, handlerVars>>

\* The first event whose handlers have not been copied yet.
NextHeard == IF vm.at \in {"waiters", "policy"} THEN Len(log) ELSE Len(log) + 1

\* registerHandler: each handler gets a slot of its own for good.
RegisterHandler(b) ==
    /\ running /\ Len(handler) < MaxHandlers
    /\ slots' = [slots EXCEPT ![b] = Append(@, Len(handler) + 1)]
    /\ handler' = Append(handler, [bucket |-> b, slot |-> Len(slots[b]) + 1, from |-> NextHeard,
                                   until |-> 0, heard |-> <<>>])
    /\ UNCHANGED <<queue, accepting, running, vm, waiter, request, policyVars, attached,
                   eventVars, received, responses>>

RemovedFrom(h, seq) ==
    /\ slots' = [slots EXCEPT ![handler[h].bucket] = seq]
    /\ handler' = [handler EXCEPT ![h].until = IF @ = 0 THEN NextHeard ELSE @]
    /\ UNCHANGED <<queue, accepting, running, vm, waiter, request, policyVars, attached,
                   eventVars, received, responses>>

\* Mutation: the slot is taken out, and later handlers move down.
RemoveHandlerShifts(h) ==
    /\ running
    /\ LET own == slots[handler[h].bucket] IN
         RemovedFrom(h, IF handler[h].slot \in DOMAIN own THEN RemoveAt(own, handler[h].slot) ELSE own)

\* The function registerHandler returned, called at any time and any number of times.
RemoveHandler(h) ==
    /\ running
    /\ RemovedFrom(h, [slots[handler[h].bucket] EXCEPT ![handler[h].slot] = 0])

ScriptStep ==
    \/ \E wait \in Wait : WaitFor(wait)
    \/ StartRequest \/ SetPolicy \/ ResetMetrics
    \/ \E k \in 0 .. epoch : ClearPolicy(k)
    \/ \E n \in RequestIDs : DecisionSettles(n) \/ ThenableCallsBack(n) \/ ScriptResponds(n)
    \/ \E b \in {e.kind : e \in Event} : RegisterHandler(b)
    \/ \E h \in Handlers : RemoveHandler(h)

Next ==
    \/ \E e \in Event : Emit(e)
    \/ \E w \in Waiters : TimerFires(w)
    \/ \E q \in DOMAIN request : RequestReturns(q)
    \/ Shutdown \/ Stop \/ LoopStep \/ ScriptStep

Spec == Init /\ [][Next]_vars

\* The loop runs while it has tasks, timers expire, and Request returns: the
\* context the runtime is given ends it.  Nothing obliges the script to call,
\* the server to send or the program to close.
FairSpec ==
    /\ Spec
    /\ WF_vars(LoopStep)
    /\ \A w \in 1 .. MaxWaiters : WF_vars(TimerFires(w))
    /\ \A q \in 1 .. MaxRequests : WF_vars(RequestReturns(q))

-----------------------------------------------------------------------------
(* What the runtime promises.                                              *)

\* The last event wait w has let pass.
LetPass(w) ==
    CASE waiter[w].state = "pending"  -> IF w \in vm.todo THEN Len(log) - 1 ELSE Len(log)
      [] waiter[w].state = "timedOut" -> waiter[w].ended
      [] OTHER                        -> waiter[w].ended - 1

\* Each wait ends with the first event after its registration that matches it,
\* whatever the order in which the waiters of an event are offered it, and with
\* waits the continuations register meanwhile; it times out only when no such
\* event was dispatched before the timeout ran.
WaitTakesFirstMatch ==
    \A w \in Waiters :
        LET x == waiter[w]
            does(n) == Verdict(x.wait, log[n])
        IN /\ \A n \in x.born + 1 .. LetPass(w) : does(n) = "skip"
           /\ x.state = "resolved" => x.ended > x.born /\ does(x.ended) = "resolve"
           /\ x.state = "rejected" => x.ended > x.born /\ does(x.ended) = "reject"

\* A settled wait leaves no armed timer behind, and one that is still pending
\* has a timeout to come: armed, or posted unless the runner was shut down.
TimersMatchWaits ==
    \A w \in Waiters :
        IF w \in Pending
        THEN waiter[w].timer = "fired" /\ accepting => TimeoutTask(w) \in {queue[n] : n \in DOMAIN queue}
        ELSE waiter[w].timer # "armed"

\* "Epoch-based versioning prevents stale policies": the policy in force is the
\* one set last unless its own cleanup or setPolicy(null) came after it; the
\* cleanup of an earlier policy, however late, changes nothing.
PolicyInForce == policy = IF inForce THEN epoch ELSE 0

\* A policy answers a request at most once, a promised decision included,
\* although policies are replaced and the promise may settle much later.  Only a
\* thenable of the script's own answers as often as it calls back, and once more
\* when its then throws.
PolicyAnswersOnce ==
    \A n \in RequestIDs \ attached["thenable"] :
        LET answers == {k \in DOMAIN responses : responses[k] = [id |-> n, by |-> "policy"]}
        IN Cardinality(answers) + (IF n \in attached["promise"] THEN 1 ELSE 0) <= 1

\* Each handler is called once with each event of its kind, in order, from its
\* registration until its removal, and with no other, although handlers come
\* and go while an event is dispatched and a removal may be asked for twice.
HandlersHearAll ==
    \A h \in Handlers :
        LET x == handler[h]
            last == IF x.until > 0 THEN x.until - 1 ELSE NextHeard - 1
            due == {n \in x.from .. last : log[n].kind = x.bucket}
        IN /\ ToSet(x.heard) = IF h \in ToSet(vm.calls) THEN due \ {Len(log)} ELSE due
           /\ \A i, j \in DOMAIN x.heard : i < j => x.heard[i] < x.heard[j]

\* The guide's walk-through ends with {"turn": {"id": "turn1"}} for
\* turn/completed: a wait for that turn does not time out after the event.
GuideTurnIsSeen ==
    \A w \in Waiters, n \in 1 .. Len(log) :
        /\ log[n].method = "turn/completed"
        /\ log[n].params.turn # NoObject /\ log[n].params.turn.id = waiter[w].wait.turn
        /\ waiter[w].wait.turn # None /\ waiter[w].born < n
        => ~(waiter[w].state = "timedOut" /\ waiter[w].ended >= n)

\* Every promise the script is given settles, unless the runtime is closed: a
\* wait ends by its event, a throwing predicate or its timeout, a request when
\* Request has returned.
PromisesSettle ==
    /\ \A w \in 1 .. MaxWaiters : w \in Pending ~> w \notin Pending \/ ~accepting
    /\ \A q \in 1 .. MaxRequests :
         q \in DOMAIN request ~> ~accepting \/ (q \in DOMAIN request /\ request[q] = "settled")
=============================================================================
