# TLA+ models of openai-app-server

The program drives a Codex app server over JSON-RPC: a client talks to the
server process, a JavaScript runtime lets a script react to the server's events,
harnesses answer its approval requests, and a store projects its events into
threads, turns and items. This directory holds TLA+ modules of the concurrent and
stateful parts of it, TLC configurations that check them, and TLAPS proofs.

Contents: [inventory](#inventory), [modules](#modules), [runs](#runs-and-bounds),
[fairness](#fairness), [proofs](#proofs), [divergences](#where-code-and-documents-disagree),
[limits and plan](#not-modelled-and-plan).

## Inventory

| Component | State | Operations | Interacts with |
|---|---|---|---|
| JSON-RPC client, `pkg/codexrpc/client.go` | handshake state, id counter, pending map of response channels, `done`, two handler registries, two rings of recent events | `Connect`, `Request`, `Notify`, `Respond`, `RespondError`, `Close`, `OnNotification`, `OnRequest`, the read loop | transport; handlers run on the read loop |
| stdio transport, `transport_stdio.go` | closed flag, write lock, child process | `Send`, `Recv`, `Close` | server's stdin and stdout |
| retry, `retry.go` | none beyond one call | `RequestWithRetry` | client |
| JavaScript runtime, `pkg/js` | event loop, waiters and timers, approval policy and epoch, metrics, handler registries | `EmitRPC*`, `RunString`, `Close`; for the script `waitFor`, `waitCompleted`, `request`, `respond`, `setPolicy`, ... | client through `RPCBridge`; UI bridge |
| harness dispatcher, `pkg/harness` | handler registry; per request a `RequestContext` | `OnRequest`, `OnNotification`, `Dispatch*`, `Respond`, `RespondError`, `Diagnostics` | a response sender; built-in harnesses |
| built-in harnesses, `pkg/harness/builtin` | seen turns, iterations, requested compactions | one handler each | dispatcher; a controller |
| state store and projector, `pkg/state` | bounded maps of threads, turns, items with their order | `Projector.Apply`, the setters, snapshots | fed with the client's events |
| `harness run`, `cmd/openai-app-server` | one client, one runtime, a one-slot channel | run a script, wait for a UI event, settle, close | client, runtime |
| other commands, configuration | none | flags, printing, parameter building | client, projector |

What makes them hard, and what makes them correct:

* **Client.** Callers, the read loop and `Close` meet at two locks, a channel per
  call and `done`. Correct: nothing is sent before the handshake permits it;
  each call gets the first answer to its own id; a response is only ever sent
  on an open, empty channel; closing releases everybody; no entry is orphaned.
  Its registries must survive subscription during dispatch; its rings must hold the
  newest events. A request is repeated only when the server turned it down.
* **Runtime.** One event loop, but timers, the read loop and one goroutine per
  request post to it, and the script may call back at every point where the dispatch
  of an event runs JavaScript. Correct: a wait ends with its first match
  or its timeout, once; a stale policy cleanup changes nothing; a policy answers once, by
  a decision or a promise of one; handlers hear every event between their registration and their removal.
* **Harness.** Several handlers, some on goroutines of their own, share the right to
  answer once. Correct: one send, diagnostics and verdict that tell the truth.
  The built-in ones share state between concurrent dispatches and call controllers
  that may fail. Correct: they act once per turn, within their budgets, and an
  error is told and ends the dispatch.
* **Run.** The read loop, the event loop, the script's request goroutines and the
  command's own goroutine start one after the other and end in the reverse order.
  Correct: the script hears the events that follow its requests, the exit code fits
  what it emitted, and everything ends.
* **Store.** Late, repeated and reordered events meet three bounded levels. Correct:
  maps and orders agree, the bound holds, the record just written is there, and only
  the oldest leaves.

The hazards, each at its line, with the properties aimed at it, are in `PROJECT.json`.

## Modules

| Module | Models |
|---|---|
| `RpcClient` | the calls, the read loop and `Close` of `client.go` over the stdio transport |
| `RpcClientProofs` | its safety theorems, and the proof of the refinement |
| `RpcCall` | what a goroutine that calls the client is promised: the abstract specification |
| `RpcClientRefinement` | the refinement mapping from `RpcClient` to `RpcCall` |
| `RequestRetry`, `RequestRetryProofs` | `retry.go`, on top of `RpcCall`, and its theorems |
| `EventDispatch`, `EventDispatchProofs` | handler registries, dispatch of events, rings of `client.go`, and theorems about each of them |
| `Protocol` | which messages are requests, notifications, responses (`protocol.go`) |
| `StateStore`, `StateStoreProofs` | `store.go` and `projector.go`, and theorems |
| `EventMatch` | which events a waiter takes (pure functions of `pkg/js`) |
| `JsRuntime`, `JsRuntimeProofs` | the event loop, waits, requests, policies, handlers, metrics of `pkg/js`, and theorems |
| `HarnessDispatch`, `HarnessDispatchProofs` | request dispatch and `context.go`, and theorems |
| `Builtins`, `BuiltinsProofs` | `compose.go`, notification dispatch, the four harnesses that react to notifications, and theorems about all five harnesses |
| `Autopilot` | the decisions of the approval harness, as functions |
| `HarnessRun`, `HarnessRunProofs` | `harness run`: the command over `JsRuntime`, fed by the client's read loop, and theorems |
| `MC*` | the instances TLC checks |

### RpcClient

`callPc[c]` is the position of goroutine `c` inside `Request`, `Notify`, `Respond`
or `RespondError`; `readPc` that of the read loop; `closePc[p]` that of a goroutine
inside `Close`. A step is one critical section, one channel operation or one
transport call:

| Code | Actions |
|---|---|
| `validateRequestMethod`, `validateNotifyMethod`, test in `Respond` | `Validate` |
| `isClosed`, `ensureReadLoop`, `nextID.Add` | `Opened`, `FoundClosed` |
| insertion into `pending` | `Register` |
| `transport.Send` | `Send`, `SendFailed` |
| the `select` of `Request` | `AwaitCancelled`, `AwaitClosed`, `AwaitResponse` |
| deletion after a failure, `setState` | `Forget`, `SetState` |
| `readLoop`, `dispatchResponse` | `LoopTop`, `Recv`, `RecvError`, `Lookup`, `Deliver` |
| `closeOnce.Do`, its body, `transport.Close` | `Close`, `EnterOnce`, `SetClosed`, `CloseDone`, `Drain`, `CloseTransport` |

The server is external: it answers any request it received, any number of times and
in any order, sends events, and may send a line that does not decode. `wire` and
`output` are what went either way. An id is its number (`idKey` is injective on
the ids the counter hands out). An event is one message: what it does to handlers is
`EventDispatch`. Deadlines are choices: any send may fail and any wait
be cancelled at any time. A message that cannot be encoded counts as a send that fails,
although the code then returns before it registers the id: the outcome is the same.

### RpcCall, RpcClientRefinement and RequestRetry

`RpcCall` knows nothing of locks, channels and the read loop: a request draws a new id
(`Issue`), is sent at most once (`Transmit`), may be answered (`Answer`), and
returns what it deserves (`Return`): its own first answer, `closed` only when the client
is being closed, `refused` only before it had an id. `RpcClientRefinement` maps
the client's state to it: a call is in progress while `callPc[c]` is not `idle`, the ids
sent are those of the requests in `wire`, the answers that count are the first of each id
among the messages `Recv` has returned, and the client is closing once `closeOnce` was
entered. So `Recv` is the step at which an answer counts; a call may still end with an
error of its own after that.

`RequestRetry` is `RequestWithRetry` as several goroutines run it, its attempts calls of
`RpcCall`: the composition rests on the refinement instead of the client's detail.
Durations are integers with a largest value, `MaxDuration`. `computeBackoff`
multiplies in `float64` and converts; a product out of range becomes the smallest or
the largest duration, as the platform has it (`Converted`). Ids tried and backoffs
are history.

### EventDispatch

Both registries are `slots[kind][pattern]`, an emptied slot is `Nil`. `Subscribe` and
`Unsubscribe` are enabled between any two steps of a dispatch (`Record`, `Snapshot`,
`RunHandler`, `Dispatched`), which covers handlers that subscribe.
`active`, `received`, `called` and `due` are history for the properties: `due` holds
the subscriptions in force at the snapshot, those to the method and those to any.

### StateStore

A level of the store is a record `[map, order]`. Every operation holds the store's
lock from beginning to end, so `Apply(e)` is one step: `Applied(e, store)` goes through
the projector's handler and the setter it calls. `Ensure` is creation with eviction,
the same at each level; `Update` writes to a record if it is still there. An event is
the parameters the projector reads; `thread/started` behaves as `thread/updated` and
`turn/started`, `turn/completed` as `turn/updated`.

### EventMatch and JsRuntime

`queue` holds the tasks posted to the loop. A task that dispatches an event is several
steps: `RunEvent` takes the snapshot of the waiters, `Offer` offers the event to one of
them, `WaitersDone` goes on to `ApplyPolicy` for a request, `HandlersDone` ends
it, with one `CallHandler` for each slot of the copy made when the handlers' turn
came; an emptied slot is passed over. JavaScript runs at each of them, so the calls a script makes (`ScriptStep`:
`WaitFor`, `StartRequest`, `SetPolicy`, `ClearPolicy`, `DecisionSettles`,
`ThenableCallsBack`, `ScriptResponds`, `ResetMetrics`, `RegisterHandler`, `RemoveHandler`) are enabled in
between. An event of the user interface (`EmitUIEvent`) goes to its handlers only;
nobody in the program posts one, `ui.emit` is not looped back. `Verdict` of `EventMatch` says
what an event does to a wait. The runner and the loop are libraries:
a post after `Shutdown` is refused, `Stop` drops what is queued.

What a policy's callback returns is a decision, a promise of one, another thenable, or
nothing (it threw, or returned undefined). The runtime attaches to promises and thenables
alike, by calling `then` (`Attach`). A promise settles once (`DecisionSettles`). Nothing
makes a thenable call back once, and nothing in the runtime remembers that it did, so
`ThenableCallsBack` stays enabled, and `Callback` may answer at once as well, for a `then`
that throws. `PolicyAnswersOnce` holds of all requests but those.

### HarnessDispatch

`dispatch[r]` is the position of `DispatchRequest(r)`, `call[r][h]` that of handler `h`
inside `Respond` or `RespondError`: `Claim` is the critical section, `Send` and
`SendFails` the sender's call after the unlock. A handler ignores the request, fails,
answers and returns the outcome (as the built-in harnesses do), or leaves the answer to a
goroutine. `HandlerRuns` is what it does, `Invoke` that and `MarkHandlerInvoked`. A context
made without a sender (`Senderless`) lets an attempt through and sends nothing. `VerdictFits`
says of all three outcomes of a dispatch without a failing handler what they prove:
a request reported unanswered may still be answered, but only by a goroutine left behind.

### Builtins and Autopilot

Any number of goroutines may be inside `DispatchNotification`. `todo[g]` is the
rest of the copy of the handlers, in the order of `Compose`; the first error empties
it and is the verdict. A handler is its critical section (`Take` for the gates, `Count`
for the TDD loop, `Measure` for auto-compaction) and then one step per call of
the controller, which may fail. Auto-compaction keeps its mutex over
`StartCompaction`, hence `mutex`; the others let theirs go before, so their critical
sections are single steps. A usage ratio is what the two limits tell apart: low,
middle, high or unknown. `made` is the history of the calls.

`Autopilot` holds the two decisions as functions of a request: a scan of the
changes, as a recursive function of how many were read, and the choice of the command.
Numbers come as `float64` and are counted in an `int`: `IntOf` is what the build makes of
each, which the language leaves open for a number out of range, and `Add` wraps.
`AutopilotJudgesAll` of `Builtins` checks them over all requests of up to three
changes or two command actions; the theorem holds for lists of any length. A denied path
the scan can read is never let through. That a change is accepted exactly when it
is in bounds holds while its numbers and their sum are ints (`AllInts`), although sums on
the way may wrap; entries and lists of another shape are skipped, as in the code.

### HarnessRun

The command's goroutine walks through `Connect`, `OnNotification`, `OnRequest`,
`RunString`, the select on the awaited UI event, the settle time and the deferred calls
(`Unsubscribe`, `CloseRuntime`, `CloseClient`). The runtime is `JsRuntime` with its
inputs bound: an event is emitted by `ReadNext`, for the next message of `output` that a
wildcard handler takes, and the script calls nothing before its text runs. A
request of the script is sent (`SendRequest`) and ends (`RequestEnds`) as
`RpcCall` promises: at any time, with an error or its answer. The answer is posted by
the goroutine of the request, not by the read loop, so it may come after events that
followed it on the wire, as in the code. `after` is what the server had received when it
sent a message, and lets properties speak of events that follow a request.

## Runs and bounds

Every run lists in `PROJECT.json` what it asks. Distinct states and times are for two
workers.

| Run | Instance | States | Checks |
|---|---|---|---|
| `RpcClientSafety` | 2 callers, 1 closer, 3 calls, 3 messages | 4.4 M, 100 s | `TypeOK`, `HandshakeOrder`, `SafeDelivery`, `SafeClose`, `PendingOwned`, `FirstAnswerWins` |
| `RpcClientLiveness` | 1 caller, 1 closer, 3 calls, 2 messages | 371 k, 100 s | `ImplementsRpcCall`, `CallsReturn`, `AnsweredCallReturns`, `ReadLoopEnds` |
| `EventDispatch` | 3 subscriptions, 3 events, rings of 2 and 1 | 942 k, 25 s | `RegistryExact`, `DeliveredExactly`, `RingIsTail` |
| `StateStore` | 2 threads for 1 place, 3 turns for 2, 2 items for 1 | 40 k, 27 s | `StoreOK`, `WriteLands`, `EvictsOldest` |
| `JsWaits` | 2 waits and events of 2 kinds each, 1 request | 446 k, 100 s | `WaitTakesFirstMatch`, `TimersMatchWaits`, `PromisesSettle` |
| `JsApprovals` | 2 policies, 2 events, 2 handlers, 1 response of the script, thenables that call back until there are 2 responses | 3.9 M, 136 s | `PolicyInForce`, `PolicyAnswersOnce`, `HandlersHearAll` |
| `HarnessDispatch` | 2 requests, one without a sender, 3 handlers | 99 k, 6 s | `OneSend`, `DiagnosticsTrue`, `VerdictFits` |
| `Builtins` | 2 goroutines, 3 notifications of 7 kinds, all 4 harnesses; ints from -4 to 3 | 302 k, 72 s | `OneGatePerTurn`, `TestBudget`, `CompactsOnce`, `ErrorEndsDispatch`, `AutopilotJudgesAll`, `DispatchEnds` |
| `RequestRetry` | 1 caller, 2 uses, 3 policies, durations up to 31 | 20 k, 4 s | `RepeatsOnlyRejected`, `TellsLastAttempt`, `BackoffInBounds`, `RetryEnds` |
| `HarnessRun` | 2 messages of the server, 1 request, 1 wait, both flags or none | 1.2 M, 154 s | `RunTypeOK`, `EventsReachScript`, `EarlyWaitSees`, `VerdictTellsFirst`, `RunEnds` |

Why the bounds suffice. Two callers, the closer and the read loop are all the
roles there are, and no property relates three calls: three calls make a handshake
(two calls) and a request after it, or two initialize requests and what follows.
Three messages hold an answer, its duplicate and another call's answer in every
order. Where the client's bounds may seem small the proofs take over: every
invariant of `RpcClientSafety` is proved for all of them. Three turns for two places,
and two threads or items for one, make each level of the store overflow and let an
evicted id return. Three subscriptions allow one to be made after another was ended
while a third stays; three events fill either ring beyond its bound. Two events and two
waits contain the wait registered before, during and after a dispatch and the timeout on
either side. Two handlers let one be removed, twice, around the other. Three
notifications hold a turn, its repeat and a third in between, or usage that rises, falls
and rises, with two goroutines overlapping any two of them; the budget of one
iteration is passed by the second turn. Five attempts from a backoff of 5 reach 10, the
limit of 17, and with 40 leave the six bits. Ints from -4 to 3 let three changes of up to
two lines a side wrap, once or twice, and 9 stands for the numbers out of range. Two
responses hold a thenable that answers twice; `MaxAnswered` stops it there, and the proofs
need no such bound. Two messages are an answer or an event on either side of a
request. The deadlock check is off where the system may rest: calls are bounded, and
a server may be silent.

## Fairness

* `RpcClient!Fairness`: each goroutine that can take a step does so eventually, which is
  what the Go scheduler gives. Not assumed: that anybody calls, that the server answers,
  that a deadline passes, or that `Close` is called.
* `JsRuntime!FairSpec`: the loop runs while it has tasks, timers expire, and the client's
  `Request` returns (the context it is given has a deadline in `harness run`). Nothing is
  assumed of the script, the server or `Close`.
* `RequestRetry!FairSpec`: goroutines run and timers fire, and `Request` returns when it
  is answered, its client closes (`CallsReturn`, which `RpcClientLiveness` checks of the
  client) or its context is done. Not assumed: that any of these happens.
* `Builtins!FairSpec`: strong fairness of each goroutine inside a dispatch. It waits for
  nothing but auto-compaction's mutex, and `sync.Mutex` hands a mutex over to who has
  waited too long. Controllers return; nobody need dispatch.
* `HarnessRun!FairRunSpec`: the command's goroutine and the event loop run, timers
  fire, the script's text comes to an end, and `Request` returns once the client is
  closed. The server may never send anything.

## Proofs

| Theorem | States |
|---|---|
| `RpcClientProofs!TypeCorrect` | `Spec => []TypeOK` |
| `RpcClientProofs!HandshakeOrderHolds` | `Spec => []HandshakeOrder` |
| `RpcClientProofs!DeliveryIsSafe` | `Spec => []SafeDelivery` |
| `RpcClientProofs!CloseIsSafe` | `Spec => []SafeClose` |
| `RpcClientProofs!PendingIsOwned` | `Spec => []PendingOwned` |
| `RpcClientProofs!AnswersAreRouted` | `Spec => []FirstAnswerWins` |
| `RpcClientProofs!ClientImplementsCall` | `Spec => ImplementsRpcCall` |
| `RequestRetryProofs!TypeCorrect` | `Spec => []TypeOK` |
| `RequestRetryProofs!RepeatsRejectedOnly` | `Spec => []RepeatsOnlyRejected` |
| `RequestRetryProofs!TellsLast` | `Spec => []TellsLastAttempt` |
| `RequestRetryProofs!BackoffBounded` | `Spec => []BackoffInBounds` |
| `EventDispatchProofs!RingHoldsNewest` | `Spec => []RingIsTail` |
| `EventDispatchProofs!RegistryIsExact` | `Spec => []RegistryExact` |
| `EventDispatchProofs!EventsDelivered` | `Spec => []DeliveredExactly` |
| `StateStoreProofs!StoreStaysOK` | `Spec => []StoreOK` |
| `StateStoreProofs!WritesLand` | `Spec => []WriteLands` |
| `StateStoreProofs!OnlyOldestLeaves` | `Spec => EvictsOldest` |
| `JsRuntimeProofs!WaitsTakeFirstMatch` | `Spec => []WaitTakesFirstMatch` |
| `JsRuntimeProofs!TimersMatch` | `Spec => []TimersMatchWaits` |
| `JsRuntimeProofs!PolicyStaysInForce` | `Spec => []PolicyInForce` |
| `JsRuntimeProofs!PolicyAnswersAtMostOnce` | `Spec => []PolicyAnswersOnce` |
| `JsRuntimeProofs!TypesHold` | `Spec => []TypeOK` |
| `JsRuntimeProofs!HandlersHear` | `Spec => []HandlersHearAll` |
| `HarnessDispatchProofs!AtMostOneResponse` | `Spec => []OneSend` |
| `HarnessDispatchProofs!DiagnosticsTellTruth` | `Spec => []DiagnosticsTrue` |
| `HarnessDispatchProofs!VerdictsFit` | `Spec => []VerdictFits` |
| `BuiltinsProofs!TurnsGatedOnce` | `Spec => []OneGatePerTurn` |
| `BuiltinsProofs!ErrorsEndDispatch` | `Spec => []ErrorEndsDispatch` |
| `BuiltinsProofs!CompactionsOnce` | `Spec => []CompactsOnce` |
| `BuiltinsProofs!TestsInBudget` | `Spec => []TestBudget` |
| `BuiltinsProofs!AutopilotJudges` | `Spec => []AutopilotJudgesAll` |
| `HarnessRunProofs!RunTypesHold` | `RunSpec => []RunTypeOK` |
| `HarnessRunProofs!EventsReach` | `RunSpec => []EventsReachScript` |
| `HarnessRunProofs!EarlyWaitsSee` | `RunSpec => []EarlyWaitSees` |
| `HarnessRunProofs!VerdictTells` | `RunSpec => []VerdictTellsFirst` |

Together they state every invariant and every action property that a passing run checks,
and the refinement. They hold for all values of the constants that the named assumptions
of their modules allow: any goroutines, waits, events, policies, handlers, compositions,
limits and bounds. Each follows from an inductive invariant named in its module, and few
of the properties are inductive alone.

The client's argument. Ids are drawn once: every id in use is at most `nextID`, two
calls never share one, and an id is registered only by its own call. So an entry of
`pending` means that no answer to its id was taken out before: its channel is empty.
The read loop removes the entry before it delivers, so between `Lookup` and
`Deliver` no other step can reach the channel: not `Drain`, which closes channels
of entries, and not the caller, which only empties it. The handshake follows from
what each state is evidence of: `Initialized` of an initialize request that
was answered, `Ready` of an `initialized` sent; a call past `Validate` keeps the evidence,
because `wire` and the consumed part of `output` only grow. `FirstAnswerWins` adds that
the answer in a channel is the first to its id among those consumed. None of
the properties is inductive alone; the conjuncts needed are named and proved one by one.

The refinement's argument. The invariant above is the one needed: what a call
returns with is an answer that `FirstAnswerWins` makes the first of its id, so it is in
`FirstAnswers`; an id a call has drawn is in no other call and in `wire` at most
once; a call that read `done` or a closed channel follows an entered `closeOnce`. Each
action then maps to one action of `RpcCall` or leaves all of its variables alone: `Recv`
of a first response is `Answer`, of a later one a stutter, since the set of
first answers does not change.

The retry's argument. While an attempt is in progress (`Progress`) the last id tried is
the one `RpcCall` has for the caller, all earlier ones are answered `overloaded`, and there
are as many ids as attempts begun; a returned answer deserves its id, and answers
are never taken back. `BackoffInBounds` needs that the n-th wait is the backoff after
the n-th attempt (`WaitsInv`); that a wait is no shorter than the one before is then arithmetic on
`Pow`, whose recursion is used one step at a time.

The registries' arguments. A ring is the tail of the events recorded, cut to its bound;
appending one and cutting again gives the tail of the longer sequence. A subscription
owns its slot for good and fills it while it is in force (`RegistryInv`), so emptying a
slot ends that subscription only. `DeliveryInv` cuts the snapshot in two, the calls made
and those to come: together they are the subscriptions due, each part is in order, and
all of the first precede all of the second.

The store's argument. A level is one table whatever its records: `Ensure` on a full table
drops the head of the order and appends, which keeps it free of repetition and within its
bound, and the new id is last, never the one dropped, because bounds are at least one. The
lemmas about one table, taken at each of the three levels, give `StoreInv` and with it the
three properties. What `EvictsOldest` says of a step is proved by the same lemmas
(`StoreInvNext`).

The runtime's argument. The types the waits need and `TimersMatchWaits` are inductive
together with `SnapshotInv`: the waiters still to be offered an event were registered
before it, and none has let it pass. What a wait let pass it was offered and skipped; a
wait registered during a dispatch is not in the snapshot and begins after the current
event. For the policy's answers, a request that has no thenable is answered by the
policy, awaits a promise of it, or is the current event before its policy step, and never two
of these; no request has both a promise and a thenable (`AnswerInv`).
For the handlers, `HandlerInv` says that a slot is its handler's for good, that the copy
still to be called holds a handler once and only such as were there before the event, and
that what a handler has heard are exactly the events due to it, less the current one
while it is to be called. `TypesHold` adds the rest of the types to these two.

The harnesses' arguments. A handler past `Claim` on the sending side found the
context unmarked and marked it (`Marked`), so there is at most one; what was sent for a
request came from such a handler, so there is at most one response. The diagnostics count
handlers that called (`Counted`), and a handler calls once because a dispatch goes over a
copy in which nobody is twice (`Fresh`, `Registered`). `RanInv` adds that
the handlers counted and those still to run are no more than the method has, that each
handler that called was counted, and that while nobody was let through only goroutines
have called, but for the handler the dispatch waits for. A gate's goroutine past `Take` has
marked a turn that was not marked, so no two are past it with the same turn, and none with
a turn a call was made for (`Once`). Dispatches in progress are distinct and open
(`JobsOpen`), so the goroutine whose call fails is the only one that could act for its
dispatch. Who starts a compaction holds the mutex, and its thread is in nobody's
`requested` (`Starting`). `BudgetInv` counts finite sets only, although goroutines need
not be finitely many.

The autopilot's argument is an induction over the list. The library's induction theorems
take an operator as a parameter, which the provers cannot instantiate; `Induction` states
it for a set that holds 0 and all successors, from the least element of its complement,
and `StepwiseExists` derives from it that a function defined by a base and a step
exists. Both the scan and the count of lines are such functions (`ScanCounts`). The scan's
total and the true sum differ by a multiple of the ints' number (`Congruent`), which adding
a change preserves, wraps or not (`CongruentStep`); two ints that differ so are equal, so at
the end, when the true sum is an int, the total is the sum.

The run's argument. Its steps are steps of the runtime, or the three that start, run and
end the script's text (`RunStep`), so the runtime's invariants carry over; `ControlInv` adds what
the position of the command is evidence of: no request before the script, all kinds
subscribed while it runs, posts accepted until the command leaves. `VerdictInv`: until the
command has left the select, the one-slot channel holds the first awaited event.
`QueueTells`: what was posted is what was dispatched and then the events queued, in order.
An event that follows a request was sent when the script had run, so it was subscribed
to and accepted (`ReachInv`). What a wait does not look at was sent before the server had
any request made after it (`EarlyInv`).

Model-checked only: the liveness properties `CallsReturn`, `AnsweredCallReturns`,
`ReadLoopEnds`, `PromisesSettle`, `DispatchEnds`, `RetryEnds` and `RunEnds`, because
fairness and `ENABLED` are beyond the prover. The two properties that the code violates
have no theorem.

## Where code and documents disagree

Two runs check what a document says and find it violated by what the code does:

| Run | Document | Code |
|---|---|---|
| `RpcClientClosed` | closed is the last state | a handshake step that ends after `Close` sets the state again |
| `JsGuideTurn` | `turn/completed` with a nested turn ends the walk-through | the turn's id is taken for a thread's, the wait times out |

More were seen in the code, and most of them are behaviours of the models:

* Exactly one `initialize` per connection, says a design; overlapping `Connect` calls, or
  one repeated after a cancelled wait, both send it (`client.go:339`).
* One response per request, enforced in code, says a design; the policy and the script
  may both answer (`runtime.go:192`). A policy alone may: when its callback returns a thenable
  of the script's own it answers at each call of it, and once more if its `then` throws
  (`runtime.go:765`, `runtime.go:778`). `PolicyAnswersOnce` leaves only these requests out.
* Exactly one response per request, says the guide; a send that fails uses the
  response up (`context.go:84`).
* LRU eviction, says the guide; the store evicts by creation (`store.go:248`).
* A turn event whose thread id is only inside the turn object, as in an example of the
  guide, is dropped (`projector.go:70`).
* An explicit decline when a policy callback throws, asks a design; the request stays
  unanswered (`runtime.go:679`).
* `MaxChangedLines` bounds the changes the autopilot accepts; the count is an `int` that
  wraps, so that very large numbers may sum to less (`autopilot.go:86`).
  `AutopilotJudgesAll` says when the bound is kept.
* `MaxBackoff` bounds the backoff from above only: when the product leaves the range
  of a duration the wait may be negative and the next attempt follows at once
  (`retry.go:84`). `BackoffInBounds` says what holds.

## Not modelled, and plan

Left out for good: flag parsing, printing and configuration, the thread and replay
commands (one call of the client or the projector each, sequential, no state), the
construction of initialize and thread parameters (data), logging, the clock module, the
memory transport, the documents and scripts under `ttmp/`. External, modelled from their use
only: the app server, the operating system's pipes, `goja`, its event loop and the
runner, controllers and callbacks of the user.

Not modelled because nothing in the program does it: a handler of the client that calls
`Request` on the read loop, and would wait for itself (`client.go:315`). A server
that stops reading its input while `Send` is under way blocks the caller; the models
let every send end. A handler of the dispatcher that answers a request twice by itself: the
second attempt would meet what another handler's attempt meets in the models.

Simplified: the gates' key is the text `thread:turn`, and ids with a colon in
them could collide (`plan_gate.go:46`), where `TurnOf` is a pair. An id is not looked for in
a `params` object nested in the event's parameters (`module_codex.go:270`).
`ErrorEndsDispatch` is about calls of the controller; an error of the configured `Approve`
ends the dispatch in the model, but is no entry of `made`. In `HarnessRun` the read loop's copy
of the handlers and the call are one step, and the script waits and requests only: its
handlers and policies are checked in `JsRuntime` without the command around them. The
event metrics of `JsRuntime` are modelled and typed, and no property says more of them.

To come:

1. The composition of the runs' halves as a refinement: that a request of `HarnessRun` is a
   call of `RpcCall`, so that what is proved of the client holds inside the command.
2. An abstract specification of a wait, what `waitFor` promises a script, and `JsRuntime`
   shown to implement it.
3. An abstract specification of a request's response, at most one and told truly, and
   `HarnessDispatch` shown to implement it.
