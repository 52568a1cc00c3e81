------------------------------ MODULE HarnessRun ------------------------------
(***************************************************************************)
(* The command `harness run': one client, one JavaScript runtime and the   *)
(* command's own goroutine.  It connects, subscribes the runtime to every  *)
(* event, runs the script, may wait for an event of the user interface,    *)
(* settles, and takes everything down in the reverse order.                *)
(*                                                                         *)
(* The runtime is JsRuntime, with its inputs bound: Emit is called by the  *)
(* client's read loop for the messages the server sent, in their order,    *)
(* and a request of the script returns when the read loop has seen its     *)
(* answer, the run's deadline has passed or the client is closed (RpcCall).*)
(* The server reads its input: a write to it never blocks for good.        *)
(***************************************************************************)
EXTENDS JsRuntime, Protocol

CONSTANTS
    Flags,      \* the flags a run may be given
    MaxOutput   \* bound: the messages the server sends

\* --wait-for-ui-type is given; --fail-on-wait-ui-ok-false is given.
ASSUME FlagsAssumption == Flags \subseteq [wait : BOOLEAN, fail : BOOLEAN]
ASSUME OutputAssumption == MaxOutput \in Nat

VARIABLES
    cmd,        \* where the command is
    flags,
    verdict,    \* what the command returns
    scripted,   \* the text of the script has begun to run
    slot,       \* waitEventCh: the ok field of the event in it, or "empty"
    subscribed, \* kinds of events the runtime hears of
    clientClosed,
    asked,      \* requests of the script that the server has received
    output,     \* everything the server sent
    consumed,   \* how many of these the read loop has dispatched
    heard,      \* history: which of these were posted to the runtime
    first,      \* history: the ok field of the first event of the awaited type
    before      \* history: before[w]: requests made before wait w

cmdVars  == <<cmd, flags, verdict, subscribed, clientClosed>>
wireVars == <<asked, output, consumed, heard>>
uiVars   == <<scripted, slot, first>>
runVars  == <<cmdVars, wireVars, uiVars, before, vars>>

Leaving  == {"unsubscribe", "shutdown", "stop", "close", "done"}
Location == {"connect", "onNotification", "onRequest", "script", "running", "waitUI",
             "settle"} \cup Leaving
Message  == [envelope : Envelope, id : 0 .. MaxRequests, event : Event \cup {NoObject},
             after : SUBSET (1 .. MaxRequests)]

\* Every variable has its type, those of the runtime included.
RunTypeOK ==
    /\ TypeOK
    /\ cmd \in Location
    /\ flags \in Flags
    /\ verdict \in {"none", "ok", "okFalse", "timeout", "failed"}
    /\ {slot, first} \subseteq {"empty", "ok", "notOk"}
    /\ subscribed \subseteq Kinds
    /\ {clientClosed, scripted} \subseteq BOOLEAN
    /\ asked \subseteq DOMAIN request
    /\ output \in Seq(Message) /\ consumed \in 0 .. Len(output)
    /\ heard \in Seq(1 .. consumed)
    /\ before \in [Waiters -> 0 .. Len(request)]

RunInit ==
    /\ Init
    /\ cmd = "connect"
    /\ flags \in Flags
    /\ verdict = "none"
    /\ scripted = FALSE /\ slot = "empty" /\ first = "empty"
    /\ subscribed = {}
    /\ clientClosed = FALSE
    /\ asked = {}
    /\ output = <<>> /\ consumed = 0 /\ heard = <<>>
    /\ before = <<>>

-----------------------------------------------------------------------------
(* The command.                                                            *)

Goes(from, to) == cmd = from /\ cmd' = to
Quits(v)       == cmd' = "unsubscribe" /\ verdict' = v

\* newHarnessRunClient, and the runtime; a handshake that fails ends the run.
Connect ==
    /\ \/ Goes("connect", "onNotification") /\ UNCHANGED <<verdict, clientClosed>>
       \/ Goes("connect", "done") /\ verdict' = "failed" /\ clientClosed' = TRUE
    /\ UNCHANGED <<flags, subscribed, wireVars, uiVars, before, vars>>

OnNotification ==
    /\ Goes("onNotification", "onRequest")
    /\ subscribed' = subscribed \cup {"notification"}
    /\ UNCHANGED <<flags, verdict, clientClosed, wireVars, uiVars, before, vars>>

OnRequest ==
    /\ Goes("onRequest", "script")
    /\ subscribed' = subscribed \cup {"request"}
    /\ UNCHANGED <<flags, verdict, clientClosed, wireVars, uiVars, before, vars>>

\* RunString posts the script and waits for its end, unless it cannot be read.
RunString ==
    /\ cmd = "script"
    /\ \/ /\ Goes("script", "running")
          /\ Post([kind |-> "script"])
          /\ UNCHANGED verdict
       \/ Quits("failed") /\ UNCHANGED queue
    /\ UNCHANGED <<flags, subscribed, clientClosed, wireVars, uiVars, before,
                   accepting, running, vm, waiter, request, policyVars, attached,
                   eventVars, received, responses, handlerVars>>

RunScript ==
    /\ Ready("script")
    /\ queue' = Tail(queue)
    /\ vm' = [at |-> "script", todo |-> {}, calls |-> <<>>]
    /\ scripted' = TRUE
    /\ UNCHANGED <<cmdVars, wireVars, slot, first, before, accepting, running, waiter, request,
                   policyVars, attached, eventVars, received, responses, handlerVars>>

\* The script's text has run, or thrown.
ScriptEnds ==
    /\ vm.at = "script"
    /\ vm' = Idle
    /\ \/ cmd' = (IF flags.wait THEN "waitUI" ELSE "settle") /\ UNCHANGED verdict
       \/ Quits("failed")
    /\ UNCHANGED <<flags, subscribed, clientClosed, wireVars, uiVars, before, queue, accepting,
                   running, waiter, request, policyVars, attached, eventVars, received, responses, handlerVars>>

\* The select on waitEventCh and the timer.
UIEventMatches ==
    /\ cmd = "waitUI" /\ slot # "empty"
    /\ slot' = "empty"
    /\ IF slot = "notOk" /\ flags.fail
       THEN Quits("okFalse")
       ELSE cmd' = "settle" /\ UNCHANGED verdict
    /\ UNCHANGED <<flags, subscribed, clientClosed, wireVars, scripted, first, before, vars>>

UITimeout ==
    /\ cmd = "waitUI"
    /\ Quits("timeout")
    /\ UNCHANGED <<flags, subscribed, clientClosed, wireVars, uiVars, before, vars>>

SettleEnds ==
    /\ cmd = "settle"
    /\ Quits("ok")
    /\ UNCHANGED <<flags, subscribed, clientClosed, wireVars, uiVars, before, vars>>

\* The deferred calls, last first: the unsubscribe functions, runtime.Close (which
\* lets the running task end), client.Close.
Unsubscribe ==
    /\ Goes("unsubscribe", "shutdown")
    /\ subscribed' = {}
    /\ UNCHANGED <<flags, verdict, clientClosed, wireVars, uiVars, before, vars>>

CloseRuntime ==
    /\ \/ Goes("shutdown", "stop") /\ Shutdown
       \/ Goes("stop", "close") /\ Stop
    /\ UNCHANGED <<flags, verdict, subscribed, clientClosed, wireVars, uiVars, before>>

CloseClient ==
    /\ Goes("close", "done")
    /\ clientClosed' = TRUE
    /\ UNCHANGED <<flags, verdict, subscribed, wireVars, uiVars, before, vars>>

Command ==
    \/ Connect \/ OnNotification \/ OnRequest \/ RunString
    \/ UIEventMatches \/ UITimeout \/ SettleEnds \/ Unsubscribe \/ CloseRuntime \/ CloseClient

-----------------------------------------------------------------------------
(* The runtime's tasks and the script's calls.  The script makes none      *)
(* before its text is run.  Here it waits and requests; its handlers and   *)
(* policies are JsRuntime's, without the command around them.              *)

Tasks ==
    /\ LoopStep \/ (\E w \in Waiters : TimerFires(w))
    /\ UNCHANGED <<cmdVars, wireVars, uiVars, before>>

ScriptCalls ==
    /\ scripted
    /\ \/ /\ \E wait \in Wait : WaitFor(wait)
          /\ before' = Append(before, Len(request))
       \/ (StartRequest /\ UNCHANGED before)
    /\ UNCHANGED <<cmdVars, wireVars, uiVars>>

\* Mutation: a later event of the awaited type takes the place of the first.
UIEmitOverwrites(ok) ==
    /\ scripted /\ running /\ flags.wait /\ cmd \in {"running", "waitUI"}
    /\ first' = IF first = "empty" THEN ok ELSE first
    /\ slot' = ok
    /\ UNCHANGED <<cmdVars, wireVars, scripted, before, vars>>

\* ui.emit of the awaited type: the bridge offers it to the one-slot channel.
\* Without the flag and for other types it only prints; once the command has left
\* the select nobody reads the channel.
UIEmit(ok) ==
    /\ scripted /\ running /\ flags.wait /\ cmd \in {"running", "waitUI"}
    /\ first' = IF first = "empty" THEN ok ELSE first
    /\ slot' = IF slot = "empty" THEN ok ELSE slot
    /\ UNCHANGED <<cmdVars, wireVars, scripted, before, vars>>

-----------------------------------------------------------------------------
(* The client.                                                             *)

\* Mutation: requests are sent before the script makes them.
SendRequestEarly(q) ==
    /\ ~clientClosed
    /\ asked' = asked \cup {q}
    /\ UNCHANGED <<cmdVars, output, consumed, heard, uiVars, before, vars>>

\* The goroutine of a request sends it ...
SendRequest(q) ==
    /\ q \in DOMAIN request \ asked /\ request[q] = "inFlight"
    /\ ~clientClosed
    /\ asked' = asked \cup {q}
    /\ UNCHANGED <<cmdVars, output, consumed, heard, uiVars, before, vars>>

\* Mutation: a closed client does not release its callers.
RequestEndsOpenOnly(q) ==
    /\ ~clientClosed
    /\ RequestReturns(q)
    /\ UNCHANGED <<cmdVars, wireVars, uiVars, before>>

\* ... and ends at any time, before that too: with its answer, an error of the
\* transport, when reqCtx expires or the client is closed (RpcCall).
RequestEnds(q) ==
    /\ RequestReturns(q)
    /\ UNCHANGED <<cmdVars, wireVars, uiVars, before>>

\* Mutation: the wildcard handler of requests is missing.
TakesNotifications(m) == IsNotification(m.envelope) /\ "notification" \in subscribed

\* Whether the wildcard handlers take a message.
Takes(m) == \/ IsNotification(m.envelope) /\ "notification" \in subscribed
            \/ IsRequest(m.envelope) /\ "request" \in subscribed

\* The read loop dispatches the next message; the handlers of the command post
\* an event to the runtime, which refuses it once it is shut down.  That the
\* handlers are copied first and called afterwards is EventDispatch's business.
ReadNext ==
    /\ ~clientClosed /\ consumed < Len(output)
    /\ consumed' = consumed + 1
    /\ LET m == output[consumed + 1] IN
         IF Takes(m)
         THEN /\ Emit(m.event)
              /\ heard' = IF accepting THEN Append(heard, consumed + 1) ELSE heard
         ELSE UNCHANGED <<vars, heard>>
    /\ UNCHANGED <<cmdVars, asked, output, uiVars, before>>

\* The app server (external).
ServerSends(envelope, q, e) ==
    /\ ~clientClosed /\ Len(output) < MaxOutput
    /\ output' = Append(output, [envelope |-> envelope, id |-> q, event |-> e, after |-> asked])
    /\ UNCHANGED <<cmdVars, asked, consumed, heard, uiVars, before, vars>>

Server ==
    \/ \E q \in asked : ServerSends(NewResponse(TRUE), q, NoObject)
    \/ \E e \in Event :
         ServerSends(IF e.kind = "request" THEN NewRequest ELSE NewNotification, 0, e)

-----------------------------------------------------------------------------
RunNext ==
    \/ Command \/ RunScript \/ ScriptEnds \/ Tasks \/ ScriptCalls
    \/ \E ok \in {"ok", "notOk"} : UIEmit(ok)
    \/ \E q \in 1 .. MaxRequests : SendRequest(q) \/ RequestEnds(q)
    \/ ReadNext \/ Server

RunSpec == RunInit /\ [][RunNext]_runVars

\* Goroutines run, timers fire and the script's text comes to an end; Request
\* returns once the client is closed.  Not assumed: that the server answers or
\* sends anything, or that reqCtx expires before the command is through.
FairRunSpec ==
    /\ RunSpec
    /\ WF_runVars(Command)
    /\ WF_runVars(RunScript \/ ScriptEnds \/ Tasks)
    /\ WF_runVars(clientClosed /\ \E q \in 1 .. MaxRequests : RequestEnds(q))

-----------------------------------------------------------------------------
(* What the run promises.                                                  *)

IsEvent(m) == IsNotification(m.envelope) \/ IsRequest(m.envelope)

\* The event tasks still queued, up to a place of the queue.
EventsQueued(i) == {j \in DOMAIN queue : j <= i /\ queue[j].kind = "event"}

\* The runtime dispatches what it heard in the server's order, across the read
\* loop and the task queue, and until the command leaves it misses nothing the server
\* sent after a request of the script, although the server's first messages
\* come before anybody is subscribed.
EventsReachScript ==
    LET hears(n) == output[heard[n]].event
        queued   == EventsQueued(Len(queue)) IN
    /\ Len(heard) = Len(log) + Cardinality(queued)
    /\ \A n \in DOMAIN log : log[n] = hears(n)
    /\ \A i \in queued : queue[i].event = hears(Len(log) + Cardinality(EventsQueued(i)))
    /\ \A m, n \in DOMAIN heard : m < n => heard[m] < heard[n]
    /\ \A k \in 1 .. consumed :
         IsEvent(output[k]) /\ output[k].after # {} /\ cmd \notin Leaving =>
             \E n \in DOMAIN heard : heard[n] = k

\* A wait made before a request sees every event the server sends once it has
\* that request: it lets none pass that resolves it, so that it ends with such an
\* event, unless it timed out before that was dispatched or had ended with an
\* earlier one.  (A wait made in the continuation of the request may miss one: the
\* answer is posted by another goroutine than the event that follows it.)
EarlyWaitSees ==
    \A w \in Waiters, n \in DOMAIN heard :
        LET m == output[heard[n]] IN
        (\E q \in m.after : q > before[w]) /\ Verdict(waiter[w].wait, m.event) = "resolve" =>
            n > LetPass(w)

\* The exit code tells of the first event of the awaited type, whatever the
\* script emits after it, and success is told only when there was one.
VerdictTellsFirst ==
    /\ verdict = "okFalse" => flags.fail /\ first = "notOk"
    /\ verdict = "ok" /\ flags.wait => first # "empty" /\ (flags.fail => first = "ok")

\* Once the script's text has ended the run ends, whatever the server and the
\* deadline do, and leaves no goroutine of a request behind.  (That the text ends
\* is assumed: nothing in the code interrupts it.)
RunEnds == <>[](cmd = "done" /\ \A q \in DOMAIN request : request[q] # "inFlight")
=============================================================================
