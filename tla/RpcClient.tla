------------------------------ MODULE RpcClient ------------------------------
(***************************************************************************)
(* The JSON-RPC client of pkg/codexrpc/client.go over the stdio transport. *)
(*                                                                         *)
(* Goroutines: any number of callers inside Request, Notify, Respond or    *)
(* RespondError; one read loop; any number of goroutines inside Close.  A  *)
(* step is one critical section (stateMu, pendingMu), one channel          *)
(* operation or one transport call, so every interleaving the locks permit *)
(* is a behaviour.  The app server is outside src/: it answers any request *)
(* it received, as often as it likes and in any order, sends events, and   *)
(* may end or garble its output.                                           *)
(*                                                                         *)
(* Ids are the numbers nextID hands out; idKey is injective on them, so    *)
(* `pending' is a set of ids and the response channel of a call is found   *)
(* under the call's id.  Deadlines are choices: a send or a wait may be    *)
(* cancelled at any moment.                                                *)
(***************************************************************************)
EXTENDS Integers, Sequences

CONSTANTS
    Caller,     \* goroutines that call the client
    Closer,     \* goroutines that call Close
    ReadLoop,   \* the goroutine started by ensureReadLoop
    Uses,       \* Uses[c]: the operations caller c performs
    MaxCalls,   \* bound: the calls made on the client
    MaxOutput   \* bound: the messages the server sends

Operation == {"initialize", "request", "initialized", "notify", "respond"}

ASSUME ReadLoopAssumption == ReadLoop \notin Closer
ASSUME UsesAssumption     == Uses \in [Caller -> SUBSET Operation]
ASSUME BoundAssumption    == MaxCalls \in Nat /\ MaxOutput \in Nat

VARIABLES
    state,      \* handshake state
    nextID,     \* last id handed out
    pending,    \* ids in the pending map
    chan,       \* chan[i]: the one-slot response channel of request i
    done,       \* the done channel is closed
    once,       \* closeOnce
    transportClosed,
    readPc,     \* where the read loop is
    closePc,    \* where each goroutine is inside Close
    callPc, op, id, outcome,  \* per caller: position, operation, id, result
    calls,      \* calls made so far
    wire,       \* everything sent to the server, in order
    output,     \* everything the server ever sent, in order
    consumed    \* how many of these Recv has returned

callVars   == <<callPc, op, id, outcome, calls>>
clientVars == <<state, nextID, pending, chan>>
closeVars  == <<done, once, transportClosed, closePc>>
vars == <<clientVars, closeVars, readPc, callVars, wire, output, consumed>>

HandshakeState == {"New", "Initialized", "Ready", "Closed"}
Ids      == 1 .. nextID       \* the ids handed out so far
Requests == {"initialize", "request"}
Sent     == [op : Operation, id : Nat]
Received == [kind : {"response", "event", "malformed"}, id : Nat, ok : BOOLEAN]
CloseProc == Closer \cup {ReadLoop}

Response(i, b) == [kind |-> "response", id |-> i, ok |-> b]
Other(k)       == [kind |-> k, id |-> 0, ok |-> FALSE]  \* its id and ok mean nothing
Answers(m, i)  == m.kind = "response" /\ m.id = i

CallLocation  == {"idle", "validate", "checkOpen", "register", "send", "await",
                  "forget", "setState"}
ReadLocation  == {"unstarted", "check", "recv", "lookup", "deliver", "closing", "stopped"}
CloseLocation == {"idle", "once", "setClosed", "closeDone", "drain", "transport", "returned"}
ChanState     == {"empty", "ok", "error", "closed"}
Outcome       == {"none", "ok", "error", "refused", "closed", "failed"}

\* Every variable has its type; the response channels are those of the ids
\* handed out by nextID, and Recv has returned only what the server sent.
TypeOK ==
    /\ state \in HandshakeState
    /\ nextID \in Nat
    /\ pending \subseteq Nat
    /\ chan \in [Ids -> ChanState]
    /\ done \in BOOLEAN
    /\ once \in {"fresh", "running", "finished"}
    /\ transportClosed \in BOOLEAN
    /\ readPc \in ReadLocation
    /\ closePc \in [CloseProc -> CloseLocation]
    /\ callPc \in [Caller -> CallLocation]
    /\ op \in [Caller -> Operation]
    /\ id \in [Caller -> Nat]
    /\ outcome \in [Caller -> Outcome]
    /\ calls \in Nat
    /\ wire \in Seq(Sent)
    /\ output \in Seq(Received)
    /\ consumed \in Nat /\ consumed <= Len(output)

Init ==
    /\ state = "New"
    /\ nextID = 0
    /\ pending = {}
    /\ chan = [i \in Ids |-> "empty"]
    /\ done = FALSE
    /\ once = "fresh"
    /\ transportClosed = FALSE
    /\ readPc = "unstarted"
    /\ closePc = [p \in CloseProc |-> "idle"]
    /\ callPc = [c \in Caller |-> "idle"]
    /\ op = [c \in Caller |-> "request"]
    /\ id = [c \in Caller |-> 0]
    /\ outcome = [c \in Caller |-> "none"]
    /\ calls = 0
    /\ wire = <<>>
    /\ output = <<>>
    /\ consumed = 0

-----------------------------------------------------------------------------
(* The callers: Request, Notify, Respond and RespondError.                 *)

\* Mutation: work is let through as soon as the initialize response is in.
RequiredStateEarly(o) == IF o = "initialize" THEN "New" ELSE "Initialized"

\* The handshake state in which an operation is let through.
RequiredState(o) ==
    CASE o = "initialize"  -> "New"
      [] o = "initialized" -> "Initialized"
      [] OTHER             -> "Ready"

At(c, pc)   == callPc[c] = pc
Goto(c, pc) == callPc' = [callPc EXCEPT ![c] = pc]

\* The call returns: it is over, and r is what its caller sees.
Return(c, r) == Goto(c, "idle") /\ outcome' = [outcome EXCEPT ![c] = r]

Call(c, o) ==
    /\ At(c, "idle") /\ o \in Uses[c]
    /\ calls < MaxCalls /\ calls' = calls + 1
    /\ Goto(c, "validate")
    /\ op' = [op EXCEPT ![c] = o]
    /\ id' = [id EXCEPT ![c] = 0]
    /\ outcome' = [outcome EXCEPT ![c] = "none"]
    /\ UNCHANGED <<clientVars, closeVars, readPc, wire, output, consumed>>

\* validateRequestMethod, validateNotifyMethod, the first test of Respond.
Validate(c) ==
    /\ At(c, "validate")
    /\ IF state = RequiredState(op[c])
       THEN Goto(c, "checkOpen") /\ UNCHANGED outcome
       ELSE Return(c, "refused")
    /\ UNCHANGED <<calls, op, id, clientVars, closeVars, readPc, wire, output, consumed>>

\* Mutations: the counter runs downwards; it never moves past 1.
NewIDDown  == nextID - 1
NewIDStuck == 1

\* nextID.Add(1)
NewID == nextID + 1

\* isClosed reads the state a second time.  Past it the read loop is started
\* (startOnce) and, for a request, an id is drawn (atomic Add) and its channel
\* made; no other goroutine can see the channel yet.  A message that cannot be
\* encoded is a send that fails: the code returns before it registers.
Opened(c) ==
    /\ At(c, "checkOpen") /\ state # "Closed"
    /\ readPc' = IF readPc = "unstarted" THEN "check" ELSE readPc
    /\ IF op[c] \in Requests
       THEN /\ nextID' = NewID
            /\ id' = [id EXCEPT ![c] = NewID]
            /\ chan' = [i \in 1 .. NewID |-> IF i = NewID THEN "empty" ELSE chan[i]]
            /\ Goto(c, "register")
       ELSE /\ Goto(c, "send")
            /\ UNCHANGED <<nextID, id, chan>>
    /\ UNCHANGED <<calls, op, outcome, state, pending, closeVars, wire, output, consumed>>

FoundClosed(c) ==
    /\ At(c, "checkOpen") /\ state = "Closed"
    /\ Return(c, "closed")
    /\ UNCHANGED <<calls, op, id, clientVars, closeVars, readPc, wire, output, consumed>>

\* The channel enters the map under pendingMu.
Register(c) ==
    /\ At(c, "register")
    /\ pending' = pending \cup {id[c]}
    /\ Goto(c, "send")
    /\ UNCHANGED <<calls, op, id, outcome, state, nextID, chan, closeVars, readPc, wire, output, consumed>>

\* transport.Send succeeds: the line is on the server's stdin.
Send(c) ==
    /\ At(c, "send") /\ ~transportClosed
    /\ wire' = Append(wire, [op |-> op[c], id |-> id[c]])
    /\ CASE op[c] \in Requests     -> Goto(c, "await") /\ UNCHANGED outcome
         [] op[c] = "initialized"  -> Goto(c, "setState") /\ UNCHANGED outcome
         [] OTHER                  -> Return(c, "ok")
    /\ UNCHANGED <<calls, op, id, clientVars, closeVars, readPc, output, consumed>>

\* transport.Send fails: context over, transport closed, or a write error.
SendFailed(c) ==
    /\ At(c, "send")
    /\ IF op[c] \in Requests
       THEN Goto(c, "forget") /\ UNCHANGED outcome
       ELSE Return(c, "failed")
    /\ UNCHANGED <<calls, op, id, clientVars, closeVars, readPc, wire, output, consumed>>

\* The three branches of Request's select.  When several are ready Go picks
\* any of them.
AwaitCancelled(c) ==
    /\ At(c, "await")
    /\ Goto(c, "forget")
    /\ UNCHANGED <<calls, op, id, outcome, clientVars, closeVars, readPc, wire, output, consumed>>

\* Mutation: the select has no branch on `done'.
AwaitClosedChannelOnly(c) ==
    /\ At(c, "await")
    /\ chan[id[c]] = "closed"
    /\ Return(c, "closed")
    /\ UNCHANGED <<calls, op, id, clientVars, closeVars, readPc, wire, output, consumed>>

AwaitClosed(c) ==
    /\ At(c, "await")
    /\ done \/ chan[id[c]] = "closed"
    /\ Return(c, "closed")
    /\ UNCHANGED <<calls, op, id, clientVars, closeVars, readPc, wire, output, consumed>>

AwaitResponse(c) ==
    /\ At(c, "await")
    /\ chan[id[c]] \in {"ok", "error"}
    /\ chan' = [chan EXCEPT ![id[c]] = "empty"]
    /\ IF chan[id[c]] = "ok" /\ op[c] = "initialize"
       THEN Goto(c, "setState") /\ UNCHANGED outcome
       ELSE Return(c, chan[id[c]])
    /\ UNCHANGED <<calls, op, id, state, nextID, pending, closeVars, readPc, wire, output, consumed>>

\* Mutation: the call returns without deleting its entry.
ForgetNothing(c) ==
    /\ At(c, "forget")
    /\ Return(c, "failed")
    /\ UNCHANGED <<calls, op, id, clientVars, closeVars, readPc, wire, output, consumed>>

\* delete(c.pending, key) after a failed send or a cancelled wait.
Forget(c) ==
    /\ At(c, "forget")
    /\ pending' = pending \ {id[c]}
    /\ Return(c, "failed")
    /\ UNCHANGED <<calls, op, id, state, nextID, chan, closeVars, readPc, wire, output, consumed>>

\* setState after the initialize response or the initialized notification.
SetState(c) ==
    /\ At(c, "setState")
    /\ state' = IF op[c] = "initialize" THEN "Initialized" ELSE "Ready"
    /\ Return(c, "ok")
    /\ UNCHANGED <<calls, op, id, nextID, pending, chan, closeVars, readPc, wire, output, consumed>>

CallerStep(c) ==
    \/ Validate(c) \/ Opened(c) \/ FoundClosed(c) \/ Register(c)
    \/ Send(c) \/ SendFailed(c)
    \/ AwaitCancelled(c) \/ AwaitClosed(c) \/ AwaitResponse(c)
    \/ Forget(c) \/ SetState(c)

-----------------------------------------------------------------------------
(* The read loop.                                                          *)

Current == output[consumed]     \* the message Recv returned last

\* The non-blocking look at `done' at the top of the loop.
LoopTop ==
    /\ readPc = "check"
    /\ readPc' = IF done THEN "stopped" ELSE "recv"
    /\ UNCHANGED <<clientVars, closeVars, callVars, wire, output, consumed>>

\* Recv returns a message.  Events run their handlers on this goroutine before
\* the loop goes on (module EventDispatch); none of them touches the client.
Recv ==
    /\ readPc = "recv"
    /\ consumed < Len(output) /\ output[consumed + 1].kind # "malformed"
    /\ consumed' = consumed + 1
    /\ readPc' = IF output[consumed'].kind = "response" THEN "lookup" ELSE "check"
    /\ UNCHANGED <<clientVars, closeVars, callVars, wire, output>>

\* Mutation: a closed transport does not end Recv.
RecvErrorMalformedOnly ==
    /\ readPc = "recv"
    /\ consumed < Len(output) /\ output[consumed + 1].kind = "malformed"
    /\ readPc' = "closing"
    /\ closePc' = [closePc EXCEPT ![ReadLoop] = "once"]
    /\ UNCHANGED <<clientVars, done, once, transportClosed, callVars, wire, output, consumed>>

\* Recv fails: one undecodable line, the end of the stream, or a transport
\* that was closed.  The loop closes the client.
RecvError ==
    /\ readPc = "recv"
    /\ \/ transportClosed
       \/ consumed < Len(output) /\ output[consumed + 1].kind = "malformed"
    /\ readPc' = "closing"
    /\ closePc' = [closePc EXCEPT ![ReadLoop] = "once"]
    /\ UNCHANGED <<clientVars, done, once, transportClosed, callVars, wire, output, consumed>>

\* Mutations of Lookup: the entry stays in the map; the answer is dropped.
LookupKeeps ==
    /\ readPc = "lookup"
    /\ readPc' = IF Current.id \in pending THEN "deliver" ELSE "check"
    /\ UNCHANGED <<clientVars, closeVars, callVars, wire, output, consumed>>
LookupDrops ==
    /\ readPc = "lookup"
    /\ pending' = pending \ {Current.id}
    /\ readPc' = "check"
    /\ UNCHANGED <<state, nextID, chan, closeVars, callVars, wire, output, consumed>>

\* dispatchResponse: the entry is removed under pendingMu ...
Lookup ==
    /\ readPc = "lookup"
    /\ pending' = pending \ {Current.id}
    /\ readPc' = IF Current.id \in pending THEN "deliver" ELSE "check"
    /\ UNCHANGED <<state, nextID, chan, closeVars, callVars, wire, output, consumed>>

\* ... and the message sent on the channel after the unlock.  The channel has
\* one slot; the send would block on a full one and panic on a closed one.
Deliver ==
    /\ readPc = "deliver"
    /\ chan[Current.id] = "empty"
    /\ chan' = [chan EXCEPT ![Current.id] = IF Current.ok THEN "ok" ELSE "error"]
    /\ readPc' = "check"
    /\ UNCHANGED <<state, nextID, pending, closeVars, callVars, wire, output, consumed>>

ReaderStep == LoopTop \/ Recv \/ RecvError \/ Lookup \/ Deliver

-----------------------------------------------------------------------------
(* Close, called by a Closer or by the read loop.                          *)

GotoClose(p, pc) == closePc' = [closePc EXCEPT ![p] = pc]

Close(p) ==
    /\ p \in Closer /\ closePc[p] = "idle"
    /\ GotoClose(p, "once")
    /\ UNCHANGED <<clientVars, done, once, transportClosed, readPc, callVars, wire, output, consumed>>

\* Mutation: every caller runs the body.
EnterAlways(p) ==
    /\ closePc[p] = "once"
    /\ GotoClose(p, "setClosed")
    /\ once' = "running"
    /\ UNCHANGED <<clientVars, done, transportClosed, readPc, callVars, wire, output, consumed>>

\* closeOnce.Do: the first caller runs the body, the others wait for its end.
EnterOnce(p) ==
    /\ closePc[p] = "once" /\ once # "running"
    /\ GotoClose(p, IF once = "fresh" THEN "setClosed" ELSE "transport")
    /\ once' = IF once = "fresh" THEN "running" ELSE once
    /\ UNCHANGED <<clientVars, done, transportClosed, readPc, callVars, wire, output, consumed>>

SetClosed(p) ==
    /\ closePc[p] = "setClosed"
    /\ state' = "Closed"
    /\ GotoClose(p, "closeDone")
    /\ UNCHANGED <<nextID, pending, chan, done, once, transportClosed, readPc, callVars, wire, output, consumed>>

CloseDone(p) ==
    /\ closePc[p] = "closeDone"
    /\ done' = TRUE
    /\ GotoClose(p, "drain")
    /\ UNCHANGED <<clientVars, once, transportClosed, readPc, callVars, wire, output, consumed>>

\* Every entry still in the map is removed and its channel closed.
Drain(p) ==
    /\ closePc[p] = "drain"
    /\ chan' = [i \in Ids |-> IF i \in pending THEN "closed" ELSE chan[i]]
    /\ pending' = {}
    /\ once' = "finished"
    /\ GotoClose(p, "transport")
    /\ UNCHANGED <<state, nextID, done, transportClosed, readPc, callVars, wire, output, consumed>>

\* transport.Close; it kills the server.
CloseTransport(p) ==
    /\ closePc[p] = "transport"
    /\ transportClosed' = TRUE
    /\ GotoClose(p, "returned")
    /\ readPc' = IF p = ReadLoop THEN "stopped" ELSE readPc
    /\ UNCHANGED <<clientVars, done, once, callVars, wire, output, consumed>>

CloseStep(p) ==
    EnterOnce(p) \/ SetClosed(p) \/ CloseDone(p) \/ Drain(p) \/ CloseTransport(p)

-----------------------------------------------------------------------------
(* The app server (external).                                              *)

ServerSend(m) ==
    /\ ~transportClosed /\ Len(output) < MaxOutput
    /\ output' = Append(output, m)
    /\ UNCHANGED <<clientVars, closeVars, readPc, callVars, wire, consumed>>

\* Requests it has received may be answered, more than once if it errs.
ServerAnswer ==
    \E k \in 1 .. Len(wire), b \in BOOLEAN :
        wire[k].op \in Requests /\ ServerSend(Response(wire[k].id, b))

ServerOther == \E kind \in {"event", "malformed"} : ServerSend(Other(kind))

-----------------------------------------------------------------------------
Next ==
    \/ \E c \in Caller : (\E o \in Operation : Call(c, o)) \/ CallerStep(c)
    \/ ReaderStep
    \/ \E p \in CloseProc : Close(p) \/ CloseStep(p)
    \/ ServerAnswer \/ ServerOther

Spec == Init /\ [][Next]_vars

\* The Go scheduler runs every runnable goroutine.  No fairness for Call,
\* Close, the server or an expiring deadline: these may never happen.
Fairness ==
    /\ \A c \in Caller :
         WF_vars(Validate(c) \/ Opened(c) \/ FoundClosed(c) \/ Register(c) \/ Send(c)
                 \/ SendFailed(c) \/ AwaitClosed(c) \/ AwaitResponse(c)
                 \/ Forget(c) \/ SetState(c))
    /\ WF_vars(ReaderStep)
    /\ \A p \in CloseProc : WF_vars(CloseStep(p))

FairSpec == Spec /\ Fairness

-----------------------------------------------------------------------------
(* What the client promises.                                               *)

\* The server answered request i with a result and Recv has returned the answer.
AnsweredOk(i) == \E k \in 1 .. consumed : Answers(output[k], i) /\ output[k].ok

\* No message leaves before an initialize request whose result has come back,
\* and none but `initialized' before `initialized' itself, whatever the
\* interleaving of the callers, the read loop and Close.
HandshakeOrder ==
    \A k \in 1 .. Len(wire) :
        /\ wire[k].op # "initialize" =>
             \E j \in 1 .. k-1 : wire[j].op = "initialize" /\ AnsweredOk(wire[j].id)
        /\ wire[k].op \notin {"initialize", "initialized"} =>
             \E j \in 1 .. k-1 : wire[j].op = "initialized"

\* The send after the unlock in dispatchResponse finds an empty, open channel:
\* it neither blocks the read loop nor panics, although Close runs meanwhile.
SafeDelivery ==
    readPc = "deliver" => Current.id \in Ids /\ chan[Current.id] = "empty"

\* Close closes no channel twice, with several goroutines closing at once, and
\* the channels it closes hold no undelivered response.
SafeClose ==
    \A p \in CloseProc :
        /\ closePc[p] = "closeDone" => ~done
        /\ closePc[p] = "drain" => \A i \in pending : chan[i] = "empty"

\* While the client is open, every entry of the pending map belongs to a call
\* still in progress: answers, failed sends and cancelled waits leave none.
PendingOwned ==
    ~done => \A i \in pending :
                \E c \in Caller : id[c] = i /\ callPc[c] \in {"send", "await", "forget"}

\* A request that returns a result or a server error returns the first answer
\* the server gave to its own id, with answers duplicated and reordered.
FirstAnswer(i, b) ==
    \E k \in 1 .. consumed :
        /\ Answers(output[k], i) /\ output[k].ok = b
        /\ \A j \in 1 .. k-1 : ~Answers(output[j], i)
FirstAnswerWins ==
    \A c \in Caller :
        op[c] \in Requests /\ outcome[c] \in {"ok", "error"} =>
            FirstAnswer(id[c], outcome[c] = "ok")

\* The guide's state machine ends in "CLOSED (after Close())": a closed client
\* stays closed.
ClosedIsTerminal == [][state = "Closed" => state' = "Closed"]_state

\* A request whose answer the server has written returns, duplicates and
\* events in front of the answer notwithstanding.
AnsweredCallReturns ==
    \A c \in Caller :
        (At(c, "await") /\ \E k \in 1 .. Len(output) : Answers(output[k], id[c]))
            ~> At(c, "idle")

\* Once the transport is closed the read loop ends, whoever closed it and
\* wherever the loop was.
ReadLoopEnds ==
    (transportClosed /\ readPc # "unstarted") ~> (readPc = "stopped")
=============================================================================
