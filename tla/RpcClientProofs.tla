-------------------------- MODULE RpcClientProofs --------------------------
(***************************************************************************)
(* Proofs about RpcClient, for any callers, closers and bounds: what holds *)
(* of every state of it, and that every behaviour of it is one of RpcCall. *)
(***************************************************************************)
EXTENDS RpcClientRefinement, Integers, TLAPS

-----------------------------------------------------------------------------
(* The inductive invariant, in parts.                                      *)

Sending == {"register", "send"}

\* Ids: only requests past Opened have one, and it is theirs alone.
IdInv ==
    /\ pending \subseteq Ids
    /\ \A c \in Caller :
         /\ id[c] <= nextID
         /\ op[c] \notin Requests => id[c] = 0
         /\ callPc[c] \in {"validate", "checkOpen"} => id[c] = 0
         /\ op[c] \in Requests /\ callPc[c] \in {"register", "send", "await", "forget", "setState"}
              => id[c] # 0
         /\ callPc[c] \in {"register", "await", "forget"} => op[c] \in Requests
         /\ callPc[c] = "setState" => op[c] \in {"initialize", "initialized"}
         /\ callPc[c] \notin {"idle"} => outcome[c] = "none"
    /\ \A c, d \in Caller : id[c] = id[d] /\ id[c] # 0 => c = d

OnWire(i) == \E k \in 1 .. Len(wire) : wire[k].op \in Requests /\ wire[k].id = i

\* An id reaches the server only when sent, an answer only when its id has.
WireInv ==
    /\ \A c \in Caller : callPc[c] \in Sending /\ op[c] \in Requests => ~OnWire(id[c])
    /\ \A k \in 1 .. Len(wire) : wire[k].op \in Requests => wire[k].id \in Ids
    /\ \A k \in 1 .. Len(output) : output[k].kind = "response" => OnWire(output[k].id)

\* The answers the read loop is through with.
Processed == IF readPc = "lookup" THEN consumed - 1 ELSE consumed

ChanInv ==
    /\ readPc \in {"lookup", "deliver"} => consumed >= 1 /\ Current.kind = "response"
    /\ readPc = "deliver" =>
         /\ Current.id \in Ids /\ Current.id \notin pending
         /\ chan[Current.id] = "empty"
         /\ \A k \in 1 .. consumed-1 : ~Answers(output[k], Current.id)
    /\ \A i \in pending :
         /\ chan[i] = "empty"
         /\ \A k \in 1 .. Processed : ~Answers(output[k], i)
    /\ \A c \in Caller : callPc[c] = "register" =>
         id[c] \notin pending /\ chan[id[c]] = "empty"
    /\ \A i \in Ids : /\ chan[i] = "ok" => FirstAnswer(i, TRUE)
                      /\ chan[i] = "error" => FirstAnswer(i, FALSE)
                      /\ chan[i] = "closed" => done
    /\ \A c \in Caller : op[c] = "initialize" /\ callPc[c] = "setState"
                            => FirstAnswer(id[c], TRUE)

Initialized == \E k \in 1 .. Len(wire) : wire[k].op = "initialize" /\ AnsweredOk(wire[k].id)
Readied     == \E k \in 1 .. Len(wire) : wire[k].op = "initialized"

\* What a handshake state, seen once by a caller, says of the wire for ever.
HandshakeInv ==
    /\ HandshakeOrder
    /\ state \in {"Initialized", "Ready"} => Initialized
    /\ state = "Ready" => Readied
    /\ \A c \in Caller :
         /\ callPc[c] \in {"checkOpen", "register", "send", "setState"} =>
              /\ op[c] # "initialize" => Initialized
              /\ op[c] \notin {"initialize", "initialized"} => Readied
         /\ callPc[c] = "await" =>
              \E k \in 1 .. Len(wire) : wire[k].op = op[c] /\ wire[k].id = id[c]
         /\ callPc[c] = "setState" /\ op[c] = "initialize" => Initialized
         /\ callPc[c] = "setState" /\ op[c] = "initialized" => Readied

Body == {"setClosed", "closeDone", "drain"}

\* closeOnce: one goroutine at a time is in the body, and the body runs once.
CloseInv ==
    /\ \A p \in CloseProc : closePc[p] \in Body => once = "running"
    /\ \A p, q \in CloseProc : closePc[p] \in Body /\ closePc[q] \in Body => p = q
    /\ \A p \in CloseProc : closePc[p] = "drain" => done
    /\ readPc \notin {"closing", "stopped"} => closePc[ReadLoop] = "idle"
    /\ done => once = "finished" \/ \E p \in CloseProc : closePc[p] = "drain"

IInv ==
    /\ TypeOK /\ IdInv /\ CloseInv /\ WireInv /\ ChanInv
    /\ FirstAnswerWins /\ PendingOwned /\ HandshakeInv

-----------------------------------------------------------------------------
(* Type correctness.                                                       *)

LEMMA TypeInit == Init => TypeOK
<1> SUFFICES ASSUME Init PROVE TypeOK
  OBVIOUS
<1>1. chan \in [Ids -> ChanState]
  BY DEF Init, ChanState, Ids
<1>2. wire \in Seq(Sent) /\ output \in Seq(Received) /\ consumed \in Nat /\ consumed <= Len(output)
  BY DEF Init
<1>3. callPc \in [Caller -> CallLocation] /\ closePc \in [CloseProc -> CloseLocation]
  BY DEF Init, CallLocation, CloseLocation
<1>4. op \in [Caller -> Operation] /\ id \in [Caller -> Nat] /\ outcome \in [Caller -> Outcome]
  BY DEF Init, Operation, Outcome
<1> QED
  BY <1>1, <1>2, <1>3, <1>4 DEF Init, TypeOK, HandshakeState, ReadLocation

LEMMA TypeNext == TypeOK /\ [Next]_vars => TypeOK'
<1> SUFFICES ASSUME TypeOK, [Next]_vars PROVE TypeOK'
  OBVIOUS
<1> USE DEF TypeOK
<1>1. ASSUME NEW c \in Caller, NEW o \in Operation, Call(c, o) PROVE TypeOK'
  BY <1>1 DEF Call, At, Goto, CallLocation, Outcome, clientVars, closeVars, Ids
<1>2. ASSUME NEW c \in Caller, CallerStep(c) PROVE TypeOK'
  <2> USE DEF At, Goto, Return, clientVars, closeVars
  <2>1. CASE Validate(c)        BY <2>1 DEF Validate, CallLocation, Outcome, Ids
  <2>2. CASE Opened(c)
    <3>1. CASE op[c] \in Requests
      <4>1. nextID' = nextID + 1 /\ nextID' \in Nat
        BY <2>2, <3>1 DEF Opened, NewID
      <4>2. chan' = [i \in 1 .. nextID + 1 |-> IF i = nextID + 1 THEN "empty" ELSE chan[i]]
        BY <2>2, <3>1 DEF Opened, NewID
      <4>3. chan' \in [Ids' -> ChanState]
        <5>1. \A i \in 1 .. nextID + 1 : i # nextID + 1 => i \in 1 .. nextID
          OBVIOUS
        <5> QED  BY <4>1, <4>2, <5>1 DEF Ids, ChanState
      <4>4. id' \in [Caller -> Nat]
        BY <2>2, <3>1 DEF Opened, NewID
      <4>5. callPc' \in [Caller -> CallLocation]
        BY <2>2, <3>1 DEF Opened, CallLocation
      <4> QED  BY <2>2, <3>1, <4>1, <4>3, <4>4, <4>5 DEF Opened, ReadLocation
    <3>2. CASE op[c] \notin Requests
      BY <2>2, <3>2 DEF Opened, Ids, CallLocation, ReadLocation
    <3> QED  BY <3>1, <3>2
  <2>3. CASE FoundClosed(c)     BY <2>3 DEF FoundClosed, CallLocation, Outcome, Ids
  <2>4. CASE Register(c)
    <3>1. pending' \subseteq Nat
      BY <2>4 DEF Register
    <3>2. callPc' \in [Caller -> CallLocation]
      BY <2>4 DEF Register, CallLocation
    <3> QED  BY <2>4, <3>1, <3>2 DEF Register, Ids
  <2>5. CASE Send(c)
    <3>1. [op |-> op[c], id |-> id[c]] \in Sent
      BY DEF Sent
    <3>2. wire' \in Seq(Sent)
      BY <2>5, <3>1 DEF Send
    <3>3. callPc' \in [Caller -> CallLocation] /\ outcome' \in [Caller -> Outcome]
      BY <2>5 DEF Send, CallLocation, Outcome
    <3> QED  BY <2>5, <3>2, <3>3 DEF Send, Ids
  <2>6. CASE SendFailed(c)      BY <2>6 DEF SendFailed, CallLocation, Outcome, Ids
  <2>7. CASE AwaitCancelled(c)  BY <2>7 DEF AwaitCancelled, CallLocation, Ids
  <2>8. CASE AwaitClosed(c)     BY <2>8 DEF AwaitClosed, CallLocation, Outcome, Ids
  <2>9. CASE AwaitResponse(c)
    <3>1. chan' \in [Ids' -> ChanState]
      BY <2>9 DEF AwaitResponse, ChanState, Ids
    <3>2. /\ callPc' \in [Caller -> CallLocation]
          /\ outcome' \in [Caller -> Outcome]
      BY <2>9 DEF AwaitResponse, CallLocation, Outcome
    <3> QED  BY <2>9, <3>1, <3>2 DEF AwaitResponse
  <2>10. CASE Forget(c)         BY <2>10 DEF Forget, CallLocation, Outcome, Ids
  <2>11. CASE SetState(c)       BY <2>11 DEF SetState, CallLocation, Outcome, HandshakeState, Ids
  <2> QED
    BY <1>2, <2>1, <2>2, <2>3, <2>4, <2>5, <2>6, <2>7, <2>8, <2>9, <2>10, <2>11 DEF CallerStep
<1>3. CASE ReaderStep
  <2> USE DEF callVars, clientVars, closeVars, ReadLocation, Ids
  <2>1. CASE LoopTop    BY <2>1 DEF LoopTop
  <2>2. CASE Recv       BY <2>2 DEF Recv
  <2>3. CASE RecvError  BY <2>3 DEF RecvError, CloseLocation
  <2>4. CASE Lookup     BY <2>4 DEF Lookup
  <2>5. CASE Deliver    BY <2>5 DEF Deliver, ChanState
  <2> QED  BY <1>3, <2>1, <2>2, <2>3, <2>4, <2>5 DEF ReaderStep
<1>4. ASSUME NEW p \in CloseProc, Close(p) \/ CloseStep(p) PROVE TypeOK'
  <2> USE DEF GotoClose, callVars, clientVars, CloseLocation, Ids
  <2>1. CASE Close(p)           BY <2>1 DEF Close
  <2>2. CASE EnterOnce(p)       BY <2>2 DEF EnterOnce
  <2>3. CASE SetClosed(p)       BY <2>3 DEF SetClosed, HandshakeState
  <2>4. CASE CloseDone(p)       BY <2>4 DEF CloseDone
  <2>5. CASE Drain(p)           BY <2>5 DEF Drain, ChanState
  <2>6. CASE CloseTransport(p)  BY <2>6 DEF CloseTransport, ReadLocation
  <2> QED  BY <1>4, <2>1, <2>2, <2>3, <2>4, <2>5, <2>6 DEF CloseStep
<1>5. CASE ServerAnswer \/ ServerOther
  <2>1. \A k \in 1 .. Len(wire) : wire[k].id \in Nat
    <3>1. \A k \in 1 .. Len(wire) : wire[k] \in Sent
      OBVIOUS
    <3> QED  BY <3>1 DEF Sent
  <2>2. PICK m \in Received : ServerSend(m)
    <3>1. \A i \in Nat, b \in BOOLEAN : Response(i, b) \in Received
      BY DEF Response, Received
    <3>2. Other("event") \in Received /\ Other("malformed") \in Received
      BY DEF Other, Received
    <3> QED  BY <1>5, <2>1, <3>1, <3>2 DEF ServerAnswer, ServerOther
  <2> QED  BY <2>2 DEF ServerSend, callVars, clientVars, closeVars, Ids
<1>6. CASE UNCHANGED vars
  BY <1>6 DEF vars, callVars, clientVars, closeVars, Ids
<1> QED  BY <1>1, <1>2, <1>3, <1>4, <1>5, <1>6 DEF Next

-----------------------------------------------------------------------------
(* What each kind of step leaves alone.                                    *)

LEMMA CallerFrame ==
    ASSUME NEW c \in Caller, CallerStep(c) \/ \E o \in Operation : Call(c, o)
    PROVE  /\ UNCHANGED <<closeVars, output, consumed>>
           /\ readPc' = readPc \/ (readPc = "unstarted" /\ readPc' = "check")
<1> USE DEF closeVars
<1>1. ASSUME NEW o \in Operation, Call(c, o) PROVE UNCHANGED <<closeVars, readPc, output, consumed>>
  BY <1>1 DEF Call
<1>2. CASE Opened(c)
  BY <1>2 DEF Opened
<1>3. CASE CallerStep(c) /\ ~Opened(c)
  <2>1. UNCHANGED <<closeVars, readPc, output, consumed>>
    BY <1>3 DEF CallerStep, Validate, FoundClosed, Register, Send, SendFailed,
                AwaitCancelled, AwaitClosed, AwaitResponse, Forget, SetState
  <2> QED  BY <2>1
<1> QED  BY <1>1, <1>2, <1>3

LEMMA ServerFrame ==
    ASSUME ServerAnswer \/ ServerOther
    PROVE  UNCHANGED <<clientVars, closeVars, readPc, callVars, wire, consumed>>
BY DEF ServerAnswer, ServerOther, ServerSend

LEMMA CloseFrame ==
    ASSUME NEW p \in CloseProc, Close(p) \/ CloseStep(p)
    PROVE  /\ UNCHANGED <<nextID, callVars, wire, output, consumed>>
           /\ pending' \in {pending, {}}
BY DEF Close, CloseStep, EnterOnce, SetClosed, CloseDone, Drain, CloseTransport, clientVars

LEMMA ReaderFrame ==
    ASSUME ReaderStep
    PROVE  /\ UNCHANGED <<state, nextID, done, once, transportClosed, callVars, wire, output>>
           /\ pending' \subseteq pending
BY DEF ReaderStep, LoopTop, Recv, RecvError, Lookup, Deliver, clientVars, closeVars

-----------------------------------------------------------------------------
(* Ids are drawn once and belong to one call.                              *)

LEMMA IdNext == TypeOK /\ IdInv /\ [Next]_vars => IdInv'
<1> SUFFICES ASSUME TypeOK, IdInv, [Next]_vars PROVE IdInv'
  OBVIOUS
<1> USE DEF IdInv, Ids
<1>1. ASSUME NEW c \in Caller, NEW o \in Operation, Call(c, o) PROVE IdInv'
  BY <1>1 DEF TypeOK, Call, At, Goto, clientVars
<1>2. ASSUME NEW c \in Caller, CallerStep(c) PROVE IdInv'
  <2> USE DEF TypeOK, At, Goto, Return, clientVars
  <2>1. CASE Validate(c)        BY <2>1 DEF Validate
  <2>2. CASE Opened(c)          BY <2>2 DEF Opened, NewID
  <2>3. CASE FoundClosed(c)     BY <2>3 DEF FoundClosed
  <2>4. CASE Register(c)
    <3>0. id[c] \in Ids
      <4>1. callPc[c] = "register"
        BY <2>4 DEF Register
      <4>2. id[c] # 0 /\ id[c] <= nextID /\ id[c] \in Nat /\ nextID \in Nat
        BY <4>1
      <4> QED  BY <4>2
    <3>1. pending' \subseteq Ids'
      BY <2>4, <3>0 DEF Register
    <3>2. UNCHANGED <<op, id, outcome, nextID>> /\ callPc' = [callPc EXCEPT ![c] = "send"]
      BY <2>4 DEF Register
    <3>3. callPc[c] = "register"
      BY <2>4 DEF Register
    <3> QED  BY <3>1, <3>2, <3>3
  <2>5. CASE Send(c)            BY <2>5 DEF Send
  <2>6. CASE SendFailed(c)      BY <2>6 DEF SendFailed
  <2>7. CASE AwaitCancelled(c)  BY <2>7 DEF AwaitCancelled
  <2>8. CASE AwaitClosed(c)     BY <2>8 DEF AwaitClosed
  <2>9. CASE AwaitResponse(c)   BY <2>9 DEF AwaitResponse
  <2>10. CASE Forget(c)         BY <2>10 DEF Forget
  <2>11. CASE SetState(c)       BY <2>11 DEF SetState
  <2> QED
    BY <1>2, <2>1, <2>2, <2>3, <2>4, <2>5, <2>6, <2>7, <2>8, <2>9, <2>10, <2>11 DEF CallerStep
<1> DEFINE Frame == UNCHANGED <<nextID, callPc, op, id, outcome>> /\ pending' \subseteq pending
<1>0. Frame => IdInv'
  BY DEF IdInv, Ids
<1> HIDE DEF IdInv
<1>3. CASE ReaderStep
  BY <1>0, <1>3, ReaderFrame DEF callVars
<1>4. ASSUME NEW p \in CloseProc, Close(p) \/ CloseStep(p) PROVE IdInv'
  BY <1>0, <1>4, CloseFrame DEF callVars
<1>5. CASE ServerAnswer \/ ServerOther
  BY <1>0, <1>5, ServerFrame DEF clientVars, callVars
<1>6. CASE UNCHANGED vars
  BY <1>0, <1>6 DEF vars, callVars, clientVars
<1> QED  BY <1>1, <1>2, <1>3, <1>4, <1>5, <1>6 DEF Next

-----------------------------------------------------------------------------
(* Close runs its body once.                                               *)

LEMMA CloseNext == TypeOK /\ CloseInv /\ [Next]_vars => CloseInv'
<1> SUFFICES ASSUME TypeOK, CloseInv, [Next]_vars PROVE CloseInv'
  OBVIOUS
<1> USE DEF CloseInv, Body
<1>1. ASSUME NEW c \in Caller, CallerStep(c) \/ \E o \in Operation : Call(c, o) PROVE CloseInv'
  BY <1>1, CallerFrame DEF closeVars
<1>2. CASE ReaderStep
  <2>1. CASE RecvError
    BY <2>1 DEF RecvError, TypeOK, CloseProc
  <2>2. CASE LoopTop \/ Recv \/ Lookup \/ Deliver
    BY <2>2 DEF LoopTop, Recv, Lookup, Deliver, closeVars
  <2> QED  BY <1>2, <2>1, <2>2 DEF ReaderStep
<1>3. ASSUME NEW p \in CloseProc, Close(p) \/ CloseStep(p) PROVE CloseInv'
  <2> USE DEF TypeOK, GotoClose
  <2>1. CASE Close(p)           BY <2>1, ReadLoopAssumption DEF Close, CloseProc
  <2>2. CASE EnterOnce(p)       BY <2>2 DEF EnterOnce
  <2>3. CASE SetClosed(p)       BY <2>3 DEF SetClosed
  <2>4. CASE CloseDone(p)       BY <2>4 DEF CloseDone
  <2>5. CASE Drain(p)           BY <2>5 DEF Drain
  <2>6. CASE CloseTransport(p)  BY <2>6 DEF CloseTransport
  <2> QED  BY <1>3, <2>1, <2>2, <2>3, <2>4, <2>5, <2>6 DEF CloseStep
<1>4. CASE ServerAnswer \/ ServerOther
  BY <1>4, ServerFrame DEF closeVars
<1>5. CASE UNCHANGED vars
  BY <1>5 DEF vars, closeVars
<1> QED  BY <1>1, <1>2, <1>3, <1>4, <1>5 DEF Next

-----------------------------------------------------------------------------
(* The histories only grow, so what they show once they show for ever.     *)

LEMMA SendShape ==
    ASSUME TypeOK, NEW c \in Caller, Send(c)
    PROVE  /\ Len(wire) \in Nat /\ Len(wire') = Len(wire) + 1
           /\ wire'[Len(wire) + 1] = [op |-> op[c], id |-> id[c]]
           /\ \A k \in 1 .. Len(wire) : wire'[k] = wire[k]
BY DEF TypeOK, Send

LEMMA ServerShape ==
    ASSUME TypeOK, NEW m, ServerSend(m)
    PROVE  /\ Len(output) \in Nat /\ Len(output') = Len(output) + 1
           /\ output'[Len(output) + 1] = m
           /\ \A k \in 1 .. Len(output) : output'[k] = output[k]
BY DEF TypeOK, ServerSend

WireKept   == Len(wire') >= Len(wire) /\ \A k \in 1 .. Len(wire) : wire'[k] = wire[k]
OutputKept == /\ consumed' >= consumed
              /\ \A k \in 1 .. Len(output) : output'[k] = output[k]

LEMMA WireGrows == TypeOK /\ [Next]_vars => WireKept
<1> SUFFICES ASSUME TypeOK, [Next]_vars PROVE WireKept
  OBVIOUS
<1> USE DEF WireKept
<1>0. Len(wire) \in Nat
  BY DEF TypeOK
<1>1. ASSUME UNCHANGED wire PROVE WireKept
  BY <1>0, <1>1
<1>2. ASSUME NEW c \in Caller, Send(c) PROVE WireKept
  <2>1. Len(wire') = Len(wire) + 1 /\ \A k \in 1 .. Len(wire) : wire'[k] = wire[k]
    BY <1>2, SendShape
  <2> QED  BY <1>0, <2>1
<1>3. ASSUME NEW c \in Caller, CallerStep(c), ~Send(c) PROVE UNCHANGED wire
  BY <1>3 DEF CallerStep, Validate, Opened, FoundClosed, Register, SendFailed,
              AwaitCancelled, AwaitClosed, AwaitResponse, Forget, SetState
<1>4. ASSUME NEW c \in Caller, NEW o \in Operation, Call(c, o) PROVE UNCHANGED wire
  BY <1>4 DEF Call
<1> QED
  BY <1>1, <1>2, <1>3, <1>4, ReaderFrame, CloseFrame, ServerFrame DEF Next, vars

LEMMA OutputGrows == TypeOK /\ [Next]_vars => OutputKept
<1> SUFFICES ASSUME TypeOK, [Next]_vars PROVE OutputKept
  OBVIOUS
<1> USE DEF OutputKept, TypeOK
<1>1. CASE UNCHANGED <<output, consumed>>
  BY <1>1
<1>2. CASE ReaderStep
  BY <1>2 DEF ReaderStep, LoopTop, Recv, RecvError, Lookup, Deliver
<1>3. ASSUME NEW m, ServerSend(m) PROVE OutputKept
  BY <1>3, ServerShape DEF ServerSend
<1> QED
  BY <1>1, <1>2, <1>3, CallerFrame, CloseFrame
     DEF Next, vars, ServerAnswer, ServerOther

LEMMA AnswersStay ==
    ASSUME TypeOK, TypeOK', OutputKept, NEW i
    PROVE  /\ AnsweredOk(i) => AnsweredOk(i)'
           /\ \A b \in BOOLEAN : FirstAnswer(i, b) => FirstAnswer(i, b)'
<1>0. /\ consumed \in Nat /\ consumed <= Len(output) /\ Len(output) \in Nat
      /\ consumed' \in Nat /\ consumed' >= consumed
      /\ \A k \in 1 .. consumed : k \in 1 .. consumed' /\ output'[k] = output[k]
  BY DEF TypeOK, OutputKept
<1>1. ASSUME AnsweredOk(i) PROVE AnsweredOk(i)'
  BY <1>0, <1>1 DEF AnsweredOk, Answers
<1>2. ASSUME NEW b \in BOOLEAN, FirstAnswer(i, b) PROVE FirstAnswer(i, b)'
  <2>1. PICK k \in 1 .. consumed : /\ Answers(output[k], i) /\ output[k].ok = b
                                   /\ \A j \in 1 .. k-1 : ~Answers(output[j], i)
    BY <1>2 DEF FirstAnswer
  <2>2. \A j \in 1 .. k-1 : output'[j] = output[j]
    BY <1>0
  <2> QED  BY <1>0, <2>1, <2>2 DEF FirstAnswer, Answers
<1> QED  BY <1>1, <1>2

LEMMA OnWireStays ==
    ASSUME TypeOK, TypeOK', WireKept, NEW i, OnWire(i)
    PROVE  OnWire(i)'
<1>1. PICK k \in 1 .. Len(wire) : wire[k].op \in Requests /\ wire[k].id = i
  BY DEF OnWire
<1>2. k \in 1 .. Len(wire') /\ wire'[k] = wire[k]
  BY DEF TypeOK, WireKept
<1> QED  BY <1>1, <1>2 DEF OnWire

-----------------------------------------------------------------------------
(* An id is on the wire only once sent, and answered only then.            *)

LEMMA WireNext == TypeOK /\ TypeOK' /\ IdInv /\ IdInv' /\ WireInv /\ [Next]_vars => WireInv'
<1> SUFFICES ASSUME TypeOK, TypeOK', IdInv, IdInv', WireInv, [Next]_vars PROVE WireInv'
  OBVIOUS
<1> DEFINE WireFrame == UNCHANGED <<wire, output, nextID, op, id>>
                          /\ \A c \in Caller : callPc'[c] \in Sending => callPc[c] \in Sending
<1>0. WireFrame => WireInv'
  BY DEF WireInv, OnWire, Ids
<1>1. ASSUME NEW c \in Caller, NEW o \in Operation, Call(c, o) PROVE WireInv'
  <2>1. UNCHANGED <<wire, output, nextID>> /\ callPc' = [callPc EXCEPT ![c] = "validate"]
    BY <1>1 DEF Call, clientVars, Goto
  <2>2. \A d \in Caller : callPc'[d] \in Sending => d # c /\ op'[d] = op[d] /\ id'[d] = id[d]
                                                   /\ callPc[d] \in Sending
    BY <1>1, <2>1 DEF Call, Sending, TypeOK
  <2> QED  BY <2>1, <2>2 DEF WireInv, OnWire, Ids
<1>2. ASSUME NEW c \in Caller, CallerStep(c) PROVE WireInv'
  <2>1. CASE Opened(c)
    <3>1. UNCHANGED <<wire, output, op>> /\ nextID' >= nextID
      BY <2>1 DEF Opened, NewID, TypeOK
    <3>2. \A i : OnWire(i)' <=> OnWire(i)
      BY <3>1 DEF OnWire
    <3>3. op[c] \in Requests => ~OnWire(id'[c])
      BY <2>1 DEF Opened, NewID, WireInv, OnWire, Ids, TypeOK
    <3>4. \A d \in Caller : d # c => callPc'[d] = callPc[d] /\ id'[d] = id[d]
      BY <2>1 DEF Opened, Goto, TypeOK
    <3>5. \A k \in 1 .. Len(wire) : wire[k].op \in Requests => wire[k].id \in Ids'
      BY <3>1 DEF WireInv, Ids, TypeOK
    <3> QED  BY <3>1, <3>2, <3>3, <3>4, <3>5 DEF WireInv
  <2>2. CASE Send(c)
    <3>0. /\ Len(wire) \in Nat /\ Len(wire') = Len(wire) + 1
          /\ wire'[Len(wire) + 1] = [op |-> op[c], id |-> id[c]]
          /\ \A k \in 1 .. Len(wire) : wire'[k] = wire[k]
      BY <2>2, SendShape
    <3>1. /\ callPc'[c] \notin Sending
          /\ \A d \in Caller : d # c => callPc'[d] = callPc[d]
      BY <2>2 DEF Send, Sending, Goto, Return, TypeOK
    <3>2. UNCHANGED <<op, id, nextID, output>>
      BY <2>2 DEF Send, clientVars
    <3>3. ASSUME NEW i, OnWire(i)' PROVE OnWire(i) \/ (op[c] \in Requests /\ i = id[c])
      <4>1. PICK k \in 1 .. Len(wire') : wire'[k].op \in Requests /\ wire'[k].id = i
        BY <3>3 DEF OnWire
      <4>2. CASE k = Len(wire) + 1
        BY <3>0, <4>1, <4>2
      <4>3. CASE k # Len(wire) + 1
        <5>1. k \in 1 .. Len(wire) /\ wire'[k] = wire[k]
          BY <3>0, <4>3
        <5> QED  BY <4>1, <5>1 DEF OnWire
      <4> QED  BY <4>2, <4>3
    <3>4. \A d \in Caller : callPc[d] \in Sending /\ op[d] \in Requests => id[d] # 0
      BY DEF IdInv, Sending
    <3>5. \A d \in Caller : d # c /\ callPc[d] \in Sending /\ op[d] \in Requests => id[d] # id[c]
      BY <3>4 DEF IdInv
    <3>6. \A d \in Caller : callPc'[d] \in Sending /\ op'[d] \in Requests => (~OnWire(id[d]))'
      BY <3>1, <3>2, <3>3, <3>5 DEF WireInv
    <3>7. op[c] \in Requests => id[c] \in Ids
      BY <2>2 DEF Send, At, IdInv, Ids, TypeOK
    <3>8. ASSUME NEW k \in 1 .. Len(wire'), wire'[k].op \in Requests PROVE wire'[k].id \in Ids'
      <4>1. CASE k = Len(wire) + 1
        BY <3>0, <3>2, <3>7, <3>8, <4>1 DEF Ids
      <4>2. CASE k # Len(wire) + 1
        <5>1. k \in 1 .. Len(wire) /\ wire'[k] = wire[k]
          BY <3>0, <4>2
        <5> QED  BY <3>2, <3>8, <5>1 DEF WireInv, Ids
      <4> QED  BY <4>1, <4>2
    <3>9. (\A k \in 1 .. Len(output) : output[k].kind = "response" => OnWire(output[k].id))'
      BY <3>2, WireGrows, OnWireStays DEF WireInv
    <3> QED  BY <3>6, <3>8, <3>9 DEF WireInv
  <2>3. CASE CallerStep(c) /\ ~Opened(c) /\ ~Send(c)
    <3>1. UNCHANGED <<wire, output, nextID, op, id>>
      BY <2>3 DEF CallerStep, Validate, FoundClosed, Register, SendFailed, clientVars,
                  AwaitCancelled, AwaitClosed, AwaitResponse, Forget, SetState
    <3>2. \A d \in Caller : callPc'[d] \in Sending => callPc[d] \in Sending
      BY <2>3 DEF CallerStep, Validate, FoundClosed, Register, SendFailed, Sending, At, Goto, Return,
                  AwaitCancelled, AwaitClosed, AwaitResponse, Forget, SetState, TypeOK
    <3> QED  BY <1>0, <3>1, <3>2
  <2> QED  BY <1>2, <2>1, <2>2, <2>3
<1>3. CASE ReaderStep
  BY <1>0, <1>3, ReaderFrame DEF callVars
<1>4. ASSUME NEW p \in CloseProc, Close(p) \/ CloseStep(p) PROVE WireInv'
  BY <1>0, <1>4, CloseFrame DEF callVars
<1>5. CASE ServerAnswer \/ ServerOther
  <2>1. UNCHANGED <<wire, nextID, op, id, callPc>>
    BY <1>5, ServerFrame DEF clientVars, callVars
  <2>2. PICK m : ServerSend(m) /\ (m.kind = "response" => OnWire(m.id))
    <3>1. CASE ServerAnswer
      <4>1. PICK k \in 1 .. Len(wire), b \in BOOLEAN :
              wire[k].op \in Requests /\ ServerSend(Response(wire[k].id, b))
        BY <3>1 DEF ServerAnswer
      <4>2. OnWire(Response(wire[k].id, b).id)
        BY <4>1 DEF Response, OnWire
      <4> QED  BY <4>1, <4>2
    <3>2. CASE ServerOther
      <4>1. PICK kind \in {"event", "malformed"} : ServerSend(Other(kind))
        BY <3>2 DEF ServerOther
      <4>2. Other(kind).kind # "response"
        BY DEF Other
      <4> QED  BY <4>1, <4>2
    <3> QED  BY <1>5, <3>1, <3>2
  <2>3. ASSUME NEW k \in 1 .. Len(output'), output'[k].kind = "response"
        PROVE  OnWire(output'[k].id)
    <3>1. CASE k = Len(output) + 1
      BY <2>2, <2>3, <3>1, ServerShape
    <3>2. CASE k # Len(output) + 1
      <4>1. k \in 1 .. Len(output) /\ output'[k] = output[k]
        BY <2>2, <3>2, ServerShape DEF TypeOK
      <4> QED  BY <2>3, <4>1 DEF WireInv
    <3> QED  BY <3>1, <3>2
  <2> QED  BY <2>1, <2>3 DEF WireInv, OnWire, Ids
<1>6. CASE UNCHANGED vars
  BY <1>0, <1>6 DEF vars, callVars, clientVars
<1> QED  BY <1>1, <1>2, <1>3, <1>4, <1>5, <1>6 DEF Next

-----------------------------------------------------------------------------
(* Response channels.                                                      *)

Routing == {"lookup", "deliver"}

\* Steps that disturb no channel: they keep channels, ids and answers, may
\* shrink the map, and bring no call to a position ChanInv speaks of.
ChanFrame ==
    /\ UNCHANGED <<chan, nextID, consumed>>
    /\ readPc' = readPc \/ (readPc \notin Routing /\ readPc' \notin Routing)
    /\ \A k \in 1 .. Len(output) : output'[k] = output[k]
    /\ pending' \subseteq pending
    /\ done => done'
    /\ \A c \in Caller :
         /\ callPc'[c] = "register" => callPc[c] = "register" /\ id'[c] = id[c]
         /\ callPc'[c] = "setState" /\ op'[c] = "initialize" =>
              callPc[c] = "setState" /\ op[c] = "initialize" /\ id'[c] = id[c]

LEMMA ChanFrameKeeps == TypeOK /\ TypeOK' /\ ChanInv /\ ChanFrame => ChanInv'
<1> SUFFICES ASSUME TypeOK, TypeOK', ChanInv, ChanFrame PROVE ChanInv'
  OBVIOUS
<1>0. /\ consumed \in Nat /\ consumed <= Len(output) /\ Len(output) \in Nat /\ consumed' = consumed
      /\ \A k \in 1 .. consumed : output'[k] = output[k]
      /\ Ids' = Ids /\ chan' = chan
  BY DEF TypeOK, ChanFrame, Ids
<1>1. readPc' \in Routing => readPc' = readPc /\ consumed >= 1 /\ Current' = Current
  <2>1. readPc' \in Routing => readPc' = readPc
    BY DEF ChanFrame
  <2>2. readPc \in Routing => consumed >= 1
    BY DEF ChanInv, Routing
  <2>3. consumed >= 1 => output'[consumed'] = output[consumed]
    BY <1>0
  <2> QED  BY <2>1, <2>2, <2>3 DEF Current
<1>2. Processed' = Processed
  BY <1>0 DEF Processed, ChanFrame, Routing
<1>3. Processed \in Int /\ Processed <= consumed
  BY <1>0 DEF Processed
<1>4. ASSUME NEW i, NEW b \in BOOLEAN, FirstAnswer(i, b) PROVE FirstAnswer(i, b)'
  <2>1. OutputKept
    BY <1>0 DEF OutputKept, ChanFrame
  <2> QED  BY <1>4, <2>1, AnswersStay
<1>5. (readPc \in {"lookup", "deliver"} => consumed >= 1 /\ Current.kind = "response")'
  BY <1>0, <1>1 DEF ChanInv, Routing
<1>6. ASSUME readPc' = "deliver"
      PROVE  (/\ Current.id \in Ids /\ Current.id \notin pending
              /\ chan[Current.id] = "empty"
              /\ \A k \in 1 .. consumed-1 : ~Answers(output[k], Current.id))'
  <2>1. readPc = "deliver" /\ Current' = Current
    BY <1>1, <1>6 DEF Routing
  <2>2. \A k \in 1 .. consumed-1 : output'[k] = output[k] /\ ~Answers(output[k], Current.id)
    BY <1>0, <2>1 DEF ChanInv
  <2>3. Current.id \in Ids /\ Current.id \notin pending /\ chan[Current.id] = "empty"
    BY <2>1 DEF ChanInv
  <2>4. Current.id \notin pending'
    BY <2>3 DEF ChanFrame
  <2> QED  BY <1>0, <2>1, <2>2, <2>3, <2>4 DEF Answers
<1>7. ASSUME NEW i \in pending'
      PROVE  chan'[i] = "empty" /\ \A k \in 1 .. Processed' : ~Answers(output'[k], i)
  <2>1. i \in pending
    BY <1>7 DEF ChanFrame
  <2>2. \A k \in 1 .. Processed : output'[k] = output[k]
    BY <1>0, <1>3
  <2> QED  BY <1>0, <1>2, <2>1, <2>2 DEF ChanInv
<1>8. ASSUME NEW c \in Caller, callPc'[c] = "register"
      PROVE  id'[c] \notin pending' /\ chan'[id'[c]] = "empty"
  BY <1>0, <1>8 DEF ChanInv, ChanFrame
<1>9. ASSUME NEW i \in Ids'
      PROVE  /\ chan'[i] = "ok" => FirstAnswer(i, TRUE)'
             /\ chan'[i] = "error" => FirstAnswer(i, FALSE)'
             /\ chan'[i] = "closed" => done'
  BY <1>0, <1>4 DEF ChanInv, ChanFrame
<1>10. ASSUME NEW c \in Caller, op'[c] = "initialize", callPc'[c] = "setState"
       PROVE  FirstAnswer(id[c], TRUE)'
  <2>1. id'[c] = id[c] /\ FirstAnswer(id[c], TRUE)
    BY <1>10 DEF ChanInv, ChanFrame
  <2>2. FirstAnswer(id[c], TRUE)'
    <3> DEFINE i == id[c]
    <3>1. ASSUME NEW j, j = id[c] PROVE FirstAnswer(j, TRUE)'
      BY <1>4, <2>1, <3>1
    <3> QED  BY <2>1, <3>1 DEF FirstAnswer
  <2> QED  BY <2>2
<1> QED  BY <1>5, <1>6, <1>7, <1>8, <1>9, <1>10 DEF ChanInv

LEMMA OpenedKeepsChan ==
    ASSUME TypeOK, TypeOK', IdInv, ChanInv, NEW c \in Caller, Opened(c)
    PROVE  ChanInv'
<1>1. CASE op[c] \notin Requests
  <2>1. ChanFrame
    BY <1>1 DEF Opened, ChanFrame, Routing, Goto, closeVars, TypeOK
  <2> QED  BY <2>1, ChanFrameKeeps
<1>2. CASE op[c] \in Requests
  <2>0. nextID \in Nat /\ nextID' = nextID + 1 /\ id' = [id EXCEPT ![c] = nextID + 1]
    BY <1>2 DEF Opened, NewID, TypeOK
  <2>1. chan' = [i \in 1 .. nextID + 1 |-> IF i = nextID + 1 THEN "empty" ELSE chan[i]]
    BY <1>2 DEF Opened, NewID
  <2>2. /\ UNCHANGED <<op, pending, done, output, consumed>>
        /\ callPc' = [callPc EXCEPT ![c] = "register"]
        /\ readPc' = readPc \/ (readPc = "unstarted" /\ readPc' = "check")
    BY <1>2 DEF Opened, Goto, closeVars
  <2>3. Ids' = Ids \cup {nextID + 1} /\ nextID + 1 \notin Ids /\ pending \subseteq Ids
    BY <2>0 DEF Ids, IdInv
  <2>4. chan'[nextID + 1] = "empty" /\ \A i \in Ids : chan'[i] = chan[i]
    BY <2>0, <2>1 DEF Ids
  <2>5. Current' = Current /\ Processed' = Processed
    BY <2>2 DEF Current, Processed
  <2>6. \A i : \A b \in BOOLEAN : FirstAnswer(i, b)' <=> FirstAnswer(i, b)
    BY <2>2 DEF FirstAnswer
  <2>7. /\ id'[c] = nextID + 1
        /\ \A d \in Caller : d # c => id'[d] = id[d] /\ callPc'[d] = callPc[d]
    BY <2>0, <2>2 DEF TypeOK
  <2>8. (readPc \in {"lookup", "deliver"} => consumed >= 1 /\ Current.kind = "response")'
    BY <2>2, <2>5 DEF ChanInv
  <2>9. (readPc = "deliver" =>
           /\ Current.id \in Ids /\ Current.id \notin pending
           /\ chan[Current.id] = "empty"
           /\ \A k \in 1 .. consumed-1 : ~Answers(output[k], Current.id))'
    BY <2>2, <2>3, <2>4, <2>5 DEF ChanInv
  <2>10. (\A i \in pending : /\ chan[i] = "empty"
                            /\ \A k \in 1 .. Processed : ~Answers(output[k], i))'
    BY <2>2, <2>3, <2>4, <2>5 DEF ChanInv
  <2>11. \A d \in Caller : callPc[d] = "register" => id[d] \in Ids
    BY <2>0 DEF IdInv, Ids, TypeOK
  <2>12. (\A d \in Caller : callPc[d] = "register" => id[d] \notin pending /\ chan[id[d]] = "empty")'
    BY <2>2, <2>3, <2>4, <2>7, <2>11 DEF ChanInv
  <2>13. (\A i \in Ids : /\ chan[i] = "ok" => FirstAnswer(i, TRUE)
                         /\ chan[i] = "error" => FirstAnswer(i, FALSE)
                         /\ chan[i] = "closed" => done)'
    BY <2>2, <2>3, <2>4, <2>6 DEF ChanInv
  <2>14. (\A d \in Caller : op[d] = "initialize" /\ callPc[d] = "setState"
                              => FirstAnswer(id[d], TRUE))'
    <3> SUFFICES ASSUME NEW d \in Caller, op'[d] = "initialize", callPc'[d] = "setState"
                 PROVE  FirstAnswer(id[d], TRUE)'
      OBVIOUS
    <3>1. d # c /\ id'[d] = id[d] /\ callPc[d] = "setState" /\ op[d] = "initialize"
      BY <2>2, <2>7 DEF TypeOK
    <3> QED  BY <2>2, <3>1 DEF ChanInv, FirstAnswer
  <2> QED  BY <2>8, <2>9, <2>10, <2>12, <2>13, <2>14 DEF ChanInv
<1> QED  BY <1>1, <1>2

LEMMA AnsweredOnWire ==
    ASSUME TypeOK, WireInv, NEW k \in 1 .. Len(output), NEW i, Answers(output[k], i)
    PROVE  OnWire(i)
BY DEF WireInv, Answers

LEMMA RegisterKeepsChan ==
    ASSUME TypeOK, TypeOK', IdInv, WireInv, ChanInv, NEW c \in Caller, Register(c)
    PROVE  ChanInv'
<1>0. /\ callPc[c] = "register" /\ op[c] \in Requests /\ ~OnWire(id[c])
      /\ pending' = pending \cup {id[c]}
      /\ callPc' = [callPc EXCEPT ![c] = "send"]
      /\ UNCHANGED <<op, id, chan, nextID, done, readPc, output, consumed>>
  BY DEF Register, At, Goto, IdInv, WireInv, Sending, closeVars
<1>1. id[c] # 0 /\ \A d \in Caller : d # c => id[d] # id[c]
  BY <1>0 DEF IdInv
<1>2. \A k \in 1 .. Len(output) : ~Answers(output[k], id[c])
  BY <1>0, AnsweredOnWire
<1>3. consumed \in Nat /\ consumed <= Len(output) /\ Len(output) \in Nat
  BY DEF TypeOK
<1>4. Current' = Current /\ Processed' = Processed /\ Ids' = Ids
  BY <1>0 DEF Current, Processed, Ids
<1>5. Processed <= Len(output) /\ Processed \in Int
  BY <1>3 DEF Processed
<1>6. readPc = "deliver" => Current.id # id[c]
  BY <1>2, <1>3 DEF ChanInv, Answers, Current
<1>7. (readPc = "deliver" =>
         /\ Current.id \in Ids /\ Current.id \notin pending
         /\ chan[Current.id] = "empty"
         /\ \A k \in 1 .. consumed-1 : ~Answers(output[k], Current.id))'
  BY <1>0, <1>4, <1>6 DEF ChanInv
<1>8. (\A i \in pending : /\ chan[i] = "empty"
                         /\ \A k \in 1 .. Processed : ~Answers(output[k], i))'
  <2>1. chan[id[c]] = "empty" /\ \A k \in 1 .. Processed : ~Answers(output[k], id[c])
    BY <1>0, <1>2, <1>3, <1>5 DEF ChanInv
  <2> QED  BY <1>0, <1>4, <2>1 DEF ChanInv
<1>9. (\A d \in Caller : callPc[d] = "register" => id[d] \notin pending /\ chan[id[d]] = "empty")'
  BY <1>0, <1>1 DEF ChanInv, TypeOK
<1>10. (\A i \in Ids : /\ chan[i] = "ok" => FirstAnswer(i, TRUE)
                       /\ chan[i] = "error" => FirstAnswer(i, FALSE)
                       /\ chan[i] = "closed" => done)'
  BY <1>0, <1>4 DEF ChanInv, FirstAnswer
<1>11. (\A d \in Caller : op[d] = "initialize" /\ callPc[d] = "setState"
                            => FirstAnswer(id[d], TRUE))'
  BY <1>0 DEF ChanInv, FirstAnswer, TypeOK
<1>12. (readPc \in {"lookup", "deliver"} => consumed >= 1 /\ Current.kind = "response")'
  BY <1>0, <1>4 DEF ChanInv
<1> QED  BY <1>7, <1>8, <1>9, <1>10, <1>11, <1>12 DEF ChanInv

LEMMA AwaitResponseKeepsChan ==
    ASSUME TypeOK, TypeOK', IdInv, ChanInv, NEW c \in Caller, AwaitResponse(c)
    PROVE  ChanInv'
<1>0. /\ callPc[c] = "await" /\ chan[id[c]] \in {"ok", "error"}
      /\ chan' = [chan EXCEPT ![id[c]] = "empty"]
      /\ callPc' = [callPc EXCEPT ![c] = callPc'[c]] /\ callPc'[c] \in {"setState", "idle"}
      /\ callPc'[c] = "setState" => chan[id[c]] = "ok"
      /\ UNCHANGED <<op, id, pending, nextID, done, readPc, output, consumed>>
  BY DEF AwaitResponse, At, Goto, Return, closeVars, TypeOK
<1>1. id[c] \in Ids
  BY <1>0 DEF IdInv, Ids, TypeOK
<1>2. \A i \in Ids : chan'[i] = chan[i] \/ (i = id[c] /\ chan'[i] = "empty")
  BY <1>0, <1>1 DEF TypeOK
<1>3. Current' = Current /\ Processed' = Processed /\ Ids' = Ids
  BY <1>0 DEF Current, Processed, Ids
<1>4. \A d \in Caller : d # c => callPc'[d] = callPc[d]
  BY <1>0 DEF TypeOK
<1>5. pending \subseteq Ids /\ \A d \in Caller : callPc[d] = "register" => id[d] \in Ids
  BY DEF IdInv, Ids, TypeOK
<1>6. (readPc = "deliver" =>
         /\ Current.id \in Ids /\ Current.id \notin pending
         /\ chan[Current.id] = "empty"
         /\ \A k \in 1 .. consumed-1 : ~Answers(output[k], Current.id))'
  BY <1>0, <1>2, <1>3 DEF ChanInv
<1>7. (\A i \in pending : /\ chan[i] = "empty"
                         /\ \A k \in 1 .. Processed : ~Answers(output[k], i))'
  BY <1>0, <1>2, <1>3, <1>5 DEF ChanInv
<1>8. (\A d \in Caller : callPc[d] = "register" => id[d] \notin pending /\ chan[id[d]] = "empty")'
  BY <1>0, <1>2, <1>4, <1>5 DEF ChanInv
<1>9. (\A i \in Ids : /\ chan[i] = "ok" => FirstAnswer(i, TRUE)
                      /\ chan[i] = "error" => FirstAnswer(i, FALSE)
                      /\ chan[i] = "closed" => done)'
  BY <1>0, <1>2, <1>3 DEF ChanInv, FirstAnswer
<1>10. (\A d \in Caller : op[d] = "initialize" /\ callPc[d] = "setState"
                            => FirstAnswer(id[d], TRUE))'
  BY <1>0, <1>1, <1>4 DEF ChanInv, FirstAnswer
<1>11. (readPc \in {"lookup", "deliver"} => consumed >= 1 /\ Current.kind = "response")'
  BY <1>0, <1>3 DEF ChanInv
<1> QED  BY <1>6, <1>7, <1>8, <1>9, <1>10, <1>11 DEF ChanInv

LEMMA RecvKeepsChan ==
    ASSUME TypeOK, TypeOK', ChanInv, Recv
    PROVE  ChanInv'
<1>0. /\ readPc = "recv" /\ consumed \in Nat /\ consumed' = consumed + 1
      /\ consumed + 1 \in 1 .. Len(output)
      /\ readPc' = IF output[consumed + 1].kind = "response" THEN "lookup" ELSE "check"
      /\ UNCHANGED <<op, id, callPc, pending, chan, nextID, done, output>>
  BY DEF Recv, clientVars, callVars, closeVars, TypeOK
<1>1. Ids' = Ids /\ Current' = output[consumed + 1]
  BY <1>0 DEF Ids, Current
<1>2. Processed = consumed /\ Processed' \in {consumed, consumed + 1}
  BY <1>0 DEF Processed
<1>3. Processed' = consumed + 1 => output[consumed + 1].kind # "response"
  BY <1>0 DEF Processed
<1>4. \A i, b : FirstAnswer(i, b) => FirstAnswer(i, b)'
  BY <1>0 DEF FirstAnswer
<1>5. (readPc \in {"lookup", "deliver"} => consumed >= 1 /\ Current.kind = "response")'
  BY <1>0, <1>1
<1>6. readPc' # "deliver"
  BY <1>0
<1>7. ASSUME NEW i \in pending
      PROVE  chan[i] = "empty" /\ \A k \in 1 .. Processed' : ~Answers(output[k], i)
  <2>1. chan[i] = "empty" /\ \A k \in 1 .. consumed : ~Answers(output[k], i)
    BY <1>2 DEF ChanInv
  <2>2. Processed' = consumed + 1 => ~Answers(output[consumed + 1], i)
    BY <1>3 DEF Answers
  <2> QED  BY <1>0, <1>2, <2>1, <2>2
<1>8. (\A d \in Caller : callPc[d] = "register" => id[d] \notin pending /\ chan[id[d]] = "empty")'
  BY <1>0 DEF ChanInv
<1>9. (\A i \in Ids : /\ chan[i] = "ok" => FirstAnswer(i, TRUE)
                      /\ chan[i] = "error" => FirstAnswer(i, FALSE)
                      /\ chan[i] = "closed" => done)'
  BY <1>0, <1>1, <1>4 DEF ChanInv
<1>10. (\A d \in Caller : op[d] = "initialize" /\ callPc[d] = "setState"
                            => FirstAnswer(id[d], TRUE))'
  <2>1. ASSUME NEW d \in Caller, op[d] = "initialize", callPc[d] = "setState"
        PROVE  FirstAnswer(id[d], TRUE)'
    <3>1. FirstAnswer(id[d], TRUE)
      BY <2>1 DEF ChanInv
    <3> QED  BY <1>0, <3>1 DEF FirstAnswer
  <2> QED  BY <1>0, <2>1
<1>11. (\A i \in pending : /\ chan[i] = "empty"
                          /\ \A k \in 1 .. Processed : ~Answers(output[k], i))'
  BY <1>0, <1>7
<1> QED  BY <1>5, <1>6, <1>8, <1>9, <1>10, <1>11 DEF ChanInv

LEMMA LookupKeepsChan ==
    ASSUME TypeOK, TypeOK', IdInv, ChanInv, Lookup
    PROVE  ChanInv'
<1>0. /\ readPc = "lookup" /\ consumed \in Nat /\ consumed >= 1 /\ Current.kind = "response"
      /\ pending' = pending \ {Current.id}
      /\ readPc' = IF Current.id \in pending THEN "deliver" ELSE "check"
      /\ UNCHANGED <<op, id, callPc, consumed, chan, nextID, done, output>>
  BY DEF Lookup, ChanInv, callVars, closeVars, TypeOK
<1>1. Ids' = Ids /\ Current' = Current /\ Processed = consumed - 1 /\ Processed' = consumed
  BY <1>0 DEF Ids, Current, Processed
<1>2. \A i, b : FirstAnswer(i, b)' <=> FirstAnswer(i, b)
  BY <1>0 DEF FirstAnswer
<1>3. (readPc = "deliver" =>
         /\ Current.id \in Ids /\ Current.id \notin pending
         /\ chan[Current.id] = "empty"
         /\ \A k \in 1 .. consumed-1 : ~Answers(output[k], Current.id))'
  BY <1>0, <1>1 DEF ChanInv, IdInv
<1>4. ASSUME NEW i \in pending'
      PROVE  chan[i] = "empty" /\ \A k \in 1 .. consumed : ~Answers(output[k], i)
  <2>1. i \in pending /\ i # Current.id
    BY <1>0, <1>4
  <2>2. chan[i] = "empty" /\ \A k \in 1 .. consumed - 1 : ~Answers(output[k], i)
    BY <1>1, <2>1 DEF ChanInv
  <2>3. ~Answers(output[consumed], i)
    BY <2>1 DEF Answers, Current
  <2> QED  BY <1>0, <2>2, <2>3
<1>5. (\A i \in pending : /\ chan[i] = "empty"
                         /\ \A k \in 1 .. Processed : ~Answers(output[k], i))'
  BY <1>0, <1>1, <1>4
<1>6. (\A d \in Caller : callPc[d] = "register" => id[d] \notin pending /\ chan[id[d]] = "empty")'
  BY <1>0 DEF ChanInv
<1>7. (\A i \in Ids : /\ chan[i] = "ok" => FirstAnswer(i, TRUE)
                      /\ chan[i] = "error" => FirstAnswer(i, FALSE)
                      /\ chan[i] = "closed" => done)'
  BY <1>0, <1>1, <1>2 DEF ChanInv
<1>8. (\A d \in Caller : op[d] = "initialize" /\ callPc[d] = "setState"
                           => FirstAnswer(id[d], TRUE))'
  BY <1>0 DEF ChanInv, FirstAnswer
<1>9. (readPc \in {"lookup", "deliver"} => consumed >= 1 /\ Current.kind = "response")'
  BY <1>0, <1>1
<1> QED  BY <1>3, <1>5, <1>6, <1>7, <1>8, <1>9 DEF ChanInv

LEMMA DeliverKeepsChan ==
    ASSUME TypeOK, TypeOK', IdInv, WireInv, ChanInv, Deliver
    PROVE  ChanInv'
<1>0. /\ readPc = "deliver" /\ consumed \in 1 .. Len(output)
      /\ chan' = [chan EXCEPT ![Current.id] = IF Current.ok THEN "ok" ELSE "error"]
      /\ readPc' = "check"
      /\ UNCHANGED <<op, id, callPc, consumed, pending, nextID, done, output>>
  BY DEF Deliver, ChanInv, callVars, closeVars, TypeOK
<1>1. /\ Current.id \in Ids /\ Current.id \notin pending
      /\ Answers(Current, Current.id)
      /\ \A k \in 1 .. consumed-1 : ~Answers(output[k], Current.id)
  BY <1>0 DEF ChanInv, Answers
<1>2. Current.ok \in BOOLEAN
  <2>1. output[consumed] \in Received
    BY <1>0 DEF TypeOK
  <2> QED  BY <2>1 DEF Current, Received
<1>3. FirstAnswer(Current.id, Current.ok)
  BY <1>0, <1>1 DEF FirstAnswer, Current
<1>4. \A i, b : FirstAnswer(i, b)' <=> FirstAnswer(i, b)
  BY <1>0 DEF FirstAnswer
<1>5. Ids' = Ids /\ Processed' = Processed
  BY <1>0 DEF Ids, Processed
<1>6. /\ chan'[Current.id] = IF Current.ok THEN "ok" ELSE "error"
      /\ \A i : i # Current.id => chan'[i] = chan[i]
  BY <1>0, <1>1 DEF TypeOK
<1>7. OnWire(Current.id)
  BY <1>0, <1>1, AnsweredOnWire DEF Current
<1>8. \A d \in Caller : callPc[d] = "register" => id[d] # Current.id
  BY <1>7 DEF WireInv, Sending, IdInv
<1>9. (\A i \in pending : /\ chan[i] = "empty"
                         /\ \A k \in 1 .. Processed : ~Answers(output[k], i))'
  BY <1>0, <1>1, <1>5, <1>6 DEF ChanInv
<1>10. (\A d \in Caller : callPc[d] = "register" => id[d] \notin pending /\ chan[id[d]] = "empty")'
  BY <1>0, <1>6, <1>8 DEF ChanInv
<1>11. (\A i \in Ids : /\ chan[i] = "ok" => FirstAnswer(i, TRUE)
                       /\ chan[i] = "error" => FirstAnswer(i, FALSE)
                       /\ chan[i] = "closed" => done)'
  <2> SUFFICES ASSUME NEW i \in Ids'
               PROVE  (/\ chan[i] = "ok" => FirstAnswer(i, TRUE)
                       /\ chan[i] = "error" => FirstAnswer(i, FALSE)
                       /\ chan[i] = "closed" => done)'
    OBVIOUS
  <2>1. CASE i = Current.id
    <3>1. CASE Current.ok = TRUE
      BY <1>3, <1>4, <1>6, <2>1, <3>1
    <3>2. CASE Current.ok = FALSE
      BY <1>3, <1>4, <1>6, <2>1, <3>2
    <3> QED  BY <1>2, <3>1, <3>2
  <2>2. CASE i # Current.id
    BY <1>0, <1>4, <1>5, <1>6, <2>2 DEF ChanInv
  <2> QED  BY <2>1, <2>2
<1>12. (\A d \in Caller : op[d] = "initialize" /\ callPc[d] = "setState"
                            => FirstAnswer(id[d], TRUE))'
  BY <1>0 DEF ChanInv, FirstAnswer
<1>13. readPc' \notin {"lookup", "deliver"}
  BY <1>0
<1> QED  BY <1>9, <1>10, <1>11, <1>12, <1>13 DEF ChanInv

LEMMA DrainKeepsChan ==
    ASSUME TypeOK, TypeOK', IdInv, ChanInv, CloseInv, NEW p \in CloseProc, Drain(p)
    PROVE  ChanInv'
<1>0. /\ done /\ pending' = {}
      /\ chan' = [i \in Ids |-> IF i \in pending THEN "closed" ELSE chan[i]]
      /\ UNCHANGED <<op, id, callPc, consumed, readPc, nextID, done, output>>
  BY DEF Drain, CloseInv, callVars
<1>1. Ids' = Ids /\ Current' = Current
  BY <1>0 DEF Ids, Current
<1>2. \A i, b : FirstAnswer(i, b)' <=> FirstAnswer(i, b)
  BY <1>0 DEF FirstAnswer
<1>3. (readPc = "deliver" =>
         /\ Current.id \in Ids /\ Current.id \notin pending
         /\ chan[Current.id] = "empty"
         /\ \A k \in 1 .. consumed-1 : ~Answers(output[k], Current.id))'
  BY <1>0, <1>1 DEF ChanInv
<1>4. \A d \in Caller : callPc[d] = "register" => id[d] \in Ids
  BY DEF IdInv, Ids, TypeOK
<1>5. (\A d \in Caller : callPc[d] = "register" => id[d] \notin pending /\ chan[id[d]] = "empty")'
  BY <1>0, <1>4 DEF ChanInv
<1>6. (\A i \in Ids : /\ chan[i] = "ok" => FirstAnswer(i, TRUE)
                      /\ chan[i] = "error" => FirstAnswer(i, FALSE)
                      /\ chan[i] = "closed" => done)'
  BY <1>0, <1>1, <1>2 DEF ChanInv
<1>7. (\A d \in Caller : op[d] = "initialize" /\ callPc[d] = "setState"
                           => FirstAnswer(id[d], TRUE))'
  BY <1>0 DEF ChanInv, FirstAnswer
<1>8. (readPc \in {"lookup", "deliver"} => consumed >= 1 /\ Current.kind = "response")'
  BY <1>0, <1>1 DEF ChanInv
<1> QED  BY <1>0, <1>3, <1>5, <1>6, <1>7, <1>8 DEF ChanInv

LEMMA ChanNext ==
    TypeOK /\ TypeOK' /\ IdInv /\ WireInv /\ CloseInv /\ ChanInv /\ [Next]_vars => ChanInv'
<1> SUFFICES ASSUME TypeOK, TypeOK', IdInv, WireInv, CloseInv, ChanInv, [Next]_vars
             PROVE  ChanInv'
  OBVIOUS
<1>0. ChanFrame => ChanInv'
  BY ChanFrameKeeps
<1>1. ASSUME NEW c \in Caller, NEW o \in Operation, Call(c, o) PROVE ChanFrame
  BY <1>1 DEF Call, Goto, At, ChanFrame, clientVars, closeVars, TypeOK
<1>2. ASSUME NEW c \in Caller, CallerStep(c) PROVE ChanInv'
  <2> DEFINE Quiet == Validate(c) \/ FoundClosed(c) \/ Send(c) \/ SendFailed(c)
                      \/ AwaitCancelled(c) \/ AwaitClosed(c) \/ Forget(c) \/ SetState(c)
  <2>1. CASE Quiet
    <3> USE DEF ChanFrame, At, Goto, Return, clientVars, closeVars, TypeOK
    <3>1. CASE Validate(c)        BY <1>0, <3>1 DEF Validate
    <3>2. CASE FoundClosed(c)     BY <1>0, <3>2 DEF FoundClosed
    <3>3. CASE Send(c)            BY <1>0, <3>3 DEF Send, Requests
    <3>4. CASE SendFailed(c)      BY <1>0, <3>4 DEF SendFailed
    <3>5. CASE AwaitCancelled(c)  BY <1>0, <3>5 DEF AwaitCancelled
    <3>6. CASE AwaitClosed(c)     BY <1>0, <3>6 DEF AwaitClosed
    <3>7. CASE Forget(c)          BY <1>0, <3>7 DEF Forget
    <3>8. CASE SetState(c)        BY <1>0, <3>8 DEF SetState
    <3> QED  BY <2>1, <3>1, <3>2, <3>3, <3>4, <3>5, <3>6, <3>7, <3>8
  <2>2. CASE Opened(c) \/ Register(c) \/ AwaitResponse(c)
    BY <2>2, OpenedKeepsChan, RegisterKeepsChan, AwaitResponseKeepsChan
  <2> QED  BY <1>2, <2>1, <2>2 DEF CallerStep
<1>3. CASE ReaderStep
  <2>1. CASE LoopTop
    BY <1>0, <2>1 DEF LoopTop, ChanFrame, Routing, clientVars, callVars, closeVars
  <2>2. CASE RecvError
    BY <1>0, <2>2 DEF RecvError, ChanFrame, Routing, clientVars, callVars
  <2> QED
    BY <1>3, <2>1, <2>2, RecvKeepsChan, LookupKeepsChan, DeliverKeepsChan DEF ReaderStep
<1>4. ASSUME NEW p \in CloseProc, Close(p) \/ CloseStep(p) PROVE ChanInv'
  <2>1. CASE Drain(p)
    BY <2>1, DrainKeepsChan
  <2>2. CASE CloseTransport(p)
    <3>1. readPc' = readPc \/ (readPc \notin Routing /\ readPc' \notin Routing)
      BY <2>2 DEF CloseTransport, CloseInv, Routing
    <3> QED  BY <1>0, <2>2, <3>1 DEF CloseTransport, ChanFrame, clientVars, callVars
  <2>3. CASE Close(p) \/ EnterOnce(p) \/ SetClosed(p) \/ CloseDone(p)
    BY <1>0, <2>3 DEF Close, EnterOnce, SetClosed, CloseDone, ChanFrame, clientVars, callVars
  <2> QED  BY <1>4, <2>1, <2>2, <2>3 DEF CloseStep
<1>5. CASE ServerAnswer \/ ServerOther
  <2>1. UNCHANGED <<clientVars, closeVars, readPc, callVars, wire, consumed>>
    BY <1>5, ServerFrame
  <2>2. \A k \in 1 .. Len(output) : output'[k] = output[k]
    BY OutputGrows DEF OutputKept
  <2> QED  BY <1>0, <2>1, <2>2 DEF ChanFrame, clientVars, closeVars, callVars
<1>6. CASE UNCHANGED vars
  BY <1>0, <1>6 DEF vars, ChanFrame, clientVars, closeVars, callVars
<1> QED  BY <1>0, <1>1, <1>2, <1>3, <1>4, <1>5, <1>6 DEF Next

-----------------------------------------------------------------------------
(* Results and map entries.                                                *)

LEMMA AnswerNext ==
    TypeOK /\ TypeOK' /\ IdInv /\ ChanInv /\ FirstAnswerWins /\ [Next]_vars => FirstAnswerWins'
<1> SUFFICES ASSUME TypeOK, TypeOK', IdInv, ChanInv, FirstAnswerWins, [Next]_vars,
                    NEW d \in Caller, op'[d] \in Requests, outcome'[d] \in {"ok", "error"}
             PROVE  FirstAnswer(id[d], outcome[d] = "ok")'
  BY DEF FirstAnswerWins
<1>0. OutputKept
  BY OutputGrows
<1>1. ASSUME op'[d] = op[d], id'[d] = id[d], outcome'[d] = outcome[d]
      PROVE  FirstAnswer(id[d], outcome[d] = "ok")'
  <2>1. FirstAnswer(id[d], outcome[d] = "ok")
    BY <1>1 DEF FirstAnswerWins
  <2>2. ASSUME NEW i, NEW b \in BOOLEAN, FirstAnswer(i, b), id'[d] = i, (outcome'[d] = "ok") = b
        PROVE  FirstAnswer(id[d], outcome[d] = "ok")'
    <3>1. FirstAnswer(i, b)'
      BY <1>0, <2>2, AnswersStay
    <3> QED  BY <2>2, <3>1 DEF FirstAnswer
  <2> QED  BY <1>1, <2>1, <2>2
<1>2. ASSUME NEW c \in Caller, NEW o \in Operation, Call(c, o)
      PROVE  d # c /\ op'[d] = op[d] /\ id'[d] = id[d] /\ outcome'[d] = outcome[d]
  BY <1>2 DEF Call, TypeOK
<1>3. ASSUME NEW c \in Caller, CallerStep(c) PROVE FirstAnswer(id[d], outcome[d] = "ok")'
  <2> USE DEF At, Goto, Return
  <2>1. ASSUME d # c PROVE op'[d] = op[d] /\ id'[d] = id[d] /\ outcome'[d] = outcome[d]
    BY <1>3, <2>1 DEF CallerStep, Validate, Opened, FoundClosed, Register, Send, SendFailed,
                      AwaitCancelled, AwaitClosed, AwaitResponse, Forget, SetState, TypeOK
  <2>2. ASSUME d = c, AwaitResponse(c) PROVE FirstAnswer(id[d], outcome[d] = "ok")'
    <3>1. op[c] \in Requests /\ callPc[c] = "await" /\ outcome[c] = "none"
      BY <2>2 DEF AwaitResponse, IdInv
    <3>2. id[c] \in Ids
      BY <3>1 DEF IdInv, Ids, TypeOK
    <3>3. /\ chan[id[c]] \in {"ok", "error"} /\ outcome'[c] = chan[id[c]]
          /\ UNCHANGED <<id, output, consumed>>
      BY <2>2, <3>1 DEF AwaitResponse, TypeOK
    <3>4. CASE chan[id[c]] = "ok"
      <4>1. FirstAnswer(id[c], TRUE) /\ outcome'[c] = "ok"
        BY <3>2, <3>3, <3>4 DEF ChanInv
      <4> QED  BY <2>2, <3>3, <4>1 DEF FirstAnswer
    <3>5. CASE chan[id[c]] = "error"
      <4>1. FirstAnswer(id[c], FALSE) /\ outcome'[c] = "error"
        BY <3>2, <3>3, <3>5 DEF ChanInv
      <4> QED  BY <2>2, <3>3, <4>1 DEF FirstAnswer
    <3> QED  BY <3>3, <3>4, <3>5
  <2>3. ASSUME d = c, SetState(c) PROVE FirstAnswer(id[d], outcome[d] = "ok")'
    <3>1. UNCHANGED <<id, op, output, consumed>> /\ outcome'[c] = "ok" /\ callPc[c] = "setState"
      BY <2>3 DEF SetState, TypeOK
    <3>2. op[c] = "initialize"
      BY <2>3, <3>1 DEF IdInv, Requests
    <3>3. FirstAnswer(id[c], TRUE)
      BY <3>1, <3>2 DEF ChanInv
    <3> QED  BY <2>3, <3>1, <3>3 DEF FirstAnswer
  <2>4. ASSUME d = c, Send(c) PROVE FirstAnswer(id[d], outcome[d] = "ok")'
    <3>1. outcome[c] = "none"
      BY <2>4 DEF Send, IdInv
    <3>2. op[c] \in Requests
      BY <2>4 DEF Send
    <3>3. outcome'[c] = "none"
      BY <2>4, <3>1, <3>2 DEF Send
    <3> QED  BY <2>4, <3>3
  <2>5. ASSUME d = c, Validate(c) \/ Opened(c) \/ FoundClosed(c) \/ Register(c) \/ SendFailed(c)
                      \/ AwaitCancelled(c) \/ AwaitClosed(c) \/ Forget(c)
        PROVE  FALSE
    <3>1. callPc[c] # "idle"
      BY <2>5 DEF Validate, Opened, FoundClosed, Register, SendFailed, AwaitCancelled,
                  AwaitClosed, Forget
    <3>2. outcome[c] = "none"
      BY <3>1 DEF IdInv
    <3>3. outcome'[c] \in {"none", "refused", "closed", "failed"}
      BY <2>5, <3>2 DEF Validate, Opened, FoundClosed, Register, SendFailed, AwaitCancelled,
                        AwaitClosed, Forget, TypeOK
    <3> QED  BY <2>5, <3>3
  <2> QED  BY <1>1, <1>3, <2>1, <2>2, <2>3, <2>4, <2>5 DEF CallerStep
<1>4. CASE UNCHANGED callVars
  BY <1>1, <1>4 DEF callVars
<1> QED
  BY <1>1, <1>2, <1>3, <1>4, ReaderFrame, CloseFrame, ServerFrame DEF Next, vars

LEMMA PendingNext ==
    TypeOK /\ IdInv /\ ChanInv /\ PendingOwned /\ [Next]_vars => PendingOwned'
<1> SUFFICES ASSUME TypeOK, IdInv, ChanInv, PendingOwned, [Next]_vars, ~done', NEW i \in pending'
             PROVE  \E d \in Caller : id'[d] = i /\ callPc'[d] \in {"send", "await", "forget"}
  BY DEF PendingOwned
<1>1. ASSUME ~done, i \in pending,
             \A d \in Caller : id[d] = i /\ callPc[d] \in {"send", "await", "forget"} =>
                id'[d] = i /\ callPc'[d] \in {"send", "await", "forget"}
      PROVE  \E d \in Caller : id'[d] = i /\ callPc'[d] \in {"send", "await", "forget"}
  BY <1>1 DEF PendingOwned
<1>2. ASSUME NEW c \in Caller, NEW o \in Operation, Call(c, o)
      PROVE  \E d \in Caller : id'[d] = i /\ callPc'[d] \in {"send", "await", "forget"}
  BY <1>1, <1>2 DEF Call, At, Goto, TypeOK, clientVars, closeVars
<1>3. ASSUME NEW c \in Caller, CallerStep(c)
      PROVE  \E d \in Caller : id'[d] = i /\ callPc'[d] \in {"send", "await", "forget"}
  <2> USE DEF At, Goto, Return, TypeOK, clientVars, closeVars
  <2>0. ~done
    BY <1>3, CallerFrame
  <2>1. CASE Validate(c)        BY <1>1, <2>0, <2>1 DEF Validate
  <2>2. CASE Opened(c)          BY <1>1, <2>0, <2>2 DEF Opened
  <2>3. CASE FoundClosed(c)     BY <1>1, <2>0, <2>3 DEF FoundClosed
  <2>4. CASE Register(c)
    <3>1. CASE i = id[c]
      BY <2>4, <3>1 DEF Register
    <3>2. CASE i # id[c]
      BY <1>1, <2>0, <2>4, <3>2 DEF Register
    <3> QED  BY <3>1, <3>2
  <2>5. CASE Send(c)
    <3>1. i \in pending /\ i # 0
      BY <2>5 DEF Send, IdInv, Ids
    <3>2. id[c] = i => op[c] \in Requests
      BY <3>1 DEF IdInv
    <3>3. id[c] = i => callPc' = [callPc EXCEPT ![c] = "await"]
      BY <2>5, <3>2 DEF Send, Requests
    <3>4. \A d \in Caller : d # c => callPc'[d] = callPc[d]
      BY <2>5 DEF Send
    <3>5. id' = id
      BY <2>5 DEF Send
    <3> QED  BY <1>1, <2>0, <3>1, <3>3, <3>4, <3>5
  <2>6. CASE SendFailed(c)
    <3>1. i \in pending /\ i # 0
      BY <2>6 DEF SendFailed, IdInv, Ids
    <3>2. id[c] = i => op[c] \in Requests
      BY <3>1 DEF IdInv
    <3> QED  BY <1>1, <2>0, <2>6, <3>1, <3>2 DEF SendFailed
  <2>7. CASE AwaitCancelled(c)  BY <1>1, <2>0, <2>7 DEF AwaitCancelled
  <2>8. CASE AwaitClosed(c)
    <3>1. id[c] \in Ids
      BY <2>8 DEF AwaitClosed, IdInv, Ids
    <3> QED  BY <2>0, <2>8, <3>1 DEF AwaitClosed, ChanInv
  <2>9. CASE AwaitResponse(c)
    <3>1. i \in pending /\ i # id[c]
      BY <2>9 DEF AwaitResponse, ChanInv
    <3> QED  BY <1>1, <2>0, <2>9, <3>1 DEF AwaitResponse
  <2>10. CASE Forget(c)         BY <1>1, <2>0, <2>10 DEF Forget
  <2>11. CASE SetState(c)       BY <1>1, <2>0, <2>11 DEF SetState
  <2> QED
    BY <1>3, <2>1, <2>2, <2>3, <2>4, <2>5, <2>6, <2>7, <2>8, <2>9, <2>10, <2>11 DEF CallerStep
<1>4. CASE ReaderStep
  BY <1>1, <1>4, ReaderFrame DEF callVars
<1>5. ASSUME NEW p \in CloseProc, Close(p) \/ CloseStep(p)
      PROVE  \E d \in Caller : id'[d] = i /\ callPc'[d] \in {"send", "await", "forget"}
  <2>1. ~done
    BY <1>5 DEF Close, CloseStep, EnterOnce, SetClosed, CloseDone, Drain, CloseTransport, TypeOK
  <2> QED  BY <1>1, <1>5, <2>1, CloseFrame DEF callVars
<1>6. CASE ServerAnswer \/ ServerOther
  BY <1>1, <1>6, ServerFrame DEF clientVars, closeVars, callVars
<1>7. CASE UNCHANGED vars
  BY <1>1, <1>7 DEF vars, clientVars, closeVars, callVars
<1> QED  BY <1>2, <1>3, <1>4, <1>5, <1>6, <1>7 DEF Next

-----------------------------------------------------------------------------
(* The handshake.                                                          *)

LEMMA HandshakeStays ==
    ASSUME TypeOK, TypeOK', WireKept, OutputKept
    PROVE  (Initialized => Initialized') /\ (Readied => Readied')
<1>0. \A k \in 1 .. Len(wire) : k \in 1 .. Len(wire') /\ wire'[k] = wire[k]
  BY DEF TypeOK, WireKept
<1>1. \A i : AnsweredOk(i) => AnsweredOk(i)'
  BY AnswersStay
<1>2. ASSUME Initialized PROVE Initialized'
  <2>1. PICK k \in 1 .. Len(wire) : wire[k].op = "initialize" /\ AnsweredOk(wire[k].id)
    BY <1>2 DEF Initialized
  <2>2. AnsweredOk(wire[k].id)'
    <3>1. ASSUME NEW i, i = wire[k].id, AnsweredOk(i)' PROVE AnsweredOk(wire[k].id)'
      BY <1>0, <3>1 DEF AnsweredOk
    <3> QED  BY <1>1, <2>1, <3>1
  <2> QED  BY <1>0, <2>1, <2>2 DEF Initialized
<1>3. ASSUME Readied PROVE Readied'
  BY <1>0, <1>3 DEF Readied
<1> QED  BY <1>2, <1>3

\* The order of the messages already on the wire does not change.
LEMMA OrderStays ==
    ASSUME TypeOK, TypeOK', WireKept, OutputKept, HandshakeOrder, NEW k \in 1 .. Len(wire)
    PROVE  /\ wire'[k].op # "initialize" =>
                 \E j \in 1 .. k-1 : wire'[j].op = "initialize" /\ AnsweredOk(wire[j].id)'
           /\ wire'[k].op \notin {"initialize", "initialized"} =>
                 \E j \in 1 .. k-1 : wire'[j].op = "initialized"
<1>0. \A j \in 1 .. Len(wire) : wire'[j] = wire[j]
  BY DEF WireKept
<1>1. \A j \in 1 .. k-1 : j \in 1 .. Len(wire)
  BY DEF TypeOK
<1>2. \A i : AnsweredOk(i) => AnsweredOk(i)'
  BY AnswersStay
<1>3. ASSUME NEW j \in 1 .. k-1, AnsweredOk(wire[j].id) PROVE AnsweredOk(wire[j].id)'
  <2>1. ASSUME NEW i, i = wire[j].id, AnsweredOk(i)' PROVE AnsweredOk(wire[j].id)'
    BY <1>0, <1>1, <2>1 DEF AnsweredOk
  <2> QED  BY <1>2, <1>3, <2>1
<1> QED  BY <1>0, <1>1, <1>3 DEF HandshakeOrder

LEMMA HandshakeNext ==
    /\ TypeOK /\ TypeOK' /\ IdInv /\ ChanInv /\ HandshakeInv /\ [Next]_vars
    => HandshakeInv'
<1> SUFFICES ASSUME TypeOK, TypeOK', IdInv, ChanInv, HandshakeInv, [Next]_vars
             PROVE  HandshakeInv'
  OBVIOUS
<1>0. /\ WireKept /\ OutputKept
      /\ (Initialized => Initialized') /\ (Readied => Readied')
  BY WireGrows, OutputGrows, HandshakeStays
\* Without a send, the wire is in order if it was.
<1>1. ASSUME wire' = wire PROVE HandshakeOrder'
  BY <1>0, <1>1, OrderStays DEF HandshakeOrder, HandshakeInv
\* Steps that leave the calls, the state and the wire alone, or close it.
<1>2. ASSUME UNCHANGED <<callPc, op, id, wire>>, state' \in {state, "Closed"}
      PROVE  HandshakeInv'
  BY <1>0, <1>1, <1>2 DEF HandshakeInv
<1>3. ASSUME NEW c \in Caller, NEW o \in Operation, Call(c, o) PROVE HandshakeInv'
  <2>1. /\ UNCHANGED <<state, wire>>
        /\ callPc' = [callPc EXCEPT ![c] = "validate"] /\ op' = [op EXCEPT ![c] = o]
        /\ id' = [id EXCEPT ![c] = 0]
    BY <1>3 DEF Call, Goto, clientVars
  <2>2. \A d \in Caller : d # c => callPc'[d] = callPc[d] /\ op'[d] = op[d] /\ id'[d] = id[d]
    BY <2>1 DEF TypeOK
  <2>3. callPc'[c] = "validate"
    BY <2>1 DEF TypeOK
  <2> QED  BY <1>0, <1>1, <2>1, <2>2, <2>3 DEF HandshakeInv
<1>4. ASSUME NEW c \in Caller, CallerStep(c) PROVE HandshakeInv'
  <2> USE DEF At, Goto, Return
  <2>0. /\ op' = op
        /\ \A d \in Caller : d # c => callPc'[d] = callPc[d] /\ id'[d] = id[d]
    BY <1>4 DEF CallerStep, Validate, Opened, FoundClosed, Register, Send, SendFailed, TypeOK,
                AwaitCancelled, AwaitClosed, AwaitResponse, Forget, SetState
  \* It remains to look at c itself.
  <2>1. ASSUME wire' = wire, state' = state,
               callPc'[c] \in {"checkOpen", "register", "send", "setState"} =>
                  /\ op[c] # "initialize" => Initialized
                  /\ op[c] \notin {"initialize", "initialized"} => Readied,
               callPc'[c] = "await" => callPc[c] = "await" /\ id'[c] = id[c],
               callPc'[c] = "setState" =>
                  (op[c] = "initialize" => Initialized) /\ (op[c] = "initialized" => Readied)
        PROVE  HandshakeInv'
    BY <1>0, <1>1, <2>0, <2>1 DEF HandshakeInv
  <2>2. CASE Validate(c)
    BY <2>1, <2>2 DEF Validate, RequiredState, HandshakeInv, clientVars, TypeOK
  <2>3. CASE Opened(c)
    BY <2>1, <2>3 DEF Opened, HandshakeInv, TypeOK
  <2>4. CASE Register(c)
    BY <2>1, <2>4 DEF Register, HandshakeInv, TypeOK
  <2>5. CASE FoundClosed(c) \/ SendFailed(c) \/ AwaitCancelled(c) \/ AwaitClosed(c) \/ Forget(c)
    BY <2>1, <2>5 DEF FoundClosed, SendFailed, AwaitCancelled, AwaitClosed, Forget,
                      clientVars, TypeOK
  <2>6. CASE AwaitResponse(c)
    <3>1. callPc[c] = "await" /\ UNCHANGED <<wire, state, id>> /\ callPc'[c] \in {"setState", "idle"}
      BY <2>6 DEF AwaitResponse, TypeOK
    <3>2. ASSUME callPc'[c] = "setState" PROVE op[c] = "initialize" /\ Initialized
      <4>1. op[c] = "initialize" /\ chan[id[c]] = "ok"
        BY <2>6, <3>2 DEF AwaitResponse, TypeOK
      <4>2. FirstAnswer(id[c], TRUE)
        <5>1. id[c] \in Ids
          BY <3>1 DEF IdInv, Ids, TypeOK
        <5> QED  BY <4>1, <5>1 DEF ChanInv
      <4>3. AnsweredOk(id[c])
        BY <4>2 DEF FirstAnswer, AnsweredOk
      <4>4. PICK k \in 1 .. Len(wire) : wire[k].op = op[c] /\ wire[k].id = id[c]
        BY <3>1 DEF HandshakeInv
      <4> QED  BY <4>1, <4>3, <4>4 DEF Initialized
    <3> QED  BY <2>1, <3>1, <3>2
  <2>7. CASE SetState(c)
    <3>1. callPc[c] = "setState" /\ wire' = wire /\ callPc'[c] = "idle"
      BY <2>7 DEF SetState, TypeOK
    <3>2. state' = IF op[c] = "initialize" THEN "Initialized" ELSE "Ready"
      BY <2>7 DEF SetState
    <3>3. op[c] = "initialize" => Initialized
      BY <3>1 DEF HandshakeInv
    <3>4. op[c] # "initialize" => Initialized /\ Readied
      BY <3>1 DEF HandshakeInv, IdInv
    <3> QED  BY <1>0, <1>1, <2>0, <3>1, <3>2, <3>3, <3>4 DEF HandshakeInv
  <2>8. CASE Send(c)
    <3>0. /\ Len(wire) \in Nat /\ Len(wire') = Len(wire) + 1
          /\ wire'[Len(wire) + 1] = [op |-> op[c], id |-> id[c]]
          /\ \A k \in 1 .. Len(wire) : wire'[k] = wire[k]
      BY <2>8, SendShape
    <3>1. callPc[c] = "send" /\ UNCHANGED <<id, state, output, consumed>>
      BY <2>8 DEF Send, clientVars
    <3>2. /\ op[c] # "initialize" => Initialized
          /\ op[c] \notin {"initialize", "initialized"} => Readied
      BY <3>1 DEF HandshakeInv
    <3>3. HandshakeOrder'
      <4> SUFFICES ASSUME NEW k \in 1 .. Len(wire')
                   PROVE  /\ wire'[k].op # "initialize" =>
                               \E j \in 1 .. k-1 : wire'[j].op = "initialize" /\ AnsweredOk(wire[j].id)'
                          /\ wire'[k].op \notin {"initialize", "initialized"} =>
                               \E j \in 1 .. k-1 : wire'[j].op = "initialized"
        BY DEF HandshakeOrder
      <4>1. CASE k # Len(wire) + 1
        <5>1. k \in 1 .. Len(wire)
          BY <3>0, <4>1
        <5>2. HandshakeOrder
          BY DEF HandshakeInv
        <5> QED  BY <1>0, <5>1, <5>2, OrderStays
      <4>2. CASE k = Len(wire) + 1
        <5>1. wire'[k].op = op[c] /\ \A j \in 1 .. Len(wire) : j \in 1 .. k-1
          BY <3>0, <4>2
        <5>2. ASSUME op[c] # "initialize"
              PROVE  \E j \in 1 .. k-1 : wire'[j].op = "initialize" /\ AnsweredOk(wire[j].id)'
          <6>1. PICK j \in 1 .. Len(wire) : wire[j].op = "initialize" /\ AnsweredOk(wire[j].id)
            BY <3>2, <5>2 DEF Initialized
          <6>2. AnsweredOk(wire[j].id)'
            BY <3>0, <3>1, <6>1 DEF AnsweredOk
          <6> QED  BY <3>0, <5>1, <6>1, <6>2
        <5>3. ASSUME op[c] \notin {"initialize", "initialized"}
              PROVE  \E j \in 1 .. k-1 : wire'[j].op = "initialized"
          BY <3>0, <3>2, <5>1, <5>3 DEF Readied
        <5> QED  BY <5>1, <5>2, <5>3
      <4> QED  BY <4>1, <4>2
    <3>4. /\ callPc'[c] \in {"await", "setState", "idle"}
          /\ callPc'[c] = "await" => op[c] \in Requests
          /\ callPc'[c] = "setState" => op[c] = "initialized"
      BY <2>8 DEF Send, Requests, TypeOK
    <3>5. op[c] = "initialized" => Readied'
      BY <3>0 DEF Readied
    <3>6. \E k \in 1 .. Len(wire') : wire'[k].op = op[c] /\ wire'[k].id = id[c]
      BY <3>0
    <3>7. (\A d \in Caller : callPc[d] = "await" =>
              \E k \in 1 .. Len(wire) : wire[k].op = op[d] /\ wire[k].id = id[d])'
      <4> SUFFICES ASSUME NEW d \in Caller, callPc'[d] = "await"
                   PROVE  \E k \in 1 .. Len(wire') : wire'[k].op = op'[d] /\ wire'[k].id = id'[d]
        OBVIOUS
      <4>1. CASE d = c
        BY <2>0, <3>1, <3>6, <4>1
      <4>2. CASE d # c
        <5>1. PICK k \in 1 .. Len(wire) : wire[k].op = op[d] /\ wire[k].id = id[d]
          BY <2>0, <4>2 DEF HandshakeInv
        <5>2. k \in 1 .. Len(wire')
          BY <3>0
        <5> QED  BY <2>0, <3>0, <3>1, <5>1, <5>2
      <4> QED  BY <4>1, <4>2
    <3>8. (\A d \in Caller :
             /\ callPc[d] \in {"checkOpen", "register", "send", "setState"} =>
                  /\ op[d] # "initialize" => Initialized
                  /\ op[d] \notin {"initialize", "initialized"} => Readied
             /\ callPc[d] = "setState" /\ op[d] = "initialize" => Initialized
             /\ callPc[d] = "setState" /\ op[d] = "initialized" => Readied)'
      BY <1>0, <2>0, <3>1, <3>2, <3>4, <3>5 DEF HandshakeInv
    <3>9. (state \in {"Initialized", "Ready"} => Initialized)' /\ (state = "Ready" => Readied)'
      BY <1>0, <3>1 DEF HandshakeInv
    <3> QED  BY <3>3, <3>7, <3>8, <3>9 DEF HandshakeInv
  <2> QED
    BY <1>4, <2>2, <2>3, <2>4, <2>5, <2>6, <2>7, <2>8 DEF CallerStep
<1>5. CASE ReaderStep
  BY <1>2, <1>5, ReaderFrame DEF callVars
<1>6. ASSUME NEW p \in CloseProc, Close(p) \/ CloseStep(p) PROVE HandshakeInv'
  <2>1. state' \in {state, "Closed"}
    BY <1>6 DEF Close, CloseStep, EnterOnce, SetClosed, CloseDone, Drain, CloseTransport, clientVars
  <2> QED  BY <1>2, <1>6, <2>1, CloseFrame DEF callVars
<1>7. CASE ServerAnswer \/ ServerOther
  BY <1>2, <1>7, ServerFrame DEF clientVars, callVars
<1>8. CASE UNCHANGED vars
  BY <1>2, <1>8 DEF vars, clientVars, callVars
<1> QED  BY <1>3, <1>4, <1>5, <1>6, <1>7, <1>8 DEF Next

-----------------------------------------------------------------------------
(* The theorems.                                                           *)

LEMMA InvInit == Init => IInv
<1> SUFFICES ASSUME Init PROVE IInv
  OBVIOUS
<1>1. TypeOK
  BY TypeInit
<1>2. IdInv
  BY DEF Init, IdInv, Requests
<1>7. CloseInv
  BY DEF Init, CloseInv, Body, CloseProc
<1>3. WireInv
  BY DEF Init, WireInv, Sending
<1>4. ChanInv
  BY DEF Init, ChanInv, Ids
<1>5. HandshakeInv
  BY DEF Init, HandshakeInv, HandshakeOrder
<1>6. FirstAnswerWins /\ PendingOwned
  BY DEF Init, FirstAnswerWins, PendingOwned
<1> QED  BY <1>1, <1>2, <1>3, <1>4, <1>5, <1>6, <1>7 DEF IInv

LEMMA InvNext == IInv /\ [Next]_vars => IInv'
BY TypeNext, IdNext, CloseNext, WireNext, ChanNext, AnswerNext, PendingNext, HandshakeNext DEF IInv

LEMMA Invariance == Spec => []IInv
BY InvInit, InvNext, PTL DEF Spec

\* Every variable keeps its type.
THEOREM TypeCorrect == Spec => []TypeOK
BY Invariance, PTL DEF IInv

\* The order of the handshake on the wire (Request, Notify, Respond) holds for
\* any callers, however they interleave with each other, with timeouts, with
\* the read loop and with Close.
THEOREM HandshakeOrderHolds == Spec => []HandshakeOrder
<1>1. IInv => HandshakeOrder
  BY DEF IInv, HandshakeInv
<1> QED  BY <1>1, Invariance, PTL

\* dispatchResponse sends, outside pendingMu, on a channel Close has not closed
\* and that has room: the read loop neither panics nor blocks.
THEOREM DeliveryIsSafe == Spec => []SafeDelivery
<1>1. IInv => SafeDelivery
  BY DEF IInv, ChanInv, SafeDelivery
<1> QED  BY <1>1, Invariance, PTL

\* Concurrent calls to Close close `done' once and no channel twice.
THEOREM CloseIsSafe == Spec => []SafeClose
<1>1. IInv => SafeClose
  <2> SUFFICES ASSUME IInv, NEW p \in CloseProc
               PROVE  /\ closePc[p] = "closeDone" => ~done
                      /\ closePc[p] = "drain" => \A i \in pending : chan[i] = "empty"
    BY DEF SafeClose
  <2>1. ASSUME closePc[p] = "closeDone" PROVE ~done
    BY <2>1 DEF IInv, CloseInv, Body
  <2>2. \A i \in pending : chan[i] = "empty"
    BY DEF IInv, ChanInv
  <2> QED  BY <2>1, <2>2
<1> QED  BY <1>1, Invariance, PTL

\* Until Close, a pending entry belongs to a call in progress.
THEOREM PendingIsOwned == Spec => []PendingOwned
BY Invariance, PTL DEF IInv

\* A request returns the first answer given to its own id.
THEOREM AnswersAreRouted == Spec => []FirstAnswerWins
BY Invariance, PTL DEF IInv

-----------------------------------------------------------------------------
(* The refinement: every behaviour of RpcClient is one of RpcCall.  The    *)
(* proof rests on the inductive invariant and takes the steps of the       *)
(* client one by one.                                                      *)

-----------------------------------------------------------------------------
(* The client is closed, in any of the ways a call can see, only after     *)
(* Close was called.                                                       *)

Closing   == once # "fresh"
ClosedInv == state = "Closed" => Closing

LEMMA ClosedNext == CloseInv /\ ClosedInv /\ [Next]_vars => ClosedInv'
<1> SUFFICES ASSUME CloseInv, ClosedInv, [Next]_vars PROVE ClosedInv'
  OBVIOUS
<1> USE DEF ClosedInv, Closing
<1>1. ASSUME NEW c \in Caller, (\E o \in Operation : Call(c, o)) \/ CallerStep(c) PROVE ClosedInv'
  <2>1. once' = once
    BY <1>1, CallerFrame DEF closeVars
  <2>2. state' = state \/ state' \in {"Initialized", "Ready"}
    BY <1>1 DEF Call, CallerStep, Validate, Opened, FoundClosed, Register, Send, SendFailed,
                AwaitCancelled, AwaitClosed, AwaitResponse, Forget, SetState, clientVars
  <2> QED  BY <2>1, <2>2
<1>2. CASE ReaderStep
  BY <1>2, ReaderFrame
<1>3. ASSUME NEW p \in CloseProc, Close(p) \/ CloseStep(p) PROVE ClosedInv'
  <2>1. once' = once \/ once' \in {"running", "finished"}
    BY <1>3 DEF Close, CloseStep, EnterOnce, SetClosed, CloseDone, Drain, CloseTransport
  <2>2. CASE SetClosed(p)
    <3>1. once = "running" /\ once' = once
      BY <2>2 DEF SetClosed, CloseInv, Body
    <3> QED  BY <3>1
  <2>3. CASE ~SetClosed(p)
    <3>1. state' = state
      BY <1>3, <2>3 DEF Close, CloseStep, EnterOnce, CloseDone, Drain, CloseTransport, clientVars
    <3> QED  BY <2>1, <3>1
  <2> QED  BY <2>2, <2>3
<1>4. CASE ServerAnswer \/ ServerOther
  BY <1>4, ServerFrame DEF clientVars, closeVars
<1>5. CASE UNCHANGED vars
  BY <1>5 DEF vars, clientVars, closeVars
<1> QED  BY <1>1, <1>2, <1>3, <1>4, <1>5 DEF Next

LEMMA DoneIsClosing == ASSUME IInv, done PROVE Closing
BY DEF IInv, CloseInv, Body, Closing

-----------------------------------------------------------------------------
(* The abstract variables, and the steps that leave them alone.            *)

LEMMA SentKept ==
    ASSUME wire' = wire
    PROVE  SentIds' = SentIds
BY DEF SentIds

LEMMA AnswersKept ==
    ASSUME TypeOK, consumed' = consumed, \A k \in 1 .. Len(output) : output'[k] = output[k]
    PROVE  FirstAnswers' = FirstAnswers
<1>0. consumed \in Nat
  BY DEF TypeOK
<1>1. \A k \in 1 .. consumed : output'[k] = output[k]
  BY DEF TypeOK
<1>2. \A k \in 1 .. consumed : IsFirst(k)' = IsFirst(k) /\ Verdict(k)' = Verdict(k)
  <2> TAKE k \in 1 .. consumed
  <2>1. output'[k] = output[k] /\ \A j \in 1 .. k-1 : output'[j] = output[j]
    BY <1>0, <1>1
  <2> QED  BY <2>1 DEF IsFirst, Verdict, Answers
<1> QED  BY <1>1, <1>2 DEF FirstAnswers

\* A step inside a call is invisible unless it draws an id, sends or returns.
LEMMA PhasesKept ==
    ASSUME NEW c \in Caller, NEW l, TypeOK, Goto(c, l), op' = op, l # "idle", ~At(c, "idle")
    PROVE  Phases' = Phases
<1>1. \A d \in Caller : Phase(d)' = Phase(d)
  BY DEF Goto, At, Phase, TypeOK
<1> QED  BY <1>1 DEF Phases

LEMMA PhaseEnds ==
    ASSUME NEW c \in Caller, NEW r, TypeOK, Return(c, r), op' = op
    PROVE  /\ Phases' = [Phases EXCEPT ![c] = "idle"]
           /\ outcome' = [outcome EXCEPT ![c] = r]
<1>1. callPc' = [callPc EXCEPT ![c] = "idle"] /\ callPc \in [Caller -> CallLocation]
  BY DEF Return, Goto, TypeOK
<1>2. Phase(c)' = "idle"
  BY <1>1 DEF Phase
<1>3. ASSUME NEW d \in Caller, d # c PROVE Phase(d)' = Phase(d)
  BY <1>1, <1>3 DEF Phase
<1> QED  BY <1>2, <1>3 DEF Phases, Return

\* FirstAnswer, in the terms of the mapping.
LEMMA FirstAnswerMapped ==
    ASSUME NEW i, NEW b \in BOOLEAN, FirstAnswer(i, b)
    PROVE  <<i, IF b THEN "ok" ELSE "error">> \in FirstAnswers
<1>1. PICK k \in 1 .. consumed : /\ Answers(output[k], i) /\ output[k].ok = b
                                 /\ \A j \in 1 .. k-1 : ~Answers(output[j], i)
  BY DEF FirstAnswer
<1>2. output[k].id = i /\ output[k].kind = "response"
  BY <1>1 DEF Answers
<1>3. IsFirst(k)
  BY <1>1, <1>2 DEF IsFirst, Answers
<1>4. Verdict(k) = IF b THEN "ok" ELSE "error"
  BY <1>1, Zenon DEF Verdict
<1>5. k \in {n \in 1 .. consumed : IsFirst(n)}
  BY <1>3
<1>6. <<i, IF b THEN "ok" ELSE "error">> = <<output[k].id, Verdict(k)>>
  BY <1>2, <1>4
<1> QED  BY <1>5, <1>6 DEF FirstAnswers

\* What of the mapping no step of a caller touches but Call, Opened and Send.
Hidden == UNCHANGED <<nextID, id, SentIds, FirstAnswers, once>>

LEMMA CallerHides ==
    ASSUME TypeOK, NEW c \in Caller, CallerStep(c), ~Opened(c), ~Send(c)
    PROVE  Hidden /\ op' = op
<1>1. UNCHANGED <<nextID, id, op, wire>>
  BY DEF CallerStep, Validate, FoundClosed, Register, SendFailed, AwaitCancelled, AwaitClosed,
         AwaitResponse, Forget, SetState, clientVars
<1>2. UNCHANGED <<output, consumed, once>>
  BY CallerFrame DEF closeVars
<1> QED  BY <1>1, <1>2, SentKept, AnswersKept DEF Hidden

\* A return the abstract specification allows is one of its steps.
LEMMA Returns ==
    ASSUME TypeOK, NEW c \in Caller, NEW r \in {"ok", "error", "refused", "closed", "failed"},
           ~At(c, "idle"), Return(c, r), Hidden, op' = op, Promise!Deserves(c, r)
    PROVE  Promise!CallNext
<1>1. Phases[c] # "idle"
  BY DEF Phases, Phase, At
<1>2. Promise!Return(c, r)
  BY <1>1, PhaseEnds DEF Promise!Return, Hidden
<1> QED  BY <1>2 DEF Promise!CallNext, Promise!Endings

LEMMA Stutters ==
    ASSUME TypeOK, NEW c \in Caller, NEW l, ~At(c, "idle"), Goto(c, l), l # "idle",
           outcome' = outcome, Hidden, op' = op
    PROVE  UNCHANGED Promise!callVars
BY PhasesKept DEF Promise!callVars, Hidden

-----------------------------------------------------------------------------
(* The steps of a caller.                                                  *)

LEMMA CallImplements ==
    ASSUME TypeOK, NEW c \in Caller, NEW o \in Operation, Call(c, o)
    PROVE  Promise!CallNext
<1> DEFINE kind == IF o \in Requests THEN "request" ELSE "notification"
<1>1. UNCHANGED <<nextID, SentIds, FirstAnswers, once>>
  BY SentKept, AnswersKept DEF Call, clientVars, closeVars
<1>2. Phases[c] = "idle" /\ Phases' = [Phases EXCEPT ![c] = kind]
  <2>1. At(c, "idle") /\ callPc' = [callPc EXCEPT ![c] = "validate"] /\ op' = [op EXCEPT ![c] = o]
    BY DEF Call, Goto
  <2>2. callPc \in [Caller -> CallLocation] /\ op \in [Caller -> Operation]
    BY DEF TypeOK
  <2>3. Phase(c) = "idle" /\ Phase(c)' = kind
    BY <2>1, <2>2 DEF Phase, At
  <2>4. ASSUME NEW d \in Caller, d # c PROVE Phase(d)' = Phase(d)
    BY <2>1, <2>2, <2>4 DEF Phase
  <2> QED  BY <2>3, <2>4 DEF Phases
<1>3. id' = [id EXCEPT ![c] = 0] /\ outcome' = [outcome EXCEPT ![c] = "none"]
  BY DEF Call
<1>4. Promise!Begin(c, kind)
  BY <1>1, <1>2, <1>3 DEF Promise!Begin
<1> QED  BY <1>4 DEF Promise!CallNext

LEMMA OpenedImplements ==
    ASSUME IInv, NEW c \in Caller, Opened(c)
    PROVE  Promise!CallNext \/ UNCHANGED Promise!callVars
<1>0. TypeOK /\ ~At(c, "idle") /\ id[c] = 0
  BY DEF Opened, At, IInv, IdInv
<1>1. UNCHANGED <<SentIds, FirstAnswers, once, outcome, op>>
  BY <1>0, SentKept, AnswersKept DEF Opened, closeVars
<1>2. CASE op[c] \in Requests
  <2>1. Phases' = Phases
    BY <1>0, <1>1, <1>2, PhasesKept DEF Opened
  <2>2. Phases[c] = "request"
    BY <1>0, <1>2 DEF Phases, Phase, At
  <2>3. nextID' = nextID + 1 /\ id' = [id EXCEPT ![c] = nextID + 1]
    BY <1>2 DEF Opened, NewID
  <2>4. Promise!Issue(c)
    BY <1>0, <1>1, <2>1, <2>2, <2>3 DEF Promise!Issue
  <2> QED  BY <2>4 DEF Promise!CallNext
<1>3. CASE op[c] \notin Requests
  <2>1. Goto(c, "send") /\ UNCHANGED <<nextID, id>>
    BY <1>3 DEF Opened
  <2> QED  BY <1>0, <1>1, <2>1, Stutters DEF Hidden
<1> QED  BY <1>2, <1>3

LEMMA SendImplements ==
    ASSUME IInv, NEW c \in Caller, Send(c)
    PROVE  Promise!CallNext \/ UNCHANGED Promise!callVars
<1>0. TypeOK /\ ~At(c, "idle") /\ At(c, "send")
  BY DEF Send, At, IInv
<1>1. UNCHANGED <<nextID, id, FirstAnswers, once, op>>
  BY <1>0, AnswersKept DEF Send, clientVars, closeVars
<1>2. /\ Len(wire) \in Nat /\ Len(wire') = Len(wire) + 1
      /\ wire'[Len(wire) + 1] = [op |-> op[c], id |-> id[c]]
      /\ \A k \in 1 .. Len(wire) : wire'[k] = wire[k]
  BY <1>0, SendShape
<1>3. CASE op[c] \in Requests
  <2>1. Phases' = Phases /\ outcome' = outcome
    BY <1>0, <1>1, <1>3, PhasesKept DEF Send
  <2>2. Phases[c] = "request" /\ id[c] # 0
    BY <1>0, <1>3 DEF Phases, Phase, At, IInv, IdInv
  <2>3. id[c] \notin SentIds
    <3>1. ~OnWire(id[c])
      BY <1>0, <1>3 DEF IInv, WireInv, Sending, At
    <3> QED  BY <3>1 DEF OnWire, SentIds
  <2>4. SentIds' = SentIds \cup {id[c]}
    <3>1. ASSUME NEW i \in SentIds' PROVE i \in SentIds \cup {id[c]}
      <4>1. PICK k \in 1 .. Len(wire') : wire'[k].op \in Requests /\ wire'[k].id = i
        BY <3>1 DEF SentIds
      <4> QED  BY <1>2, <4>1 DEF SentIds
    <3>2. ASSUME NEW i \in SentIds PROVE i \in SentIds'
      <4>1. PICK k \in 1 .. Len(wire) : wire[k].op \in Requests /\ wire[k].id = i
        BY <3>2 DEF SentIds
      <4>2. k \in 1 .. Len(wire') /\ wire'[k] = wire[k]
        BY <1>2
      <4> QED  BY <4>1, <4>2 DEF SentIds
    <3>3. id[c] \in SentIds'
      <4>1. Len(wire) + 1 \in {k \in 1 .. Len(wire') : wire'[k].op \in Requests}
        BY <1>2, <1>3
      <4> QED  BY <1>2, <4>1 DEF SentIds
    <3> QED  BY <3>1, <3>2, <3>3
  <2>5. Promise!Transmit(c)
    BY <1>1, <2>1, <2>2, <2>3, <2>4 DEF Promise!Transmit
  <2> QED  BY <2>5 DEF Promise!CallNext
<1>4. CASE op[c] \notin Requests
  <2>1. SentIds' = SentIds
    <3>1. ASSUME NEW i PROVE i \in SentIds <=> i \in SentIds'
      <4>1. ASSUME i \in SentIds PROVE i \in SentIds'
        <5>1. PICK k \in 1 .. Len(wire) : wire[k].op \in Requests /\ wire[k].id = i
          BY <4>1 DEF SentIds
        <5>2. k \in 1 .. Len(wire') /\ wire'[k] = wire[k]
          BY <1>2
        <5> QED  BY <5>1, <5>2 DEF SentIds
      <4>2. ASSUME i \in SentIds' PROVE i \in SentIds
        <5>1. PICK k \in 1 .. Len(wire') : wire'[k].op \in Requests /\ wire'[k].id = i
          BY <4>2 DEF SentIds
        <5>2. k # Len(wire) + 1
          BY <1>2, <1>4, <5>1
        <5>3. k \in 1 .. Len(wire) /\ wire'[k] = wire[k]
          BY <1>2, <5>2
        <5> QED  BY <5>1, <5>3 DEF SentIds
      <4> QED  BY <4>1, <4>2
    <3> QED  BY <3>1
  <2>2. Hidden
    BY <1>1, <2>1 DEF Hidden
  <2>3. CASE op[c] = "initialized"
    <3>1. Goto(c, "setState") /\ UNCHANGED outcome
      BY <1>4, <2>3 DEF Send
    <3> QED  BY <1>0, <1>1, <2>2, <3>1, Stutters
  <2>4. CASE op[c] # "initialized"
    <3>1. Return(c, "ok")
      BY <1>4, <2>4 DEF Send
    <3>2. Promise!Deserves(c, "ok")
      BY <1>0, <1>4 DEF Promise!Deserves, Phases, Phase, At
    <3> QED  BY <1>0, <1>1, <2>2, <3>1, <3>2, Returns
  <2> QED  BY <2>3, <2>4
<1> QED  BY <1>3, <1>4

LEMMA AwaitImplements ==
    ASSUME IInv, ClosedInv, NEW c \in Caller, AwaitClosed(c) \/ AwaitResponse(c)
    PROVE  Promise!CallNext \/ UNCHANGED Promise!callVars
<1>0. TypeOK /\ ~At(c, "idle") /\ At(c, "await") /\ op[c] \in Requests
  BY DEF AwaitClosed, AwaitResponse, At, IInv, IdInv
<1>1. Hidden /\ op' = op
  BY <1>0, CallerHides DEF CallerStep, AwaitClosed, AwaitResponse, At, Opened, Send
<1>2. id[c] \in Ids
  BY <1>0 DEF IInv, IdInv, TypeOK, At, Ids
<1>3. CASE AwaitClosed(c)
  <2>1. done
    BY <1>2, <1>3 DEF AwaitClosed, IInv, ChanInv
  <2>2. Promise!Deserves(c, "closed")
    BY <2>1, DoneIsClosing DEF Promise!Deserves, Closing
  <2> QED  BY <1>0, <1>1, <1>3, <2>2, Returns DEF AwaitClosed
<1>4. CASE AwaitResponse(c)
  <2>1. CASE Goto(c, "setState") /\ UNCHANGED outcome
    BY <1>0, <1>1, <2>1, Stutters
  <2>2. CASE Return(c, "ok") /\ chan[id[c]] = "ok"
    <3>1. <<id[c], "ok">> \in FirstAnswers
      BY <1>2, <2>2, FirstAnswerMapped DEF IInv, ChanInv
    <3>2. Promise!Deserves(c, "ok")
      BY <3>1 DEF Promise!Deserves
    <3> QED  BY <1>0, <1>1, <2>2, <3>2, Returns
  <2>3. CASE Return(c, "error") /\ chan[id[c]] = "error"
    <3>1. <<id[c], "error">> \in FirstAnswers
      BY <1>2, <2>3, FirstAnswerMapped DEF IInv, ChanInv
    <3>2. Promise!Deserves(c, "error")
      BY <3>1 DEF Promise!Deserves
    <3> QED  BY <1>0, <1>1, <2>3, <3>2, Returns
  <2> QED  BY <1>4, <2>1, <2>2, <2>3 DEF AwaitResponse
<1> QED  BY <1>3, <1>4

LEMMA CallerImplements ==
    ASSUME IInv, ClosedInv, NEW c \in Caller, CallerStep(c)
    PROVE  Promise!CallNext \/ UNCHANGED Promise!callVars
<1>1. CASE Opened(c)
  BY <1>1, OpenedImplements
<1>2. CASE Send(c)
  BY <1>2, SendImplements
<1>3. CASE AwaitClosed(c) \/ AwaitResponse(c)
  BY <1>3, AwaitImplements
<1>4. CASE ~Opened(c) /\ ~Send(c)
  <2>1. TypeOK /\ Hidden /\ op' = op
    BY <1>4, CallerHides DEF IInv
  <2>2. CASE Validate(c)
    <3>1. ~At(c, "idle") /\ At(c, "validate")
      BY <2>2 DEF Validate, At
    <3>2. CASE Return(c, "refused")
      <4>1. Promise!Deserves(c, "refused")
        BY <3>1 DEF Promise!Deserves, IInv, IdInv, At
      <4> QED  BY <2>1, <3>1, <3>2, <4>1, Returns
    <3>3. CASE Goto(c, "checkOpen") /\ UNCHANGED outcome
      BY <2>1, <3>1, <3>3, Stutters
    <3> QED  BY <2>2, <3>2, <3>3 DEF Validate
  <2>3. CASE FoundClosed(c)
    <3>1. ~At(c, "idle") /\ Return(c, "closed") /\ state = "Closed"
      BY <2>3 DEF FoundClosed, At
    <3>2. Promise!Deserves(c, "closed")
      BY <3>1 DEF Promise!Deserves, ClosedInv, Closing
    <3> QED  BY <2>1, <3>1, <3>2, Returns
  <2>4. CASE Register(c) \/ AwaitCancelled(c)
    <3>1. ~At(c, "idle") /\ UNCHANGED outcome /\ (Goto(c, "send") \/ Goto(c, "forget"))
      BY <2>4 DEF Register, AwaitCancelled, At
    <3> QED  BY <2>1, <3>1, Stutters
  <2>5. CASE SendFailed(c) \/ Forget(c)
    <3>1. ~At(c, "idle")
      BY <2>5 DEF SendFailed, Forget, At
    <3>2. Promise!Deserves(c, "failed")
      BY DEF Promise!Deserves
    <3>3. CASE Return(c, "failed")
      BY <2>1, <3>1, <3>2, <3>3, Returns
    <3>4. CASE Goto(c, "forget") /\ UNCHANGED outcome
      BY <2>1, <3>1, <3>4, Stutters
    <3> QED  BY <2>5, <3>3, <3>4 DEF SendFailed, Forget
  <2>6. CASE SetState(c)
    <3>1. ~At(c, "idle") /\ At(c, "setState") /\ Return(c, "ok")
      BY <2>6 DEF SetState, At
    <3>2. Promise!Deserves(c, "ok")
      <4>1. CASE op[c] = "initialize"
        <5>1. FirstAnswer(id[c], TRUE)
          BY <3>1, <4>1 DEF IInv, ChanInv, At
        <5>2. <<id[c], "ok">> \in FirstAnswers
          BY <5>1, FirstAnswerMapped
        <5> QED  BY <5>2 DEF Promise!Deserves
      <4>2. CASE op[c] = "initialized"
        <5>1. Phases[c] = "notification"
          BY <3>1, <4>2 DEF Phases, Phase, At, Requests
        <5> QED  BY <5>1 DEF Promise!Deserves
      <4> QED  BY <3>1, <4>1, <4>2 DEF IInv, IdInv, At
    <3> QED  BY <2>1, <3>1, <3>2, Returns
  <2> QED  BY <1>3, <1>4, <2>2, <2>3, <2>4, <2>5, <2>6 DEF CallerStep
<1> QED  BY <1>1, <1>2, <1>4

-----------------------------------------------------------------------------
(* The read loop, Close and the server.                                    *)

LEMMA ReaderImplements ==
    ASSUME IInv, ReaderStep
    PROVE  Promise!CallNext \/ UNCHANGED Promise!callVars
<1>0. TypeOK
  BY DEF IInv
<1>1. UNCHANGED <<Phases, id, outcome, nextID, SentIds, once>> /\ output' = output
  BY ReaderFrame, SentKept DEF callVars, Phases, Phase
<1>2. CASE consumed' = consumed
  <2>1. FirstAnswers' = FirstAnswers
    BY <1>0, <1>1, <1>2, AnswersKept
  <2> QED  BY <1>1, <2>1 DEF Promise!callVars
<1>3. CASE consumed' # consumed
  <2> DEFINE n == consumed + 1
  <2>1. consumed' = n /\ n \in 1 .. Len(output) /\ consumed \in Nat
    BY <1>0, <1>3 DEF ReaderStep, LoopTop, Recv, RecvError, Lookup, Deliver, TypeOK
  <2>2. \A k \in 1 .. n : IsFirst(k)' = IsFirst(k) /\ Verdict(k)' = Verdict(k)
    BY <1>1 DEF IsFirst, Verdict
  <2>3. FirstAnswers' = {<<output[k].id, Verdict(k)>> : k \in {k \in 1 .. n : IsFirst(k)}}
    BY <1>1, <2>1, <2>2 DEF FirstAnswers
  <2>4. CASE ~IsFirst(n)
    <3>1. {k \in 1 .. n : IsFirst(k)} = {k \in 1 .. consumed : IsFirst(k)}
      BY <2>1, <2>4
    <3>2. FirstAnswers' = FirstAnswers
      BY <2>3, <3>1 DEF FirstAnswers
    <3> QED  BY <1>1, <3>2 DEF Promise!callVars
  <2>5. CASE IsFirst(n)
    <3> DEFINE i == output[n].id
               v == Verdict(n)
    <3>1. {k \in 1 .. n : IsFirst(k)} = {k \in 1 .. consumed : IsFirst(k)} \cup {n}
      BY <2>1, <2>5
    <3>2. FirstAnswers' = FirstAnswers \cup {<<i, v>>}
      BY <2>3, <3>1 DEF FirstAnswers
    <3>3. i \in SentIds
      <4>1. OnWire(i)
        BY <2>1, <2>5 DEF IsFirst, IInv, WireInv
      <4> QED  BY <4>1 DEF OnWire, SentIds
    <3>4. \A a \in FirstAnswers : a[1] # i
      <4>1. SUFFICES ASSUME NEW k \in 1 .. consumed, IsFirst(k), output[k].id = i PROVE FALSE
        BY DEF FirstAnswers
      <4>2. Answers(output[k], i) /\ k \in 1 .. n-1
        BY <2>1, <4>1 DEF IsFirst, Answers
      <4> QED  BY <2>5, <4>2 DEF IsFirst
    <3>5. v \in {"ok", "error"}
      BY DEF Verdict
    <3>6. Promise!Answer(i, v)
      BY <1>1, <3>2, <3>3, <3>4 DEF Promise!Answer
    <3> QED  BY <3>3, <3>5, <3>6 DEF Promise!CallNext
  <2> QED  BY <2>4, <2>5
<1> QED  BY <1>2, <1>3

LEMMA CloseImplements ==
    ASSUME IInv, NEW p \in CloseProc, Close(p) \/ CloseStep(p)
    PROVE  Promise!CallNext \/ UNCHANGED Promise!callVars
<1>1. UNCHANGED <<Phases, id, outcome, nextID, SentIds, FirstAnswers>>
  BY CloseFrame, SentKept, AnswersKept DEF callVars, Phases, Phase, IInv
<1>2. CASE Closing' = Closing
  BY <1>1, <1>2 DEF Promise!callVars, Closing
<1>3. CASE Closing' # Closing
  <2>1. Closing'
    <3>1. once' = once \/ once' \in {"running", "finished"}
      BY DEF Close, CloseStep, EnterOnce, SetClosed, CloseDone, Drain, CloseTransport
    <3> QED  BY <1>3, <3>1 DEF Closing
  <2>2. Promise!CloseClient
    BY <1>1, <2>1 DEF Promise!CloseClient, Closing
  <2> QED  BY <2>2 DEF Promise!CallNext
<1> QED  BY <1>2, <1>3

LEMMA ServerImplements ==
    ASSUME TypeOK, ServerAnswer \/ ServerOther
    PROVE  UNCHANGED Promise!callVars
<1>1. \A k \in 1 .. Len(output) : output'[k] = output[k]
  BY ServerShape DEF ServerAnswer, ServerOther
<1>2. FirstAnswers' = FirstAnswers
  BY <1>1, ServerFrame, AnswersKept
<1> QED  BY <1>2, ServerFrame, SentKept
            DEF Promise!callVars, clientVars, closeVars, callVars, Phases, Phase

-----------------------------------------------------------------------------
LEMMA InitImplements == Init => Promise!CallInit
<1> SUFFICES ASSUME Init PROVE Promise!CallInit
  OBVIOUS
<1>1. SentIds = {} /\ FirstAnswers = {}
  BY DEF Init, SentIds, FirstAnswers
<1>2. Phases = [c \in Caller |-> "idle"]
  BY DEF Init, Phases, Phase
<1> QED  BY <1>1, <1>2 DEF Init, Promise!CallInit

LEMMA NextImplements ==
    IInv /\ ClosedInv /\ [Next]_vars => [Promise!CallNext]_(Promise!callVars)
<1> SUFFICES ASSUME IInv, ClosedInv, [Next]_vars
             PROVE  Promise!CallNext \/ UNCHANGED Promise!callVars
  OBVIOUS
<1>0. TypeOK
  BY DEF IInv
<1>1. CASE UNCHANGED vars
  BY <1>1 DEF vars, clientVars, closeVars, callVars, Promise!callVars,
              Phases, Phase, SentIds, FirstAnswers, IsFirst, Verdict
<1> QED
  BY <1>0, <1>1, CallImplements, CallerImplements, ReaderImplements, CloseImplements,
     ServerImplements DEF Next

\* The client keeps the promise of RpcCall: whatever the callers, the read loop,
\* Close and the server do between them, ids are used once, a request is sent at
\* most once and returns the first answer to its own id, or tells why it has none.
THEOREM ClientImplementsCall == Spec => ImplementsRpcCall
<1>1. Init => ClosedInv
  BY DEF Init, ClosedInv
<1>2. IInv /\ ClosedInv /\ [Next]_vars => ClosedInv'
  BY ClosedNext DEF IInv
<1>3. Spec => [](IInv /\ ClosedInv)
  BY <1>1, <1>2, InvInit, InvNext, PTL DEF Spec
<1> QED
  BY <1>3, InitImplements, NextImplements, PTL DEF Spec, ImplementsRpcCall, Promise!CallSpec
=============================================================================
