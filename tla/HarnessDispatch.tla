--------------------------- MODULE HarnessDispatch ---------------------------
(***************************************************************************)
(* The harness dispatcher of pkg/harness: DispatchRequest runs the request *)
(* handlers registered for a method, then those for "*", each in order of  *)
(* registration, against one RequestContext that lets a single response    *)
(* through.  A handler may answer on the dispatching goroutine or hand the *)
(* context to a goroutine of its own, and requests are dispatched          *)
(* concurrently with each other and with registrations.  A handler answers *)
(* a request once: what a second attempt of its own would meet, the        *)
(* attempt of another handler meets here.                                  *)
(***************************************************************************)
EXTENDS Naturals, Sequences, FiniteSets, SequencesExt

CONSTANTS
    Request,    \* inbound requests, each with a context of its own
    Handler,    \* request handlers
    MethodOf,   \* MethodOf[h]: the method h is bound to, "*" for none
    Method,     \* Method[r]: the method of request r
    Behaviours, \* Behaviours[h]: what handler h may do
    Senderless  \* requests whose context was made without a sender

\* What a handler does with a request: nothing, fail, answer and return the
\* outcome (as the built-in harnesses do), or leave the answer to a goroutine.
Behaviour == {"ignore", "fail", "result", "error", "async"}

ASSUME MethodsAssumption    == \A r \in Request : Method[r] # "*"
ASSUME SenderAssumption     == Senderless \subseteq Request
ASSUME BehavioursAssumption == Behaviours \in [Handler -> SUBSET Behaviour \ {{}}]

VARIABLES
    requestHandlers,    \* requestHandlers[m]: the handlers of m in order of registration
    todo,       \* todo[r]: handlers still to run, from the snapshot
    dispatch,   \* dispatch[r]: where DispatchRequest is
    call,       \* call[r][h]: handler h inside Respond or RespondError
    kind,       \* kind[r][h]: which of the two
    responded, responseKind, responseCount, handlerInvoked,   \* RequestContext
    verdict,    \* verdict[r]: what DispatchRequest returned
    sent        \* what the sender sent, in order

contextVars == <<responded, responseKind, responseCount, handlerInvoked>>
vars == <<requestHandlers, todo, dispatch, call, kind, contextVars, verdict, sent>>

Methods == {"*"} \cup {MethodOf[h] : h \in Handler} \cup {Method[r] : r \in Request}
Kind == {"result", "error"}
Response == [request : Request, kind : Kind]
CallLocation == {"none", "claim", "send", "sent", "refused", "failed"}

Init ==
    /\ requestHandlers = [m \in Methods |-> <<>>]
    /\ todo = [r \in Request |-> <<>>]
    /\ dispatch = [r \in Request |-> "idle"]
    /\ call = [r \in Request |-> [h \in Handler |-> "none"]]
    /\ kind = [r \in Request |-> [h \in Handler |-> "result"]]
    /\ responded = [r \in Request |-> FALSE]
    /\ responseKind = [r \in Request |-> ""]
    /\ responseCount = [r \in Request |-> 0]
    /\ handlerInvoked = [r \in Request |-> 0]
    /\ verdict = [r \in Request |-> "none"]
    /\ sent = <<>>

-----------------------------------------------------------------------------
(* Dispatcher.                                                             *)

\* OnRequest; a harness binds a handler once.
OnRequest(h) ==
    /\ h \notin ToSet(requestHandlers[MethodOf[h]])
    /\ requestHandlers' = [requestHandlers EXCEPT ![MethodOf[h]] = Append(@, h)]
    /\ UNCHANGED <<todo, dispatch, call, kind, contextVars, verdict, sent>>

\* requestHandlersFor: a copy, specific handlers first.
HandlersFor(m) == requestHandlers[m] \o requestHandlers["*"]

DispatchRequest(r) ==
    /\ dispatch[r] = "idle"
    /\ dispatch' = [dispatch EXCEPT ![r] = "next"]
    /\ todo' = [todo EXCEPT ![r] = HandlersFor(Method[r])]
    /\ UNCHANGED <<requestHandlers, call, kind, contextVars, verdict, sent>>

Return(r, v) ==
    /\ dispatch' = [dispatch EXCEPT ![r] = "returned"]
    /\ verdict' = [verdict EXCEPT ![r] = v]

Advance(r) == todo' = [todo EXCEPT ![r] = Tail(@)]

\* Handler h calls Respond or RespondError.
Answer(r, h, k) ==
    /\ kind' = [kind EXCEPT ![r][h] = k]
    /\ call' = [call EXCEPT ![r][h] = "claim"]

\* The next handler runs: it is over at once unless it answers itself.
HandlerRuns(r, b) ==
    /\ dispatch[r] = "next" /\ todo[r] # <<>>
    /\ b \in Behaviours[Head(todo[r])]
    /\ CASE b = "ignore" -> Advance(r) /\ UNCHANGED <<dispatch, call, kind, verdict>>
         [] b = "fail"   -> Return(r, "failed") /\ UNCHANGED <<call, kind, todo>>
         [] b = "async"  -> /\ \E k \in Kind : Answer(r, Head(todo[r]), k)
                            /\ Advance(r) /\ UNCHANGED <<dispatch, verdict>>
         [] OTHER        -> /\ Answer(r, Head(todo[r]), b)
                            /\ dispatch' = [dispatch EXCEPT ![r] = "waiting"]
                            /\ UNCHANGED <<verdict, todo>>
    /\ UNCHANGED <<requestHandlers, responded, responseKind, responseCount, sent>>

\* Mutation: a handler that answers is counted by the dispatcher and by itself.
InvokeTwice(r, b) ==
    /\ HandlerRuns(r, b)
    /\ handlerInvoked' = [handlerInvoked EXCEPT ![r] = IF b \in Kind THEN @ + 2 ELSE @ + 1]

\* MarkHandlerInvoked, and the handler itself.
Invoke(r, b) ==
    /\ HandlerRuns(r, b)
    /\ handlerInvoked' = [handlerInvoked EXCEPT ![r] = @ + 1]

\* The handler that answered returns the outcome; an error ends the dispatch.
HandlerReturned(r) ==
    /\ dispatch[r] = "waiting"
    /\ LET outcome == call[r][Head(todo[r])] IN
         /\ outcome \in {"sent", "refused", "failed"}
         /\ IF outcome = "sent"
            THEN /\ dispatch' = [dispatch EXCEPT ![r] = "next"]
                 /\ Advance(r) /\ UNCHANGED verdict
            ELSE Return(r, outcome) /\ UNCHANGED todo
    /\ UNCHANGED <<requestHandlers, call, kind, contextVars, sent>>

\* Mutation: the diagnostics are not looked at.
FinishUnchecked(r) ==
    /\ dispatch[r] = "next" /\ todo[r] = <<>>
    /\ Return(r, "ok")
    /\ UNCHANGED <<requestHandlers, todo, call, kind, contextVars, sent>>

\* All handlers have run: the diagnostics say whether the request was answered.
Finish(r) ==
    /\ dispatch[r] = "next" /\ todo[r] = <<>>
    /\ Return(r, IF responded[r] THEN "ok" ELSE "unanswered")
    /\ UNCHANGED <<requestHandlers, todo, call, kind, contextVars, sent>>

-----------------------------------------------------------------------------
(* RequestContext.  Claim is the critical section of Respond and            *)
(* RespondError, Send the call of the sender after the unlock.              *)

CallGoes(r, h, pc) == call' = [call EXCEPT ![r][h] = pc]

\* Mutation: the context is marked after the send, not before.
ClaimUnmarked(r, h) ==
    /\ call[r][h] = "claim"
    /\ responseCount' = [responseCount EXCEPT ![r] = @ + 1]
    /\ responseKind' = [responseKind EXCEPT ![r] = kind[r][h]]
    /\ responded' = [responded EXCEPT ![r] = TRUE]
    /\ CallGoes(r, h, IF \E s \in ToSet(sent) : s.request = r THEN "refused" ELSE "send")
    /\ UNCHANGED <<requestHandlers, todo, dispatch, kind, handlerInvoked, verdict, sent>>

Claim(r, h) ==
    /\ call[r][h] = "claim"
    /\ responseCount' = [responseCount EXCEPT ![r] = @ + 1]
    /\ IF responded[r]
       THEN CallGoes(r, h, "refused") /\ UNCHANGED <<responded, responseKind>>
       ELSE /\ responded' = [responded EXCEPT ![r] = TRUE]
            /\ responseKind' = [responseKind EXCEPT ![r] = kind[r][h]]
            /\ CallGoes(r, h, "send")
    /\ UNCHANGED <<requestHandlers, todo, dispatch, kind, handlerInvoked, verdict, sent>>

\* Without a sender nothing is sent, and the caller is told all is well.
Send(r, h) ==
    /\ call[r][h] = "send"
    /\ sent' = IF r \in Senderless THEN sent ELSE Append(sent, [request |-> r, kind |-> kind[r][h]])
    /\ CallGoes(r, h, "sent")
    /\ UNCHANGED <<requestHandlers, todo, dispatch, kind, contextVars, verdict>>

\* The sender fails: the client is closed, or its context is over.
SendFails(r, h) ==
    /\ call[r][h] = "send"
    /\ CallGoes(r, h, "failed")
    /\ UNCHANGED <<requestHandlers, todo, dispatch, kind, contextVars, verdict, sent>>

Next ==
    \/ \E h \in Handler : OnRequest(h)
    \/ \E r \in Request :
         \/ DispatchRequest(r) \/ HandlerReturned(r) \/ Finish(r)
         \/ \E b \in Behaviour : Invoke(r, b)
         \/ \E h \in Handler : Claim(r, h) \/ Send(r, h) \/ SendFails(r, h)

Spec == Init /\ [][Next]_vars

-----------------------------------------------------------------------------
(* What the dispatcher promises.                                           *)

Attempt       == {"send", "sent", "failed"}     \* the sender is called, or was
Calls(r, S)   == {h \in Handler : call[r][h] \in S}
Callers(r)    == Calls(r, CallLocation \ {"none"})
Responses(r)  == {n \in DOMAIN sent : sent[n].request = r}

\* The sender is called for a request at most once, with handlers answering on
\* the dispatching goroutine and on their own at the same time.
OneSend ==
    \A r \in Request :
        /\ \A g, h \in Calls(r, Attempt) : g = h
        /\ \A m, n \in Responses(r) : m = n

\* The diagnostics tell the truth: they name the response that was let through,
\* count every attempt, and count the handlers that ran - at least those that
\* answer or left their answer to a goroutine, never more than the method has.
DiagnosticsTrue ==
    \A r \in Request :
        /\ responseCount[r] = Cardinality(Calls(r, Attempt \cup {"refused"}))
        /\ responded[r] <=> Calls(r, Attempt) # {}
        /\ \A h \in Calls(r, Attempt) : responseKind[r] = kind[r][h]
        /\ \A n \in Responses(r) : responseKind[r] = sent[n].kind
        /\ Cardinality(Callers(r)) <= handlerInvoked[r]
        /\ handlerInvoked[r] <= Len(HandlersFor(Method[r]))

\* What DispatchRequest returns fits the context: nil only when a response was
\* let through, ErrRequestAlreadyResponded only when another attempt came first,
\* and that nobody answered only when any answer there is or will be comes from
\* a goroutine a handler left behind.
VerdictFits ==
    \A r \in Request :
        /\ verdict[r] = "ok" => responded[r]
        /\ verdict[r] = "refused" => responseCount[r] >= 2
        /\ verdict[r] = "unanswered" => \A h \in Callers(r) : "async" \in Behaviours[h]
=============================================================================
