------------------------ MODULE HarnessDispatchProofs ------------------------
(***************************************************************************)
(* At most one response per request, true diagnostics and the outcome that *)
(* fits them, for any handlers and requests.                               *)
(***************************************************************************)
EXTENDS HarnessDispatch, FiniteSetTheorems, SequenceTheorems, TLAPS

\* The variables OneSend depends on are typed.
Typed ==
    /\ call \in [Request -> [Handler -> CallLocation]]
    /\ kind \in [Request -> [Handler -> Kind]]
    /\ responded \in [Request -> BOOLEAN]
    /\ sent \in Seq(Response)

\* A response that was sent, or an attempt at one, has marked the context, and
\* an attempt not yet handed to the sender has no response before it.
Marked ==
    \A r \in Request :
        /\ Responses(r) # {} => responded[r]
        /\ Calls(r, Attempt) # {} => responded[r]
        /\ Calls(r, {"send"}) # {} => Responses(r) = {}

\* The inductive invariant.
IInv == Typed /\ Marked /\ OneSend

LEMMA InitIInv == Init => IInv
<1> SUFFICES ASSUME Init PROVE IInv
  OBVIOUS
<1>1. Typed
  <2>1. /\ call \in [Request -> [Handler -> CallLocation]]
        /\ kind \in [Request -> [Handler -> Kind]]
    BY DEF Init, CallLocation, Kind
  <2>2. responded \in [Request -> BOOLEAN]
    BY DEF Init
  <2>3. sent \in Seq(Response)
    <3>1. sent = <<>>
      BY DEF Init
    <3> QED
      BY <3>1
  <2> QED
    BY <2>1, <2>2, <2>3 DEF Typed
<1>2. \A r \in Request : Calls(r, Attempt) = {} /\ Calls(r, {"send"}) = {}
  BY DEF Init, Calls, Attempt
<1>3. \A r \in Request : Responses(r) = {}
  <2>1. Len(sent) = 0
    BY DEF Init
  <2> QED
    BY <2>1, <1>1 DEF Responses, Typed
<1> QED
  BY <1>1, <1>2, <1>3 DEF IInv, Marked, OneSend

\* A step that changes neither the calls, the context nor what was sent.
LEMMA Frame ==
    ASSUME IInv, UNCHANGED <<call, kind, responded, sent>>
    PROVE  IInv'
  BY DEF IInv, Typed, Marked, OneSend, Calls, Responses

\* A call of Respond that begins is no attempt yet.
LEMMA AnswerStep ==
    ASSUME IInv, NEW r \in Request, NEW h, NEW k \in Kind,
           Answer(r, h, k), UNCHANGED <<responded, sent>>
    PROVE  IInv'
<1>1. Typed'
  BY DEF IInv, Typed, Answer, CallLocation
<1>2. \A q \in Request, S \in SUBSET Attempt : Calls(q, S)' \subseteq Calls(q, S)
  BY DEF IInv, Typed, Answer, Calls, Attempt
<1>3. \A q \in Request : Responses(q)' = Responses(q)
  BY DEF Responses
<1>4. {"send"} \in SUBSET Attempt /\ Attempt \in SUBSET Attempt
  BY DEF Attempt
<1>5. Marked'
  BY <1>2, <1>3, <1>4 DEF IInv, Marked
<1>6. OneSend'
  BY <1>2, <1>3, <1>4 DEF IInv, OneSend
<1> QED
  BY <1>1, <1>5, <1>6 DEF IInv

\* The critical section of Respond: the first attempt marks the context, every
\* later one is refused.
LEMMA ClaimStep ==
    ASSUME IInv, NEW r \in Request, NEW h \in Handler, Claim(r, h)
    PROVE  IInv'
<1>1. /\ Typed' /\ UNCHANGED sent
      /\ \A q \in Request : Responses(q)' = Responses(q)
      /\ \A q \in Request : responded[q] => responded'[q]
  <2>1. /\ UNCHANGED <<sent, kind>>
        /\ \A q \in Request : Responses(q)' = Responses(q)
    BY DEF Claim, Responses
  <2>2. call' \in [Request -> [Handler -> CallLocation]]
    <3>1. CallGoes(r, h, "refused") \/ CallGoes(r, h, "send")
      BY DEF Claim
    <3>2. "refused" \in CallLocation /\ "send" \in CallLocation
      BY DEF CallLocation
    <3>3. \A pc \in CallLocation :
             CallGoes(r, h, pc) => call' \in [Request -> [Handler -> CallLocation]]
      BY DEF IInv, Typed, CallGoes
    <3> QED
      BY <3>1, <3>2, <3>3
  <2>3. responded' = responded \/ responded' = [responded EXCEPT ![r] = TRUE]
    BY DEF Claim
  <2>4. /\ responded' \in [Request -> BOOLEAN]
        /\ \A q \in Request : responded[q] => responded'[q]
    BY <2>3 DEF IInv, Typed
  <2> QED
    BY <2>1, <2>2, <2>4 DEF IInv, Typed
<1>2. \A q \in Request \ {r} : /\ Calls(q, Attempt)' = Calls(q, Attempt)
                               /\ Calls(q, {"send"})' = Calls(q, {"send"})
  BY DEF IInv, Typed, Claim, CallGoes, Calls
<1>3. CASE responded[r]
  <2>1. /\ Calls(r, Attempt)' = Calls(r, Attempt)
        /\ Calls(r, {"send"})' = Calls(r, {"send"})
    BY <1>3 DEF IInv, Typed, Claim, CallGoes, Calls, Attempt
  <2>2. \A q \in Request : /\ Calls(q, Attempt)' = Calls(q, Attempt)
                           /\ Calls(q, {"send"})' = Calls(q, {"send"})
    BY <1>2, <2>1
  <2> QED
    BY <1>1, <2>2 DEF IInv, Marked, OneSend
<1>4. CASE ~responded[r]
  <2>1. Calls(r, Attempt) = {} /\ Responses(r) = {}
    BY <1>4 DEF IInv, Marked
  <2>2. Calls(r, Attempt)' = {h} /\ Calls(r, {"send"})' = {h} /\ responded'[r]
    BY <1>4, <2>1 DEF IInv, Typed, Claim, CallGoes, Calls, Attempt
  <2>3. Marked'
    <3> SUFFICES ASSUME NEW q \in Request
                 PROVE  /\ Responses(q)' # {} => responded'[q]
                        /\ Calls(q, Attempt)' # {} => responded'[q]
                        /\ Calls(q, {"send"})' # {} => Responses(q)' = {}
      BY DEF Marked
    <3> QED
      BY <1>1, <1>2, <2>1, <2>2 DEF IInv, Marked
  <2>4. OneSend'
    BY <1>1, <1>2, <2>2 DEF IInv, OneSend
  <2> QED
    BY <1>1, <2>3, <2>4 DEF IInv
<1> QED
  BY <1>3, <1>4

\* The attempt that marked the context reaches the sender: the first response.
LEMMA SendStep ==
    ASSUME IInv, NEW r \in Request, NEW h \in Handler, Send(r, h), r \notin Senderless
    PROVE  IInv'
<1>1. /\ Typed' /\ UNCHANGED responded
      /\ Len(sent') = Len(sent) + 1 /\ sent'[Len(sent) + 1].request = r
      /\ \A n \in DOMAIN sent : sent'[n] = sent[n]
  <2>1. [request |-> r, kind |-> kind[r][h]] \in Response
    BY DEF IInv, Typed, Response
  <2> QED
    BY <2>1 DEF IInv, Typed, Send, CallGoes, CallLocation, contextVars
<1>2. \A q \in Request : Calls(q, Attempt)' = Calls(q, Attempt)
  BY DEF IInv, Typed, Send, CallGoes, Calls, Attempt
<1>3. h \in Calls(r, {"send"}) /\ h \in Calls(r, Attempt)
  BY DEF Send, Calls, Attempt
<1>4. Responses(r) = {} /\ responded[r]
  BY <1>3 DEF IInv, Marked
<1>a. DOMAIN sent = 1 .. Len(sent) /\ DOMAIN sent' = 1 .. Len(sent) + 1 /\ Len(sent) \in Nat
  BY <1>1 DEF IInv, Typed
<1>b. \A n \in DOMAIN sent' : n \in DOMAIN sent \/ n = Len(sent) + 1
  BY <1>a
<1>c. DOMAIN sent \subseteq DOMAIN sent' /\ Len(sent) + 1 \in DOMAIN sent'
  BY <1>a
<1>5. Responses(r)' = {Len(sent) + 1}
  BY <1>1, <1>4, <1>b, <1>c DEF Responses
<1>6. \A q \in Request \ {r} : Responses(q)' = Responses(q)
  BY <1>1, <1>b, <1>c DEF Responses
<1>7. Calls(r, {"send"})' = {}
  <2>1. Calls(r, {"send"}) \subseteq {h}
    BY <1>3 DEF IInv, OneSend, Calls, Attempt
  <2> QED
    BY <2>1 DEF IInv, Typed, Send, CallGoes, Calls
<1>8. \A q \in Request \ {r} : Calls(q, {"send"})' = Calls(q, {"send"})
  BY DEF IInv, Typed, Send, CallGoes, Calls
<1>9. Marked'
  <2> SUFFICES ASSUME NEW q \in Request
               PROVE  /\ Responses(q)' # {} => responded'[q]
                      /\ Calls(q, Attempt)' # {} => responded'[q]
                      /\ Calls(q, {"send"})' # {} => Responses(q)' = {}
    BY DEF Marked
  <2> QED
    BY <1>1, <1>2, <1>4, <1>6, <1>7, <1>8 DEF IInv, Marked
<1>10. OneSend'
  BY <1>2, <1>5, <1>6 DEF IInv, OneSend
<1> QED
  BY <1>1, <1>9, <1>10 DEF IInv

\* A failed send stays an attempt, and so does one without a sender.
LEMMA SendFailsStep ==
    ASSUME IInv, NEW r \in Request, NEW h \in Handler,
           SendFails(r, h) \/ (Send(r, h) /\ r \in Senderless)
    PROVE  IInv'
<1>1. PICK pc \in {"sent", "failed"} : call' = [call EXCEPT ![r][h] = pc]
  BY DEF SendFails, Send, CallGoes
<1>3. UNCHANGED <<kind, responded, sent>> /\ call[r][h] = "send"
  BY DEF SendFails, Send, contextVars
<1>4. /\ Typed' /\ \A q \in Request : Responses(q)' = Responses(q)
  BY <1>1, <1>3 DEF IInv, Typed, CallLocation, Responses
<1>2. \A q \in Request : /\ Calls(q, Attempt)' = Calls(q, Attempt)
                         /\ Calls(q, {"send"})' \subseteq Calls(q, {"send"})
  BY <1>1, <1>3 DEF IInv, Typed, Calls, Attempt
<1> QED
  BY <1>2, <1>3, <1>4 DEF IInv, Marked, OneSend

\* Every step of the dispatcher preserves the invariant.
LEMMA NextIInv == IInv /\ [Next]_vars => IInv'
<1> SUFFICES ASSUME IInv, [Next]_vars PROVE IInv'
  OBVIOUS
<1>1. CASE UNCHANGED vars
  BY <1>1, Frame DEF vars, contextVars
<1>2. ASSUME NEW h \in Handler, OnRequest(h) PROVE IInv'
  BY <1>2, Frame DEF OnRequest, contextVars
<1>3. ASSUME NEW r \in Request, DispatchRequest(r) \/ HandlerReturned(r) \/ Finish(r)
      PROVE  IInv'
  BY <1>3, Frame DEF DispatchRequest, HandlerReturned, Finish, contextVars
<1>4. ASSUME NEW r \in Request, NEW b \in Behaviour, Invoke(r, b) PROVE IInv'
  <2> DEFINE h == Head(todo[r])
  <2>1. UNCHANGED <<responded, sent>>
    BY <1>4 DEF Invoke, HandlerRuns
  <2>2. \/ UNCHANGED <<call, kind>>
        \/ \E k \in Kind : Answer(r, h, k)
    BY <1>4 DEF Invoke, HandlerRuns, Behaviour, Kind
  <2> QED
    BY <2>1, <2>2, Frame, AnswerStep
<1>5. ASSUME NEW r \in Request, NEW h \in Handler,
             Claim(r, h) \/ Send(r, h) \/ SendFails(r, h)
      PROVE  IInv'
  BY <1>5, ClaimStep, SendStep, SendFailsStep
<1> QED
  BY <1>1, <1>2, <1>3, <1>4, <1>5 DEF Next

\* For any set of handlers, whatever they do, and any number of requests
\* dispatched at once, RequestContext hands the sender at most one response.
THEOREM AtMostOneResponse == Spec => []OneSend
<1>1. IInv => OneSend
  BY DEF IInv
<1> QED
  BY InitIInv, NextIInv, <1>1, PTL DEF Spec

-----------------------------------------------------------------------------
(* The diagnostics.                                                        *)

AllCalls == Attempt \cup {"refused"}

DiagTyped ==
    /\ requestHandlers \in [Methods -> Seq(Handler)]
    /\ todo \in [Request -> Seq(Handler)]
    /\ dispatch \in [Request -> {"idle", "next", "waiting", "returned"}]
    /\ responseKind \in [Request -> Kind \cup {""}]
    /\ responseCount \in [Request -> Nat]
    /\ verdict \in [Request -> {"none", "ok", "unanswered", "failed", "refused"}]

\* A harness is registered once, with its own method.
Registered ==
    \A m \in Methods :
        /\ IsInjective(requestHandlers[m])
        /\ \A n \in DOMAIN requestHandlers[m] : MethodOf[requestHandlers[m][n]] = m

\* A handler still to run is listed once and has not answered: the handlers of
\* a dispatch are a copy of those registered.
FreshOf(r) ==
    /\ IsInjective(todo[r])
    /\ dispatch[r] = "idle" => Calls(r, {"none"}) = Handler
    /\ dispatch[r] = "next" => \A n \in DOMAIN todo[r] : call[r][todo[r][n]] = "none"
    /\ dispatch[r] = "waiting" =>
          /\ todo[r] # <<>>
          /\ \A n \in DOMAIN todo[r] : n # 1 => call[r][todo[r][n]] = "none"
Fresh == \A r \in Request : FreshOf(r)

\* Finitely many have called, and a refused one was not the first.
Counted ==
    \A r \in Request :
        /\ IsFiniteSet(Calls(r, AllCalls))
        /\ responded[r] => responseCount[r] >= 1
        /\ Calls(r, {"refused"}) # {} => responseCount[r] >= 2

\* What DiagnosticsTrue says of the attempts, of one request.
Told(r) ==
    /\ responseCount[r] = Cardinality(Calls(r, AllCalls))
    /\ responded[r] <=> Calls(r, Attempt) # {}
    /\ \A h \in Calls(r, Attempt) : responseKind[r] = kind[r][h]
    /\ \A n \in Responses(r) : responseKind[r] = sent[n].kind
AllTold == \A r \in Request : Told(r)

\* A dispatch is ok when a response was let through, and refused when another
\* attempt came first.
OutcomeFits ==
    \A r \in Request :
        /\ verdict[r] = "ok" => responded[r]
        /\ verdict[r] = "refused" => responseCount[r] >= 2

\* The inductive invariant of the diagnostics, on top of IInv.
DiagInv == IInv /\ DiagTyped /\ Registered /\ Fresh /\ Counted /\ AllTold /\ OutcomeFits

LEMMA InitDiag == Init => DiagInv
<1> SUFFICES ASSUME Init PROVE DiagInv
  OBVIOUS
<1>1. DiagTyped
  <2>1. \A K : <<>> \in Seq(K)
    OBVIOUS
  <2> QED  BY <2>1 DEF Init, DiagTyped
<1>e. IsInjective(<<>>) /\ DOMAIN <<>> = {}
  BY DEF IsInjective
<1>2. Registered
  BY <1>e DEF Init, Registered
<1>3. Fresh
  <2>1. \A r \in Request : todo[r] = <<>> /\ dispatch[r] = "idle" /\ Calls(r, {"none"}) = Handler
    BY DEF Init, Calls
  <2> QED  BY <1>e, <2>1 DEF Fresh, FreshOf
<1>4. /\ \A r \in Request : Calls(r, AllCalls) = {} /\ Calls(r, Attempt) = {} /\ Calls(r, {"refused"}) = {}
      /\ \A r \in Request : ~responded[r] /\ responseCount[r] = 0 /\ verdict[r] = "none"
  BY DEF Init, Calls, AllCalls, Attempt
<1>5. \A r \in Request : Responses(r) = {}
  BY <1>e DEF Init, Responses
<1>6. IsFiniteSet({}) /\ Cardinality({}) = 0
  BY FS_EmptySet
<1>7. Counted
  BY <1>4, <1>6 DEF Counted
<1>8. AllTold
  BY <1>4, <1>5, <1>6 DEF AllTold, Told
<1>9. OutcomeFits
  BY <1>4 DEF OutcomeFits
<1> QED  BY <1>1, <1>2, <1>3, <1>7, <1>8, <1>9, InitIInv DEF DiagInv

\* A step outside of Respond leaves what the diagnostics count alone.
LEMMA ContextFrame ==
    ASSUME DiagInv, UNCHANGED <<call, kind, responded, responseKind, responseCount, sent>>
    PROVE  Counted' /\ AllTold'
<1>1. \A r, S : Calls(r, S)' = Calls(r, S) /\ Responses(r)' = Responses(r)
  BY DEF Calls, Responses
<1> QED  BY <1>1 DEF DiagInv, Counted, AllTold, Told

\* One call moves on.
LEMMA CallMoves ==
    ASSUME DiagInv, NEW r \in Request, NEW h \in Handler, NEW pc, CallGoes(r, h, pc), NEW S
    PROVE  /\ Calls(r, S)' = IF pc \in S THEN Calls(r, S) \cup {h} ELSE Calls(r, S) \ {h}
           /\ \A q \in Request \ {r} : Calls(q, S)' = Calls(q, S)
<1>1. call \in [Request -> [Handler -> CallLocation]] /\ call' = [call EXCEPT ![r][h] = pc]
  BY DEF DiagInv, IInv, Typed, CallGoes
<1>2. \A q \in Request, g \in Handler : call'[q][g] = IF q = r /\ g = h THEN pc ELSE call[q][g]
  BY <1>1
<1> HIDE DEF IInv, CallGoes
<1> QED  BY ONLY <1>2, r \in Request, h \in Handler DEF Calls

\* A handler that calls Respond has not been counted yet.
LEMMA AnswerContext ==
    ASSUME DiagInv, NEW r \in Request, NEW h \in Handler, NEW k \in Kind, Answer(r, h, k),
           call[r][h] = "none", UNCHANGED <<responded, responseKind, responseCount, sent>>
    PROVE  Counted' /\ AllTold'
<1>1. /\ call \in [Request -> [Handler -> CallLocation]] /\ kind \in [Request -> [Handler -> Kind]]
      /\ call' = [call EXCEPT ![r][h] = "claim"] /\ kind' = [kind EXCEPT ![r][h] = k]
  BY DEF DiagInv, IInv, Typed, Answer
<1>2. ASSUME NEW q \in Request, NEW S, "none" \notin S, "claim" \notin S
      PROVE  Calls(q, S)' = Calls(q, S)
  <2>1. CallGoes(r, h, "claim") /\ h \notin Calls(r, S)
    BY <1>1, <1>2 DEF CallGoes, Calls
  <2> QED  BY <1>2, <2>1, CallMoves
<1>3. /\ "none" \notin AllCalls /\ "claim" \notin AllCalls
      /\ "none" \notin Attempt /\ "claim" \notin Attempt
      /\ "none" \notin {"refused"} /\ "claim" \notin {"refused"}
  BY DEF AllCalls, Attempt
<1>4. \A q \in Request : /\ Calls(q, AllCalls)' = Calls(q, AllCalls)
                         /\ Calls(q, Attempt)' = Calls(q, Attempt)
                         /\ Calls(q, {"refused"})' = Calls(q, {"refused"})
                         /\ Responses(q)' = Responses(q)
  BY <1>2, <1>3 DEF Responses
<1>5. \A q \in Request : \A g \in Calls(q, Attempt) : kind'[q][g] = kind[q][g]
  BY <1>1, <1>3 DEF Calls
<1>6. Counted'
  BY <1>4 DEF DiagInv, Counted
<1>7. AllTold'
  BY <1>4, <1>5 DEF DiagInv, AllTold, Told
<1> QED  BY <1>6, <1>7

\* Claim counts the caller, whether it is let through or refused.
LEMMA ClaimContext ==
    ASSUME DiagInv, NEW r \in Request, NEW h \in Handler, Claim(r, h)
    PROVE  Counted' /\ AllTold'
<1>1. /\ call \in [Request -> [Handler -> CallLocation]] /\ responded \in [Request -> BOOLEAN]
      /\ responseKind \in [Request -> Kind \cup {""}] /\ responseCount \in [Request -> Nat]
      /\ call[r][h] = "claim" /\ kind' = kind /\ sent' = sent
      /\ responseCount' = [responseCount EXCEPT ![r] = @ + 1]
  BY DEF DiagInv, IInv, Typed, DiagTyped, Claim
<1>2. \/ /\ responded[r] /\ call' = [call EXCEPT ![r][h] = "refused"]
         /\ UNCHANGED <<responded, responseKind>>
      \/ /\ ~responded[r] /\ call' = [call EXCEPT ![r][h] = "send"]
         /\ responded' = [responded EXCEPT ![r] = TRUE]
         /\ responseKind' = [responseKind EXCEPT ![r] = kind[r][h]]
  BY DEF Claim, CallGoes
<1>g. CallGoes(r, h, IF responded[r] THEN "refused" ELSE "send")
  BY <1>2 DEF CallGoes
<1>3. ASSUME NEW q \in Request \ {r}, NEW S
      PROVE  /\ Calls(q, S)' = Calls(q, S) /\ responseCount'[q] = responseCount[q]
             /\ responded'[q] = responded[q] /\ responseKind'[q] = responseKind[q]
  <2>1. Calls(q, S)' = Calls(q, S)
    BY <1>g, CallMoves
  <2> QED  BY <1>1, <1>2, <2>1
<1>4. \A q \in Request : Responses(q)' = Responses(q)
  BY <1>1 DEF Responses
<1>5. h \notin Calls(r, AllCalls) /\ Calls(r, AllCalls)' = Calls(r, AllCalls) \cup {h}
  <2>1. "refused" \in AllCalls /\ "send" \in AllCalls /\ "claim" \notin AllCalls
    BY DEF AllCalls, Attempt
  <2>2. h \notin Calls(r, AllCalls)
    BY <1>1, <2>1 DEF Calls
  <2> QED  BY <1>g, <2>1, <2>2, CallMoves
<1>6. /\ IsFiniteSet(Calls(r, AllCalls)')
      /\ Cardinality(Calls(r, AllCalls)') = Cardinality(Calls(r, AllCalls)) + 1
  BY <1>5, FS_AddElement DEF DiagInv, Counted
<1>7. responseCount'[r] = responseCount[r] + 1 /\ responseCount[r] \in Nat
  BY <1>1
<1>8. responseCount'[r] = Cardinality(Calls(r, AllCalls)')
  BY <1>6, <1>7 DEF DiagInv, AllTold, Told
<1>9. \/ Calls(r, {"refused"})' = Calls(r, {"refused"})
      \/ responseCount'[r] >= 2
  <2>1. CASE responded[r]
    BY <1>7, <2>1 DEF DiagInv, Counted
  <2>2. CASE ~responded[r]
    <3>1. h \notin Calls(r, {"refused"})
      BY <1>1 DEF Calls
    <3>2. CallGoes(r, h, "send") /\ "send" \notin {"refused"}
      BY <1>g, <2>2
    <3> QED  BY <3>1, <3>2, CallMoves
  <2> QED  BY <2>1, <2>2
<1>10. Counted'
  <2> SUFFICES ASSUME NEW q \in Request
               PROVE  /\ IsFiniteSet(Calls(q, AllCalls)')
                      /\ responded'[q] => responseCount'[q] >= 1
                      /\ Calls(q, {"refused"})' # {} => responseCount'[q] >= 2
    BY DEF Counted
  <2>1. CASE q = r
    BY <1>6, <1>7, <1>9, <2>1 DEF DiagInv, Counted
  <2>2. CASE q # r
    BY <1>3, <2>2 DEF DiagInv, Counted
  <2> QED  BY <2>1, <2>2
<1>11. /\ responded'[r] <=> Calls(r, Attempt)' # {}
       /\ \A g \in Calls(r, Attempt)' : responseKind'[r] = kind'[r][g]
       /\ \A n \in Responses(r)' : responseKind'[r] = sent'[n].kind
  <2>1. CASE responded[r]
    <3>1. Calls(r, Attempt)' = Calls(r, Attempt)
      <4>1. h \notin Calls(r, Attempt) /\ "refused" \notin Attempt
        BY <1>1 DEF Calls, Attempt
      <4>2. CallGoes(r, h, "refused")
        BY <1>g, <2>1
      <4> QED  BY <4>1, <4>2, CallMoves
    <3>2. Told(r) /\ Responses(r)' = Responses(r) /\ responded' = responded
          /\ responseKind' = responseKind /\ kind' = kind /\ sent' = sent
      BY <1>1, <1>2, <1>4, <2>1 DEF DiagInv, AllTold
    <3> QED  BY ONLY <3>1, <3>2 DEF Told
  <2>2. CASE ~responded[r]
    <3>1. Calls(r, Attempt) = {} /\ Responses(r) = {}
      BY <2>2 DEF DiagInv, IInv, Marked
    <3>2. Calls(r, Attempt)' = {h}
      <4>1. "send" \in Attempt
        BY DEF Attempt
      <4>2. CallGoes(r, h, "send")
        BY <1>g, <2>2
      <4> QED  BY <3>1, <4>1, <4>2, CallMoves
    <3>3. /\ Responses(r)' = {} /\ responded'[r] = TRUE
          /\ responseKind'[r] = kind[r][h] /\ kind' = kind
      BY <1>1, <1>2, <1>4, <2>2, <3>1
    <3> QED  BY ONLY <3>2, <3>3
  <2> QED  BY <2>1, <2>2
<1>12. AllTold'
  <2> SUFFICES ASSUME NEW q \in Request
               PROVE  /\ responseCount'[q] = Cardinality(Calls(q, AllCalls)')
                      /\ responded'[q] <=> Calls(q, Attempt)' # {}
                      /\ \A g \in Calls(q, Attempt)' : responseKind'[q] = kind'[q][g]
                      /\ \A n \in Responses(q)' : responseKind'[q] = sent'[n].kind
    BY DEF AllTold, Told
  <2>1. CASE q = r
    BY <1>8, <1>11, <2>1
  <2>2. CASE q # r
    <3>1. /\ Told(q) /\ kind' = kind /\ sent' = sent /\ Responses(q)' = Responses(q)
          /\ Calls(q, AllCalls)' = Calls(q, AllCalls) /\ Calls(q, Attempt)' = Calls(q, Attempt)
          /\ responseCount'[q] = responseCount[q] /\ responded'[q] = responded[q]
          /\ responseKind'[q] = responseKind[q]
      BY <1>1, <1>3, <1>4, <2>2 DEF DiagInv, AllTold
    <3> QED  BY ONLY <3>1 DEF Told
  <2> QED  BY <2>1, <2>2
<1> QED  BY <1>10, <1>12

\* The sender's answer changes no count; what is sent is what was let through.
LEMMA SendContext ==
    ASSUME DiagInv, NEW r \in Request, NEW h \in Handler, Send(r, h) \/ SendFails(r, h)
    PROVE  Counted' /\ AllTold'
<1>1. /\ call \in [Request -> [Handler -> CallLocation]] /\ call[r][h] = "send" /\ h \in Calls(r, Attempt)
      /\ UNCHANGED <<kind, responded, responseKind, responseCount>>
      /\ \/ call' = [call EXCEPT ![r][h] = "sent"]
         \/ call' = [call EXCEPT ![r][h] = "failed"]
  BY DEF DiagInv, IInv, Typed, Send, SendFails, CallGoes, contextVars, Calls, Attempt
<1>2. \A q \in Request : /\ Calls(q, AllCalls)' = Calls(q, AllCalls)
                         /\ Calls(q, Attempt)' = Calls(q, Attempt)
                         /\ Calls(q, {"refused"})' = Calls(q, {"refused"})
  <2>1. CallGoes(r, h, "sent") \/ CallGoes(r, h, "failed")
    BY <1>1 DEF CallGoes
  <2>2. /\ {"send", "sent", "failed"} \subseteq AllCalls /\ {"send", "sent", "failed"} \subseteq Attempt
        /\ "sent" \notin {"refused"} /\ "failed" \notin {"refused"}
    BY DEF AllCalls, Attempt
  <2>3. h \in Calls(r, AllCalls) /\ h \in Calls(r, Attempt) /\ h \notin Calls(r, {"refused"})
    BY <1>1, <2>2 DEF Calls
  <2>4. ASSUME NEW pc \in {"sent", "failed"}, CallGoes(r, h, pc), NEW S,
               pc \in S <=> h \in Calls(r, S)
        PROVE  \A q \in Request : Calls(q, S)' = Calls(q, S)
    BY <2>4, CallMoves
  <2> QED  BY <2>1, <2>2, <2>3, <2>4
<1>3. \A q \in Request : \A n \in Responses(q)' : responseKind[q] = sent'[n].kind
  <2>1. CASE sent' = sent
    BY <2>1 DEF DiagInv, AllTold, Told, Responses
  <2>2. CASE sent' = Append(sent, [request |-> r, kind |-> kind[r][h]])
    <3>1. sent \in Seq(Response) /\ [request |-> r, kind |-> kind[r][h]] \in Response
      BY DEF DiagInv, IInv, Typed, Response
    <3>2. /\ DOMAIN sent' = 1 .. Len(sent) + 1 /\ DOMAIN sent = 1 .. Len(sent) /\ Len(sent) \in Nat
          /\ sent'[Len(sent) + 1] = [request |-> r, kind |-> kind[r][h]]
          /\ \A n \in 1 .. Len(sent) : sent'[n] = sent[n]
      BY <2>2, <3>1, AppendProperties
    <3>3. responseKind[r] = kind[r][h]
      BY <1>1 DEF DiagInv, AllTold, Told
    <3> SUFFICES ASSUME NEW q \in Request, NEW n \in Responses(q)'
                 PROVE  responseKind[q] = sent'[n].kind
      OBVIOUS
    <3>4. CASE n = Len(sent) + 1
      BY <3>2, <3>3, <3>4 DEF Responses
    <3>5. CASE n # Len(sent) + 1
      <4>1. n \in 1 .. Len(sent)
        BY <3>2, <3>5 DEF Responses
      <4>2. n \in Responses(q) /\ sent'[n] = sent[n]
        BY <3>2, <4>1 DEF Responses
      <4> QED  BY <4>2 DEF DiagInv, AllTold, Told
    <3> QED  BY <3>4, <3>5
  <2> QED  BY <2>1, <2>2 DEF Send, SendFails
<1>4. Counted'
  BY <1>1, <1>2 DEF DiagInv, Counted
<1>5. AllTold'
  BY <1>1, <1>2, <1>3 DEF DiagInv, AllTold, Told
<1> QED  BY <1>4, <1>5

-----------------------------------------------------------------------------
(* The dispatch.                                                           *)

\* The outcome of the other requests, and of this one until it returns: marks
\* and counts only grow.
Grows == \A r \in Request : /\ responded[r] => responded'[r]
                            /\ responseCount'[r] >= responseCount[r]

LEMMA VerdictStays ==
    ASSUME DiagInv, Grows, DiagTyped', verdict' = verdict
    PROVE  OutcomeFits'
<1> SUFFICES ASSUME NEW r \in Request
             PROVE  /\ verdict[r] = "ok" => responded'[r]
                    /\ verdict[r] = "refused" => responseCount'[r] >= 2
  BY DEF OutcomeFits
<1>1. responseCount[r] \in Nat /\ responseCount'[r] \in Nat
  BY DEF DiagInv, DiagTyped
<1> QED  BY <1>1 DEF DiagInv, OutcomeFits, Grows

\* Where no dispatch moves, a handler still to run must not have called.
LEMMA FreshStays ==
    ASSUME DiagInv, UNCHANGED <<todo, dispatch>>,
           \A r \in Request, h \in Handler : call[r][h] = "none" => call'[r][h] = "none"
    PROVE  Fresh'
<1>1. \A r \in Request : Calls(r, {"none"}) = Handler => Calls(r, {"none"})' = Handler
  BY DEF Calls
<1>2. ASSUME NEW r \in Request, NEW n \in DOMAIN todo[r] PROVE todo[r][n] \in Handler
  <2>1. todo[r] \in Seq(Handler)
    BY DEF DiagInv, DiagTyped
  <2> QED  BY <2>1
<1> QED  BY <1>1, <1>2 DEF DiagInv, Fresh, FreshOf

\* A sequence without repetitions goes on without its head.
LEMMA TailFresh ==
    ASSUME NEW s \in Seq(Handler), s # <<>>, IsInjective(s)
    PROVE  /\ Tail(s) \in Seq(Handler) /\ IsInjective(Tail(s))
           /\ \A n \in DOMAIN Tail(s) : /\ n + 1 \in DOMAIN s /\ n + 1 # 1 /\ Tail(s)[n] = s[n + 1]
                                       /\ Tail(s)[n] # Head(s)
           /\ 1 \in DOMAIN s /\ Head(s) = s[1] /\ Head(s) \in Handler
<1>1. /\ Tail(s) \in Seq(Handler) /\ Len(Tail(s)) = Len(s) - 1 /\ Head(s) = s[1] /\ Head(s) \in Handler
      /\ \A n \in 1 .. Len(Tail(s)) : Tail(s)[n] = s[n + 1]
  BY HeadTailProperties
<1>2. Len(s) \in Nat /\ Len(s) >= 1 /\ DOMAIN s = 1 .. Len(s) /\ DOMAIN Tail(s) = 1 .. Len(s) - 1
  BY <1>1
<1> DEFINE rest == Tail(s)
<1> HIDE DEF rest
<1>3. \A n \in DOMAIN rest : n + 1 \in DOMAIN s /\ n + 1 # 1 /\ n \in Int
  BY <1>2 DEF rest
<1>4. \A n \in DOMAIN rest : rest[n] = s[n + 1] /\ rest[n] # s[1]
  BY <1>1, <1>2, <1>3 DEF rest, IsInjective
<1>5. IsInjective(rest)
  <2> SUFFICES ASSUME NEW m \in DOMAIN rest, NEW n \in DOMAIN rest, rest[m] = rest[n] PROVE m = n
    BY DEF IsInjective
  <2>1. m + 1 = n + 1
    BY <1>3, <1>4 DEF IsInjective
  <2> QED  BY <1>3, <2>1
<1> QED  BY <1>1, <1>2, <1>3, <1>4, <1>5 DEF rest

LEMMA OnRequestDiag ==
    ASSUME DiagInv, NEW h \in Handler, OnRequest(h)
    PROVE  DiagTyped' /\ Registered'
<1> DEFINE m   == MethodOf[h]
           old == requestHandlers[m]
           new == Append(old, h)
<1>1. /\ m \in Methods /\ requestHandlers' = [requestHandlers EXCEPT ![m] = new] /\ h \notin ToSet(old)
  BY DEF OnRequest, Methods
<1>2. old \in Seq(Handler) /\ IsInjective(old) /\ \A n \in DOMAIN old : MethodOf[old[n]] = m
  BY <1>1 DEF DiagInv, DiagTyped, Registered
<1>3. /\ new \in Seq(Handler) /\ new[Len(old) + 1] = h
      /\ \A n \in 1 .. Len(old) : new[n] = old[n]
      /\ Len(old) \in Nat /\ DOMAIN old = 1 .. Len(old) /\ DOMAIN new = 1 .. Len(old) + 1
  BY <1>2, AppendProperties
<1> HIDE DEF new
<1>4. \A n \in DOMAIN old : old[n] # h
  BY <1>1 DEF ToSet
<1>5. IsInjective(new) /\ \A n \in DOMAIN new : MethodOf[new[n]] = m
  <2>1. \A n \in DOMAIN new : n \in DOMAIN old \/ n = Len(old) + 1
    BY <1>3
  <2> QED  BY <1>2, <1>3, <1>4, <2>1 DEF IsInjective
<1>6. requestHandlers \in [Methods -> Seq(Handler)]
  BY DEF DiagInv, DiagTyped
<1> HIDE DEF old, m
<1>7. /\ requestHandlers' \in [Methods -> Seq(Handler)]
      /\ \A x \in Methods : requestHandlers'[x] = IF x = m THEN new ELSE requestHandlers[x]
  BY <1>1, <1>3, <1>6
<1>8. Registered'
  BY <1>5, <1>7 DEF DiagInv, Registered
<1>9. DiagTyped'
  BY <1>7 DEF DiagInv, DiagTyped, OnRequest, contextVars
<1> QED  BY <1>8, <1>9

\* requestHandlersFor lists a handler once: one of the method or one of "*".
LEMMA HandlersForOnce ==
    ASSUME DiagInv, NEW r \in Request
    PROVE  HandlersFor(Method[r]) \in Seq(Handler) /\ IsInjective(HandlersFor(Method[r]))
<1> DEFINE m   == Method[r]
           own == requestHandlers[m]
           any == requestHandlers["*"]
           all == own \o any
<1>1. /\ m \in Methods /\ "*" \in Methods /\ m # "*"
  BY MethodsAssumption DEF Methods
<1>2. /\ own \in Seq(Handler) /\ IsInjective(own) /\ \A n \in DOMAIN own : MethodOf[own[n]] = m
      /\ any \in Seq(Handler) /\ IsInjective(any) /\ \A n \in DOMAIN any : MethodOf[any[n]] = "*"
  BY <1>1 DEF DiagInv, DiagTyped, Registered
<1> HIDE DEF own, any, m
<1>3. /\ all \in Seq(Handler) /\ Len(all) = Len(own) + Len(any)
      /\ \A n \in 1 .. Len(all) : all[n] = IF n <= Len(own) THEN own[n] ELSE any[n - Len(own)]
      /\ Len(own) \in Nat /\ Len(any) \in Nat
      /\ DOMAIN own = 1 .. Len(own) /\ DOMAIN any = 1 .. Len(any)
  BY <1>2, ConcatProperties
<1>4. DOMAIN all = 1 .. Len(own) + Len(any)
  BY <1>3
<1> HIDE DEF all
<1>5. \A n \in DOMAIN all :
        \/ n \in DOMAIN own /\ all[n] = own[n]
        \/ n - Len(own) \in DOMAIN any /\ n > Len(own) /\ all[n] = any[n - Len(own)]
  BY <1>3, <1>4
<1>6. IsInjective(all)
  <2> SUFFICES ASSUME NEW i \in DOMAIN all, NEW j \in DOMAIN all, all[i] = all[j] PROVE i = j
    BY DEF IsInjective
  <2>1. CASE i \in DOMAIN own /\ all[i] = own[i] /\ j \in DOMAIN own /\ all[j] = own[j]
    BY <1>2, <2>1 DEF IsInjective
  <2>2. CASE /\ i - Len(own) \in DOMAIN any /\ all[i] = any[i - Len(own)]
             /\ j - Len(own) \in DOMAIN any /\ all[j] = any[j - Len(own)]
    <3>1. i - Len(own) = j - Len(own)
      BY <1>2, <2>2 DEF IsInjective
    <3>2. i \in Int /\ j \in Int
      BY ONLY <1>3, <1>4, i \in DOMAIN all, j \in DOMAIN all
    <3> QED  BY ONLY <1>3, <3>1, <3>2
  <2> QED  BY <1>1, <1>2, <1>5, <2>1, <2>2
<1> QED  BY <1>3, <1>6 DEF HandlersFor, all, own, any, m

LEMMA DispatchDiag ==
    ASSUME DiagInv, NEW r \in Request, DispatchRequest(r)
    PROVE  DiagTyped' /\ Fresh'
<1> DEFINE new == HandlersFor(Method[r])
<1>1. new \in Seq(Handler) /\ IsInjective(new)
  BY HandlersForOnce
<1> HIDE DEF new
<1>2. /\ todo' = [todo EXCEPT ![r] = new] /\ dispatch' = [dispatch EXCEPT ![r] = "next"] /\ call' = call
      /\ dispatch[r] = "idle"
  BY DEF DispatchRequest, new
<1>3. /\ todo \in [Request -> Seq(Handler)]
      /\ dispatch \in [Request -> {"idle", "next", "waiting", "returned"}]
  BY DEF DiagInv, DiagTyped
<1>4. DiagTyped'
  <2>1. todo' \in [Request -> Seq(Handler)] /\ dispatch' \in [Request -> {"idle", "next", "waiting", "returned"}]
    BY <1>1, <1>2, <1>3
  <2>2. UNCHANGED <<requestHandlers, responseKind, responseCount, verdict>>
    BY DEF DispatchRequest, contextVars
  <2> QED  BY <2>1, <2>2 DEF DiagInv, DiagTyped
<1>5. \A q \in Request : Calls(q, {"none"})' = Calls(q, {"none"})
  BY <1>2 DEF Calls
<1>6. \A n \in DOMAIN new : call[r][new[n]] = "none"
  <2>1. Calls(r, {"none"}) = Handler
    BY <1>2 DEF DiagInv, Fresh, FreshOf
  <2> QED  BY <1>1, <2>1 DEF Calls
<1>7. Fresh'
  <2> SUFFICES ASSUME NEW q \in Request
               PROVE  /\ IsInjective(todo'[q])
                      /\ dispatch'[q] = "idle" => Calls(q, {"none"})' = Handler
                      /\ dispatch'[q] = "next" => \A n \in DOMAIN todo'[q] : call'[q][todo'[q][n]] = "none"
                      /\ dispatch'[q] = "waiting" =>
                            /\ todo'[q] # <<>>
                            /\ \A n \in DOMAIN todo'[q] : n # 1 => call'[q][todo'[q][n]] = "none"
    BY DEF Fresh, FreshOf
  <2>1. CASE q = r
    BY <1>1, <1>2, <1>3, <1>6, <2>1
  <2>2. CASE q # r
    BY <1>2, <1>3, <1>5, <2>2 DEF DiagInv, Fresh, FreshOf
  <2> QED  BY <2>1, <2>2
<1> QED  BY <1>4, <1>7

\* The next handler runs: it has not called yet, and it is the first to do.
LEMMA InvokeDiag ==
    ASSUME DiagInv, NEW r \in Request, NEW b \in Behaviour, Invoke(r, b)
    PROVE  DiagTyped' /\ Fresh' /\ Counted' /\ AllTold' /\ OutcomeFits'
<1> DEFINE h == Head(todo[r])
<1>1. /\ todo \in [Request -> Seq(Handler)] /\ todo[r] \in Seq(Handler)
      /\ dispatch \in [Request -> {"idle", "next", "waiting", "returned"}]
      /\ verdict \in [Request -> {"none", "ok", "unanswered", "failed", "refused"}]
      /\ call \in [Request -> [Handler -> CallLocation]]
      /\ dispatch[r] = "next" /\ todo[r] # <<>> /\ IsInjective(todo[r])
      /\ \A n \in DOMAIN todo[r] : call[r][todo[r][n]] = "none"
  BY DEF DiagInv, IInv, Typed, DiagTyped, Fresh, FreshOf, Invoke, HandlerRuns
<1>2. /\ Tail(todo[r]) \in Seq(Handler) /\ IsInjective(Tail(todo[r]))
      /\ \A n \in DOMAIN Tail(todo[r]) : /\ n + 1 \in DOMAIN todo[r]
                                         /\ Tail(todo[r])[n] = todo[r][n + 1]
                                         /\ Tail(todo[r])[n] # h
      /\ 1 \in DOMAIN todo[r] /\ h = todo[r][1] /\ h \in Handler
  BY <1>1, TailFresh
<1>3. call[r][h] = "none" /\ \A n \in DOMAIN Tail(todo[r]) : call[r][Tail(todo[r])[n]] = "none"
  BY <1>1, <1>2
<1> HIDE DEF h
<1>4. /\ UNCHANGED <<requestHandlers, responded, responseKind, responseCount, sent>>
      /\ \/ Advance(r) /\ UNCHANGED <<dispatch, call, kind, verdict>>
         \/ Return(r, "failed") /\ UNCHANGED <<call, kind, todo>>
         \/ (\E k \in Kind : Answer(r, h, k)) /\ Advance(r) /\ UNCHANGED <<dispatch, verdict>>
         \/ /\ (\E k \in Kind : Answer(r, h, k)) /\ dispatch' = [dispatch EXCEPT ![r] = "waiting"]
            /\ UNCHANGED <<verdict, todo>>
  BY DEF Invoke, HandlerRuns, Behaviour, Kind, h
<1>5. Counted' /\ AllTold'
  <2>1. CASE UNCHANGED <<call, kind>>
    BY <1>4, <2>1, ContextFrame
  <2>2. CASE \E k \in Kind : Answer(r, h, k)
    BY <1>2, <1>3, <1>4, <2>2, AnswerContext
  <2> QED  BY <1>4, <2>1, <2>2
<1>6. /\ todo' = todo \/ todo' = [todo EXCEPT ![r] = Tail(todo[r])]
      /\ \/ dispatch' = dispatch /\ todo' = [todo EXCEPT ![r] = Tail(todo[r])]
         \/ dispatch' = [dispatch EXCEPT ![r] = "returned"] /\ call' = call
         \/ dispatch' = [dispatch EXCEPT ![r] = "waiting"] /\ todo' = todo
      /\ verdict' = verdict \/ verdict' = [verdict EXCEPT ![r] = "failed"]
      /\ call' = call \/ call' = [call EXCEPT ![r][h] = "claim"]
  BY <1>4 DEF Advance, Return, Answer
<1>7. /\ todo' \in [Request -> Seq(Handler)]
      /\ dispatch' \in [Request -> {"idle", "next", "waiting", "returned"}]
      /\ verdict' \in [Request -> {"none", "ok", "unanswered", "failed", "refused"}]
  <2>1. todo' \in [Request -> Seq(Handler)]
    BY ONLY <1>1, <1>2, <1>6
  <2>2. dispatch' \in [Request -> {"idle", "next", "waiting", "returned"}]
    BY ONLY <1>1, <1>6
  <2>3. verdict' \in [Request -> {"none", "ok", "unanswered", "failed", "refused"}]
    BY ONLY <1>1, <1>6
  <2> QED  BY <2>1, <2>2, <2>3
<1>8. DiagTyped'
  BY <1>4, <1>7 DEF DiagInv, DiagTyped
<1>9. OutcomeFits'
  <2>1. \A q \in Request : verdict'[q] = verdict[q] \/ verdict'[q] = "failed"
    BY <1>1, <1>6
  <2> QED  BY <1>4, <2>1 DEF DiagInv, OutcomeFits
<1>10. ASSUME NEW q \in Request, q # r
       PROVE  todo'[q] = todo[q] /\ dispatch'[q] = dispatch[q] /\ call'[q] = call[q]
  BY <1>1, <1>6, <1>10
<1>11. ASSUME NEW g \in Handler, call[r][g] = "none", g # h PROVE call'[r][g] = "none"
  BY <1>1, <1>6, <1>11
<1>12. Fresh'
  <2> SUFFICES ASSUME NEW q \in Request
               PROVE  /\ IsInjective(todo'[q])
                      /\ dispatch'[q] = "idle" => Calls(q, {"none"})' = Handler
                      /\ dispatch'[q] = "next" => \A n \in DOMAIN todo'[q] : call'[q][todo'[q][n]] = "none"
                      /\ dispatch'[q] = "waiting" =>
                            /\ todo'[q] # <<>>
                            /\ \A n \in DOMAIN todo'[q] : n # 1 => call'[q][todo'[q][n]] = "none"
    BY DEF Fresh, FreshOf
  <2>1. CASE q # r
    <3>1. Calls(q, {"none"})' = Calls(q, {"none"})
      BY <1>10, <2>1 DEF Calls
    <3> QED  BY <1>10, <2>1, <3>1 DEF DiagInv, Fresh, FreshOf
  <2>2. CASE q = r
    <3>1. CASE dispatch' = dispatch /\ todo' = [todo EXCEPT ![r] = Tail(todo[r])]
      <4>1. dispatch'[r] = "next" /\ todo'[r] = Tail(todo[r])
        BY <1>1, <3>1
      <4>2. \A n \in DOMAIN Tail(todo[r]) : Tail(todo[r])[n] \in Handler
        BY <1>1, <1>2
      <4> QED  BY <1>2, <1>3, <1>11, <2>2, <4>1, <4>2
    <3>2. CASE dispatch' = [dispatch EXCEPT ![r] = "returned"] /\ call' = call
      <4>1. dispatch'[r] = "returned"
        BY <1>1, <3>2
      <4>2. IsInjective(todo'[r])
        BY <1>1, <1>2, <1>6
      <4> QED  BY <2>2, <4>1, <4>2
    <3>3. CASE dispatch' = [dispatch EXCEPT ![r] = "waiting"] /\ todo' = todo
      <4>1. dispatch'[r] = "waiting"
        BY <1>1, <3>3
      <4>2. \A n \in DOMAIN todo[r] : n # 1 => todo[r][n] # h /\ todo[r][n] \in Handler
        BY <1>1, <1>2 DEF IsInjective
      <4> QED  BY <1>1, <1>11, <2>2, <3>3, <4>1, <4>2
    <3> QED  BY <1>6, <3>1, <3>2, <3>3
  <2> QED  BY <2>1, <2>2
<1> QED  BY <1>5, <1>8, <1>9, <1>12

\* The dispatch goes on after an answer, or returns with what it knows.
LEMMA ReturnDiag ==
    ASSUME DiagInv, NEW r \in Request, HandlerReturned(r) \/ Finish(r)
    PROVE  DiagTyped' /\ Fresh' /\ OutcomeFits'
<1>1. /\ todo \in [Request -> Seq(Handler)] /\ todo[r] \in Seq(Handler)
      /\ dispatch \in [Request -> {"idle", "next", "waiting", "returned"}]
      /\ verdict \in [Request -> {"none", "ok", "unanswered", "failed", "refused"}]
      /\ UNCHANGED <<requestHandlers, call, responded, responseKind, responseCount>>
      /\ IsInjective(todo[r])
  BY DEF DiagInv, DiagTyped, Fresh, FreshOf, HandlerReturned, Finish, contextVars
<1>2. PICK v \in {"ok", "unanswered", "failed", "refused"} :
        /\ v = "ok" => responded[r]
        /\ v = "refused" => Calls(r, {"refused"}) # {}
        /\ \/ Return(r, v) /\ todo' = todo
           \/ /\ dispatch[r] = "waiting" /\ dispatch' = [dispatch EXCEPT ![r] = "next"]
              /\ Advance(r) /\ UNCHANGED verdict
  <2>1. CASE Finish(r)
    BY <2>1 DEF Finish
  <2>2. CASE HandlerReturned(r)
    <3>1. dispatch[r] = "waiting" /\ todo[r] # <<>> /\ Head(todo[r]) \in Handler
      BY <1>1, <2>2, TailFresh DEF HandlerReturned, DiagInv, Fresh, FreshOf
    <3>2. CASE call[r][Head(todo[r])] = "sent"
      BY <2>2, <3>1, <3>2 DEF HandlerReturned
    <3>3. CASE call[r][Head(todo[r])] # "sent"
      <4>1. /\ call[r][Head(todo[r])] \in {"refused", "failed"}
            /\ Return(r, call[r][Head(todo[r])]) /\ todo' = todo
        BY <2>2, <3>3 DEF HandlerReturned
      <4> QED  BY <3>1, <4>1 DEF Calls
    <3> QED  BY <3>2, <3>3
  <2> QED  BY <2>1, <2>2
<1>3. CASE Return(r, v) /\ todo' = todo
  <2>1. dispatch' = [dispatch EXCEPT ![r] = "returned"] /\ verdict' = [verdict EXCEPT ![r] = v]
    BY <1>3 DEF Return
  <2>2. DiagTyped'
    BY <1>1, <1>3, <2>1 DEF DiagInv, DiagTyped
  <2>3. \A q \in Request : dispatch'[q] = dispatch[q] \/ dispatch'[q] = "returned"
    BY <1>1, <2>1
  <2>4. \A q \in Request : Calls(q, {"none"})' = Calls(q, {"none"})
    BY <1>1 DEF Calls
  <2>5. Fresh'
    <3> SUFFICES ASSUME NEW q \in Request PROVE FreshOf(q)'
      BY DEF Fresh
    <3>1. FreshOf(q) /\ todo' = todo /\ call' = call
      BY <1>1, <1>3 DEF DiagInv, Fresh
    <3>2. dispatch'[q] \notin {"idle", "next", "waiting"} \/ dispatch'[q] = dispatch[q]
      BY <2>3
    <3> QED  BY ONLY <2>4, <3>1, <3>2, q \in Request DEF FreshOf
  <2>6. \A q \in Request : verdict'[q] = verdict[q] \/ (q = r /\ verdict'[q] = v)
    BY <1>1, <2>1
  <2>7. OutcomeFits'
    BY <1>1, <1>2, <2>6 DEF DiagInv, OutcomeFits, Counted
  <2> QED  BY <2>2, <2>5, <2>7
<1>4. CASE /\ dispatch[r] = "waiting" /\ dispatch' = [dispatch EXCEPT ![r] = "next"]
           /\ Advance(r) /\ UNCHANGED verdict
  <2>1. todo[r] # <<>> /\ \A n \in DOMAIN todo[r] : n # 1 => call[r][todo[r][n]] = "none"
    BY <1>4 DEF DiagInv, Fresh, FreshOf
  <2>2. /\ Tail(todo[r]) \in Seq(Handler) /\ IsInjective(Tail(todo[r]))
        /\ \A n \in DOMAIN Tail(todo[r]) : /\ n + 1 \in DOMAIN todo[r] /\ n + 1 # 1
                                           /\ Tail(todo[r])[n] = todo[r][n + 1]
    BY <1>1, <2>1, TailFresh
  <2>3. todo' = [todo EXCEPT ![r] = Tail(todo[r])]
    BY <1>4 DEF Advance
  <2>4. DiagTyped'
    <3>1. todo' \in [Request -> Seq(Handler)] /\ dispatch' \in [Request -> {"idle", "next", "waiting", "returned"}]
      BY <1>1, <1>4, <2>2, <2>3
    <3> QED  BY <1>1, <1>4, <3>1 DEF DiagInv, DiagTyped
  <2>5. OutcomeFits'
    BY <1>1, <1>4 DEF DiagInv, OutcomeFits
  <2>6. \A q \in Request : Calls(q, {"none"})' = Calls(q, {"none"})
    BY <1>1 DEF Calls
  <2>7. \A q \in Request \ {r} : todo'[q] = todo[q] /\ dispatch'[q] = dispatch[q] /\ call'[q] = call[q]
    BY <1>1, <1>4, <2>3
  <2>8. /\ todo'[r] = Tail(todo[r]) /\ dispatch'[r] = "next"
        /\ \A n \in DOMAIN todo'[r] : call'[r][todo'[r][n]] = "none"
    BY <1>1, <1>4, <2>1, <2>2, <2>3
  <2>9. FreshOf(r)'
    BY <2>2, <2>8 DEF FreshOf
  <2>10. ASSUME NEW q \in Request, q # r PROVE FreshOf(q)'
    <3>1. FreshOf(q)
      BY DEF DiagInv, Fresh
    <3>2. /\ todo'[q] = todo[q] /\ dispatch'[q] = dispatch[q] /\ call'[q] = call[q]
          /\ Calls(q, {"none"})' = Calls(q, {"none"})
      BY <2>6, <2>7, <2>10
    <3> QED  BY ONLY <3>1, <3>2 DEF FreshOf
  <2>11. Fresh'
    BY <2>9, <2>10 DEF Fresh
  <2> QED  BY <2>4, <2>5, <2>11
<1> QED  BY <1>2, <1>3, <1>4

\* Respond moves no dispatch, and its counts only grow.
LEMMA CallDiag ==
    ASSUME DiagInv, NEW r \in Request, NEW h \in Handler,
           Claim(r, h) \/ Send(r, h) \/ SendFails(r, h)
    PROVE  DiagTyped' /\ Fresh' /\ OutcomeFits'
<1>1. UNCHANGED <<requestHandlers, todo, dispatch, verdict>>
  BY DEF Claim, Send, SendFails, contextVars
<1>2. /\ responseCount' \in [Request -> Nat]
      /\ \A q \in Request : responseCount'[q] >= responseCount[q]
  <2>1. responseCount \in [Request -> Nat]
    BY DEF DiagInv, DiagTyped
  <2>2. CASE responseCount' = responseCount
    BY <2>1, <2>2
  <2>3. CASE responseCount' = [responseCount EXCEPT ![r] = responseCount[r] + 1]
    BY <2>1, <2>3
  <2> QED  BY <2>2, <2>3 DEF Claim, Send, SendFails, contextVars
<1>3. \A q \in Request : responded[q] => responded'[q]
  <2>1. responded \in [Request -> BOOLEAN]
    BY DEF DiagInv, IInv, Typed
  <2>2. responded' = responded \/ responded' = [responded EXCEPT ![r] = TRUE]
    BY DEF Claim, Send, SendFails, contextVars
  <2> QED  BY <2>1, <2>2
<1>4. responseKind' \in [Request -> Kind \cup {""}]
  <2>1. responseKind \in [Request -> Kind \cup {""}] /\ kind[r][h] \in Kind
    BY DEF DiagInv, IInv, Typed, DiagTyped
  <2>2. responseKind' = responseKind \/ responseKind' = [responseKind EXCEPT ![r] = kind[r][h]]
    BY DEF Claim, Send, SendFails, contextVars
  <2> QED  BY <2>1, <2>2
<1>5. \A q \in Request, g \in Handler : call[q][g] = "none" => call'[q][g] = "none"
  <2>1. call \in [Request -> [Handler -> CallLocation]] /\ call[r][h] # "none"
    BY DEF DiagInv, IInv, Typed, Claim, Send, SendFails
  <2>2. PICK pc \in CallLocation : call' = [call EXCEPT ![r][h] = pc]
    BY DEF Claim, Send, SendFails, CallGoes, CallLocation
  <2> QED  BY <2>1, <2>2
<1>6. DiagTyped'
  BY <1>1, <1>2, <1>4 DEF DiagInv, DiagTyped
<1>7. Grows
  BY <1>2, <1>3 DEF Grows
<1> QED  BY <1>1, <1>5, <1>6, <1>7, FreshStays, VerdictStays

LEMMA NextDiag == DiagInv /\ [Next]_vars => DiagInv'
<1> SUFFICES ASSUME DiagInv, [Next]_vars PROVE DiagInv'
  OBVIOUS
<1>1. IInv'
  BY NextIInv DEF DiagInv
<1>2. CASE UNCHANGED vars
  <2>2. DiagTyped' /\ Registered' /\ OutcomeFits'
    BY <1>2 DEF vars, contextVars, DiagInv, DiagTyped, Registered, OutcomeFits
  <2>3. Fresh'
    BY <1>2, FreshStays DEF vars
  <2> QED  BY <1>1, <1>2, <2>2, <2>3, ContextFrame DEF vars, contextVars, DiagInv
<1>3. ASSUME NEW h \in Handler, OnRequest(h) PROVE DiagInv'
  <2>1. UNCHANGED <<todo, dispatch, call, kind, contextVars, verdict, sent>>
    BY <1>3 DEF OnRequest
  <2>2. Fresh' /\ OutcomeFits'
    BY <2>1, FreshStays DEF DiagInv, OutcomeFits, contextVars
  <2> QED  BY <1>1, <1>3, <2>1, <2>2, OnRequestDiag, ContextFrame DEF DiagInv, contextVars
<1>4. ASSUME NEW r \in Request, DispatchRequest(r) PROVE DiagInv'
  <2>1. UNCHANGED <<requestHandlers, call, kind, contextVars, verdict, sent>>
    BY <1>4 DEF DispatchRequest
  <2>2. OutcomeFits' /\ Registered'
    BY <2>1 DEF DiagInv, OutcomeFits, Registered, contextVars
  <2> QED  BY <1>1, <1>4, <2>1, <2>2, DispatchDiag, ContextFrame DEF DiagInv, contextVars
<1>5. ASSUME NEW r \in Request, NEW b \in Behaviour, Invoke(r, b) PROVE DiagInv'
  <2>1. Registered'
    BY <1>5 DEF Invoke, HandlerRuns, DiagInv, Registered
  <2> QED  BY <1>1, <1>5, <2>1, InvokeDiag DEF DiagInv
<1>6. ASSUME NEW r \in Request, HandlerReturned(r) \/ Finish(r) PROVE DiagInv'
  <2>1. UNCHANGED <<requestHandlers, call, kind, contextVars, sent>>
    BY <1>6 DEF HandlerReturned, Finish
  <2>2. Registered'
    BY <2>1 DEF DiagInv, Registered
  <2> QED  BY <1>1, <1>6, <2>1, <2>2, ReturnDiag, ContextFrame DEF DiagInv, contextVars
<1>7. ASSUME NEW r \in Request, NEW h \in Handler, Claim(r, h) \/ Send(r, h) \/ SendFails(r, h)
      PROVE  DiagInv'
  <2>1. Registered'
    BY <1>7 DEF Claim, Send, SendFails, DiagInv, Registered
  <2> QED  BY <1>1, <1>7, <2>1, CallDiag, ClaimContext, SendContext DEF DiagInv
<1> QED  BY <1>2, <1>3, <1>4, <1>5, <1>6, <1>7 DEF Next

-----------------------------------------------------------------------------
(* The handlers that ran.                                                  *)

Registrations(r) == Len(HandlersFor(Method[r]))

\* How many handlers are counted, by where the dispatch is: those counted and
\* those still to run are no more than the method has.
CountedSoFar(r) ==
    /\ dispatch[r] = "idle" => handlerInvoked[r] = 0
    /\ dispatch[r] = "next" => handlerInvoked[r] + Len(todo[r]) <= Registrations(r)
    /\ dispatch[r] = "waiting" => handlerInvoked[r] + Len(todo[r]) <= Registrations(r) + 1
    /\ dispatch[r] = "returned" => handlerInvoked[r] <= Registrations(r)

\* Every handler that called was counted.
CallersCounted(r) == IsFiniteSet(Callers(r)) /\ Cardinality(Callers(r)) <= handlerInvoked[r]

\* While nobody has been let through, only goroutines have called, but for the
\* handler the dispatch is waiting for.
OnlyAsync(r) ==
    /\ dispatch[r] = "next" /\ ~responded[r] => \A h \in Callers(r) : "async" \in Behaviours[h]
    /\ dispatch[r] = "waiting" /\ ~responded[r] =>
          \A h \in Callers(r) : h # Head(todo[r]) => "async" \in Behaviours[h]
    /\ verdict[r] = "unanswered" => \A h \in Callers(r) : "async" \in Behaviours[h]
    /\ verdict[r] # "none" => dispatch[r] = "returned"

\* The inductive invariant of the handlers that ran, on top of DiagInv.
RanOf(r) == CountedSoFar(r) /\ CallersCounted(r) /\ OnlyAsync(r)
RanInv == handlerInvoked \in [Request -> Nat] /\ \A r \in Request : RanOf(r)

LEMMA RanIsDiagnostics ==
    ASSUME DiagInv, RanInv
    PROVE  DiagnosticsTrue /\ VerdictFits
<1>1. \A r \in Request : Told(r)
  BY DEF DiagInv, AllTold
<1>2. ASSUME NEW r \in Request
      PROVE  Cardinality(Callers(r)) <= handlerInvoked[r] /\ handlerInvoked[r] <= Registrations(r)
  <2>1. /\ CountedSoFar(r) /\ CallersCounted(r) /\ handlerInvoked[r] \in Nat
        /\ dispatch[r] \in {"idle", "next", "waiting", "returned"}
    BY DEF RanInv, RanOf, DiagInv, DiagTyped
  <2>2. HandlersFor(Method[r]) \in Seq(Handler) /\ todo[r] \in Seq(Handler)
    BY HandlersForOnce DEF DiagInv, DiagTyped
  <2>3. Registrations(r) \in Nat /\ Len(todo[r]) \in Nat
    BY <2>2 DEF Registrations
  <2>4. dispatch[r] = "waiting" => Len(todo[r]) >= 1
    <3>1. dispatch[r] = "waiting" => todo[r] # <<>>
      BY DEF DiagInv, Fresh, FreshOf
    <3> QED  BY <2>2, <3>1
  <2> QED  BY <2>1, <2>3, <2>4 DEF CountedSoFar, CallersCounted
<1>3. DiagnosticsTrue
  BY <1>1, <1>2 DEF DiagnosticsTrue, Told, AllCalls, Registrations
<1>4. VerdictFits
  BY DEF VerdictFits, RanInv, RanOf, OnlyAsync, DiagInv, OutcomeFits
<1> QED  BY <1>3, <1>4

LEMMA InitRan == Init => RanInv
<1> SUFFICES ASSUME Init PROVE RanInv
  OBVIOUS
<1>1. \A r \in Request : Callers(r) = {}
  BY DEF Init, Callers, Calls
<1>2. IsFiniteSet({}) /\ Cardinality({}) = 0
  BY FS_EmptySet
<1>3. handlerInvoked \in [Request -> Nat] /\ \A r \in Request : dispatch[r] = "idle" /\ handlerInvoked[r] = 0
  BY DEF Init
<1>4. \A r \in Request : verdict[r] = "none"
  BY DEF Init
<1>5. ASSUME NEW r \in Request PROVE RanOf(r)
  <2>1. CountedSoFar(r)
    BY <1>3 DEF CountedSoFar
  <2>2. CallersCounted(r)
    BY <1>1, <1>2, <1>3 DEF CallersCounted
  <2>3. OnlyAsync(r)
    BY <1>1, <1>3, <1>4 DEF OnlyAsync
  <2> QED  BY <2>1, <2>2, <2>3 DEF RanOf
<1> QED  BY <1>3, <1>5 DEF RanInv

\* A step that runs no handler and ends no dispatch, and after which no fewer
\* handlers are registered and no handler has called that had not.
LEMMA RanFrame ==
    ASSUME DiagInv, RanInv, NEW r \in Request,
           todo'[r] = todo[r], dispatch'[r] = dispatch[r], verdict'[r] = verdict[r],
           handlerInvoked'[r] = handlerInvoked[r], responded[r] => responded'[r],
           Callers(r)' = Callers(r), Registrations(r)' \in Nat, Registrations(r)' >= Registrations(r)
    PROVE  RanOf(r)'
<1>1. /\ RanOf(r) /\ handlerInvoked[r] \in Nat
      /\ todo[r] \in Seq(Handler) /\ HandlersFor(Method[r]) \in Seq(Handler)
  BY HandlersForOnce DEF RanInv, DiagInv, DiagTyped
<1>2. Len(todo[r]) \in Nat /\ Registrations(r) \in Nat
  BY <1>1 DEF Registrations
<1>3. CountedSoFar(r)'
  BY <1>1, <1>2 DEF RanOf, CountedSoFar
<1>4. CallersCounted(r)'
  BY <1>1 DEF RanOf, CallersCounted
<1>5. OnlyAsync(r)'
  BY <1>1 DEF RanOf, OnlyAsync
<1> QED  BY <1>3, <1>4, <1>5 DEF RanOf

LEMMA RegistrationsStay ==
    ASSUME DiagInv, UNCHANGED requestHandlers, NEW r \in Request
    PROVE  Registrations(r)' = Registrations(r) /\ Registrations(r) \in Nat
<1>1. HandlersFor(Method[r]) \in Seq(Handler)
  BY HandlersForOnce
<1>2. Registrations(r) \in Nat
  BY <1>1, LenProperties DEF Registrations
<1>3. Registrations(r)' = Registrations(r)
  BY DEF Registrations, HandlersFor
<1> QED  BY <1>2, <1>3

\* A handler more is registered, with one method.
LEMMA RegistrationsGrow ==
    ASSUME DiagInv, NEW h \in Handler, OnRequest(h), NEW r \in Request
    PROVE  Registrations(r)' \in Nat /\ Registrations(r)' >= Registrations(r)
<1>1. /\ MethodOf[h] \in Methods /\ Method[r] \in Methods /\ "*" \in Methods
      /\ requestHandlers \in [Methods -> Seq(Handler)]
      /\ requestHandlers' = [requestHandlers EXCEPT ![MethodOf[h]] = Append(@, h)]
  BY DEF OnRequest, Methods, DiagInv, DiagTyped
<1>2. ASSUME NEW m \in Methods
      PROVE  /\ requestHandlers[m] \in Seq(Handler) /\ requestHandlers'[m] \in Seq(Handler)
             /\ Len(requestHandlers'[m]) >= Len(requestHandlers[m])
             /\ Len(requestHandlers'[m]) \in Nat /\ Len(requestHandlers[m]) \in Nat
  <2>1. requestHandlers[m] \in Seq(Handler) /\ Len(requestHandlers[m]) \in Nat
    BY <1>1
  <2>2. requestHandlers'[m] = requestHandlers[m] \/ requestHandlers'[m] = Append(requestHandlers[m], h)
    BY <1>1
  <2>3. /\ Append(requestHandlers[m], h) \in Seq(Handler)
        /\ Len(Append(requestHandlers[m], h)) = Len(requestHandlers[m]) + 1
    BY <2>1
  <2> QED  BY <2>1, <2>2, <2>3
<1>3. /\ Len(requestHandlers[Method[r]] \o requestHandlers["*"])
           = Len(requestHandlers[Method[r]]) + Len(requestHandlers["*"])
      /\ Len(requestHandlers'[Method[r]] \o requestHandlers'["*"])
           = Len(requestHandlers'[Method[r]]) + Len(requestHandlers'["*"])
  BY <1>1, <1>2, ConcatProperties
<1>4. /\ Registrations(r) = Len(requestHandlers[Method[r]]) + Len(requestHandlers["*"])
      /\ Registrations(r)' = Len(requestHandlers'[Method[r]]) + Len(requestHandlers'["*"])
  BY <1>3 DEF Registrations, HandlersFor
<1> DEFINE a == Len(requestHandlers[Method[r]])
           b == Len(requestHandlers'[Method[r]])
           c == Len(requestHandlers["*"])
           d == Len(requestHandlers'["*"])
<1>5. Registrations(r) = a + c /\ Registrations(r)' = b + d
  BY <1>4
<1>6. a \in Nat /\ b \in Nat /\ c \in Nat /\ d \in Nat /\ b >= a /\ d >= c
  BY <1>1, <1>2
<1> HIDE DEF a, b, c, d
<1> QED  BY ONLY <1>5, <1>6

\* The handlers are copied.
LEMMA RanDispatch ==
    ASSUME DiagInv, RanInv, NEW r \in Request, DispatchRequest(r)
    PROVE  RanOf(r)'
<1>1. /\ dispatch[r] = "idle" /\ dispatch' = [dispatch EXCEPT ![r] = "next"]
      /\ todo' = [todo EXCEPT ![r] = HandlersFor(Method[r])]
      /\ UNCHANGED <<requestHandlers, call, verdict, handlerInvoked>>
  BY DEF DispatchRequest, contextVars
<1>2. /\ dispatch'[r] = "next" /\ todo'[r] = HandlersFor(Method[r])
  BY <1>1 DEF DiagInv, DiagTyped
<1>3. /\ RanOf(r) /\ handlerInvoked[r] = 0 /\ verdict[r] = "none"
  BY <1>1 DEF RanInv, RanOf, CountedSoFar, OnlyAsync
<1>4. Callers(r)' = {} /\ Callers(r) = {}
  <2>1. \A h \in Handler : call[r][h] = "none"
    BY <1>1 DEF DiagInv, Fresh, FreshOf, Calls
  <2> QED  BY <1>1, <2>1 DEF Callers, Calls
<1>5. Registrations(r)' = Registrations(r) /\ Registrations(r) \in Nat
  BY <1>1, RegistrationsStay
<1>6. CountedSoFar(r)'
  BY <1>1, <1>2, <1>3, <1>5 DEF CountedSoFar, Registrations
<1>7. CallersCounted(r)'
  BY <1>1, <1>3, <1>4 DEF RanOf, CallersCounted
<1>8. OnlyAsync(r)'
  BY <1>1, <1>2, <1>3, <1>4 DEF OnlyAsync
<1> QED  BY <1>6, <1>7, <1>8 DEF RanOf

\* A handler runs: it is counted, and it calls or not.
LEMMA RanInvoke ==
    ASSUME DiagInv, RanInv, NEW r \in Request, NEW b \in Behaviour, Invoke(r, b)
    PROVE  RanOf(r)'
<1> DEFINE h == Head(todo[r])
<1>1. /\ todo \in [Request -> Seq(Handler)] /\ todo[r] \in Seq(Handler) /\ todo[r] # <<>>
      /\ dispatch \in [Request -> {"idle", "next", "waiting", "returned"}] /\ dispatch[r] = "next"
      /\ verdict \in [Request -> {"none", "ok", "unanswered", "failed", "refused"}]
      /\ call \in [Request -> [Handler -> CallLocation]]
      /\ handlerInvoked \in [Request -> Nat]
      /\ handlerInvoked' = [handlerInvoked EXCEPT ![r] = handlerInvoked[r] + 1]
      /\ UNCHANGED <<requestHandlers, responded>>
      /\ b \in Behaviours[h] /\ h \in Handler
  <2>1. /\ todo \in [Request -> Seq(Handler)] /\ todo[r] # <<>>
        /\ dispatch \in [Request -> {"idle", "next", "waiting", "returned"}] /\ dispatch[r] = "next"
        /\ verdict \in [Request -> {"none", "ok", "unanswered", "failed", "refused"}]
        /\ call \in [Request -> [Handler -> CallLocation]]
        /\ handlerInvoked \in [Request -> Nat] /\ b \in Behaviours[h]
    BY DEF Invoke, HandlerRuns, DiagInv, IInv, Typed, DiagTyped, RanInv
  <2>2. /\ handlerInvoked' = [handlerInvoked EXCEPT ![r] = handlerInvoked[r] + 1]
        /\ UNCHANGED <<requestHandlers, responded>>
    BY DEF Invoke, HandlerRuns
  <2>3. todo[r] \in Seq(Handler) /\ h \in Handler
    BY <2>1, HeadTailProperties
  <2> QED  BY <2>1, <2>2, <2>3
<1>2. /\ RanOf(r) /\ verdict[r] = "none" /\ handlerInvoked[r] \in Nat
      /\ handlerInvoked'[r] = handlerInvoked[r] + 1
  BY <1>1 DEF RanInv, RanOf, OnlyAsync
<1>3. /\ Len(todo[r]) \in Nat /\ Len(todo[r]) >= 1 /\ Len(Tail(todo[r])) = Len(todo[r]) - 1
      /\ Registrations(r)' = Registrations(r) /\ Registrations(r) \in Nat
      /\ handlerInvoked[r] + Len(todo[r]) <= Registrations(r)
  BY <1>1, <1>2, RegistrationsStay DEF RanOf, CountedSoFar
<1> HIDE DEF h
<1>4. \/ /\ todo'[r] = Tail(todo[r]) /\ dispatch'[r] = "next" /\ verdict'[r] = "none"
         /\ call' = call
      \/ /\ todo'[r] = Tail(todo[r]) /\ dispatch'[r] = "next" /\ verdict'[r] = "none"
         /\ call' = [call EXCEPT ![r][h] = "claim"] /\ "async" \in Behaviours[h]
      \/ /\ dispatch'[r] = "returned" /\ verdict'[r] = "failed" /\ call' = call
      \/ /\ todo'[r] = todo[r] /\ dispatch'[r] = "waiting" /\ verdict'[r] = "none"
         /\ call' = [call EXCEPT ![r][h] = "claim"]
  <2>1. CASE b = "ignore"
    BY <1>1, <1>2, <2>1 DEF Invoke, HandlerRuns, Advance
  <2>2. CASE b = "fail"
    BY <1>1, <1>2, <2>2 DEF Invoke, HandlerRuns, Return
  <2>3. CASE b = "async"
    BY <1>1, <1>2, <2>3 DEF Invoke, HandlerRuns, Advance, Answer, h
  <2>4. CASE b \notin {"ignore", "fail", "async"}
    BY <1>1, <1>2, <2>4 DEF Invoke, HandlerRuns, Answer, h
  <2> QED  BY <2>1, <2>2, <2>3, <2>4
<1>5. /\ call' = call => Callers(r)' = Callers(r)
      /\ call' = [call EXCEPT ![r][h] = "claim"] => Callers(r)' = Callers(r) \cup {h}
  BY <1>1 DEF Callers, Calls, CallLocation
<1>6. CountedSoFar(r)'
  <2>1. CASE todo'[r] = Tail(todo[r]) /\ dispatch'[r] = "next"
    BY <1>2, <1>3, <2>1 DEF CountedSoFar
  <2>2. CASE dispatch'[r] = "returned"
    BY <1>2, <1>3, <2>2 DEF CountedSoFar
  <2>3. CASE todo'[r] = todo[r] /\ dispatch'[r] = "waiting"
    BY <1>2, <1>3, <2>3 DEF CountedSoFar
  <2> QED  BY <1>4, <2>1, <2>2, <2>3
<1>7. CallersCounted(r)'
  <2>1. IsFiniteSet(Callers(r)) /\ Cardinality(Callers(r)) <= handlerInvoked[r] /\ Cardinality(Callers(r)) \in Nat
    BY <1>2, FS_CardinalityType DEF RanOf, CallersCounted
  <2>2. /\ IsFiniteSet(Callers(r) \cup {h})
        /\ Cardinality(Callers(r) \cup {h}) \in {Cardinality(Callers(r)), Cardinality(Callers(r)) + 1}
    BY <2>1, FS_AddElement
  <2>3. Callers(r)' \in {Callers(r), Callers(r) \cup {h}}
    BY <1>4, <1>5
  <2> DEFINE c == Callers(r)
             d == Callers(r)'
  <2>5. /\ IsFiniteSet(c) /\ Cardinality(c) <= handlerInvoked[r] /\ Cardinality(c) \in Nat
        /\ IsFiniteSet(c \cup {h})
        /\ Cardinality(c \cup {h}) \in {Cardinality(c), Cardinality(c) + 1}
        /\ d = c \/ d = c \cup {h}
    BY <2>1, <2>2, <2>3
  <2> HIDE DEF c, d
  <2>4. IsFiniteSet(d) /\ Cardinality(d) <= handlerInvoked[r] + 1
    <3>1. CASE d = c
      BY <1>2, <2>5, <3>1
    <3>2. CASE d = c \cup {h}
      BY <1>2, <2>5, <3>2
    <3> QED  BY <2>5, <3>1, <3>2
  <2> QED  BY <1>2, <2>4 DEF CallersCounted, d
<1>8. OnlyAsync(r)'
  <2>1. responded'[r] = responded[r] /\ (~responded[r] => \A g \in Callers(r) : "async" \in Behaviours[g])
    BY <1>1, <1>2 DEF RanOf, OnlyAsync
  <2>2. CASE call' = call /\ dispatch'[r] \in {"next", "returned"} /\ verdict'[r] # "unanswered"
             /\ (dispatch'[r] = "next" => verdict'[r] = "none")
    BY <1>5, <2>1, <2>2 DEF OnlyAsync
  <2>3. CASE /\ call' = [call EXCEPT ![r][h] = "claim"] /\ "async" \in Behaviours[h]
             /\ dispatch'[r] = "next" /\ verdict'[r] = "none"
    BY <1>5, <2>1, <2>3 DEF OnlyAsync
  <2>4. CASE /\ call' = [call EXCEPT ![r][h] = "claim"] /\ todo'[r] = todo[r]
             /\ dispatch'[r] = "waiting" /\ verdict'[r] = "none"
    BY <1>5, <2>1, <2>4 DEF OnlyAsync, h
  <2> QED  BY <1>4, <2>2, <2>3, <2>4
<1> QED  BY <1>6, <1>7, <1>8 DEF RanOf

\* A handler has answered, or all have run.
LEMMA RanReturn ==
    ASSUME DiagInv, RanInv, NEW r \in Request, HandlerReturned(r) \/ Finish(r)
    PROVE  RanOf(r)'
<1>1. /\ todo \in [Request -> Seq(Handler)] /\ todo[r] \in Seq(Handler)
      /\ dispatch \in [Request -> {"idle", "next", "waiting", "returned"}]
      /\ verdict \in [Request -> {"none", "ok", "unanswered", "failed", "refused"}]
      /\ handlerInvoked[r] \in Nat
      /\ UNCHANGED <<requestHandlers, call, responded, handlerInvoked>>
      /\ RanOf(r) /\ dispatch[r] \in {"next", "waiting"} /\ verdict[r] = "none"
  BY DEF HandlerReturned, Finish, DiagInv, DiagTyped, RanInv, RanOf, OnlyAsync, contextVars
<1>2. Callers(r)' = Callers(r)
  BY <1>1 DEF Callers, Calls
<1>3. Registrations(r)' = Registrations(r) /\ Registrations(r) \in Nat /\ Len(todo[r]) \in Nat
  BY <1>1, RegistrationsStay
<1>4. CallersCounted(r)'
  BY <1>1, <1>2 DEF RanOf, CallersCounted
<1>5. CASE Finish(r)
  <2>1. /\ dispatch[r] = "next" /\ dispatch'[r] = "returned"
        /\ verdict'[r] = IF responded[r] THEN "ok" ELSE "unanswered"
    BY <1>1, <1>5 DEF Finish, Return
  <2>2. CountedSoFar(r)'
    BY <1>1, <1>3, <2>1 DEF RanOf, CountedSoFar
  <2>3. OnlyAsync(r)'
    BY <1>1, <1>2, <2>1 DEF RanOf, OnlyAsync
  <2> QED  BY <1>4, <2>2, <2>3 DEF RanOf
<1>6. CASE HandlerReturned(r)
  <2> DEFINE h == Head(todo[r])
  <2>1. dispatch[r] = "waiting" /\ todo[r] # <<>> /\ h \in Handler
    BY <1>1, <1>6 DEF HandlerReturned, DiagInv, Fresh, FreshOf
  <2>2. Len(todo[r]) >= 1 /\ Len(Tail(todo[r])) = Len(todo[r]) - 1
    BY <1>1, <2>1
  <2>3. CASE call[r][h] = "sent"
    <3>1. dispatch'[r] = "next" /\ todo'[r] = Tail(todo[r]) /\ verdict'[r] = "none"
      BY <1>1, <1>6, <2>3 DEF HandlerReturned, Advance
    <3>2. responded[r]
      <4>1. h \in Calls(r, Attempt)
        BY <2>1, <2>3 DEF Calls, Attempt
      <4> QED  BY <4>1 DEF DiagInv, AllTold, Told
    <3>3. CountedSoFar(r)'
      BY <1>1, <1>3, <2>1, <2>2, <3>1 DEF RanOf, CountedSoFar
    <3>4. OnlyAsync(r)'
      BY <1>1, <3>1, <3>2 DEF OnlyAsync
    <3> QED  BY <1>4, <3>3, <3>4 DEF RanOf
  <2>4. CASE call[r][h] # "sent"
    <3>1. dispatch'[r] = "returned" /\ verdict'[r] \in {"refused", "failed"}
      BY <1>1, <1>6, <2>4 DEF HandlerReturned, Return
    <3>2. CountedSoFar(r)'
      BY <1>1, <1>3, <2>1, <2>2, <3>1 DEF RanOf, CountedSoFar
    <3>3. OnlyAsync(r)'
      BY <3>1 DEF OnlyAsync
    <3> QED  BY <1>4, <3>2, <3>3 DEF RanOf
  <2> QED  BY <2>3, <2>4
<1> QED  BY <1>5, <1>6

LEMMA NextRan == DiagInv /\ RanInv /\ [Next]_vars => RanInv'
<1> SUFFICES ASSUME DiagInv, RanInv, [Next]_vars PROVE RanInv'
  OBVIOUS
<1>2. ASSUME NEW r \in Request, UNCHANGED requestHandlers, handlerInvoked' \in [Request -> Nat], RanOf(r)',
             \A q \in Request \ {r} :
                 /\ todo'[q] = todo[q] /\ dispatch'[q] = dispatch[q] /\ verdict'[q] = verdict[q]
                 /\ handlerInvoked'[q] = handlerInvoked[q] /\ responded'[q] = responded[q]
                 /\ Callers(q)' = Callers(q)
      PROVE  RanInv'
  <2>1. ASSUME NEW q \in Request, q # r PROVE RanOf(q)'
    <3>1. Registrations(q)' \in Nat /\ Registrations(q)' >= Registrations(q)
      BY <1>2, RegistrationsStay
    <3> QED  BY <1>2, <2>1, <3>1, RanFrame
  <2> QED  BY <1>2, <2>1 DEF RanInv
<1>3. ASSUME NEW r \in Request, DispatchRequest(r) PROVE RanInv'
  <2>1. RanOf(r)'
    BY <1>3, RanDispatch
  <2>2. \A q \in Request : Callers(q)' = Callers(q)
    BY <1>3 DEF DispatchRequest, Callers, Calls
  <2> QED  BY <1>2, <1>3, <2>1, <2>2 DEF DispatchRequest, contextVars, RanInv, DiagInv, DiagTyped
<1>4. ASSUME NEW r \in Request, HandlerReturned(r) \/ Finish(r) PROVE RanInv'
  <2>1. RanOf(r)'
    BY <1>4, RanReturn
  <2>2. \A q \in Request : Callers(q)' = Callers(q)
    BY <1>4 DEF HandlerReturned, Finish, Callers, Calls
  <2>3. /\ todo \in [Request -> Seq(Handler)] /\ DOMAIN dispatch = Request /\ DOMAIN verdict = Request
        /\ handlerInvoked \in [Request -> Nat]
    BY DEF DiagInv, DiagTyped, RanInv
  <2>4. /\ UNCHANGED <<requestHandlers, handlerInvoked, responded>>
        /\ \A q \in Request \ {r} :
             todo'[q] = todo[q] /\ dispatch'[q] = dispatch[q] /\ verdict'[q] = verdict[q]
    BY <1>4, <2>3 DEF HandlerReturned, Finish, Return, Advance, contextVars
  <2> QED  BY <1>2, <2>1, <2>2, <2>3, <2>4
<1>5. ASSUME NEW r \in Request, NEW b \in Behaviour, Invoke(r, b) PROVE RanInv'
  <2> DEFINE h == Head(todo[r])
  <2>1. RanOf(r)'
    BY <1>5, RanInvoke
  <2>2. /\ todo \in [Request -> Seq(Handler)] /\ DOMAIN dispatch = Request /\ DOMAIN verdict = Request
        /\ handlerInvoked \in [Request -> Nat] /\ call \in [Request -> [Handler -> CallLocation]]
    BY DEF DiagInv, IInv, Typed, DiagTyped, RanInv
  <2>3. /\ UNCHANGED <<requestHandlers, responded>>
        /\ handlerInvoked' = [handlerInvoked EXCEPT ![r] = @ + 1]
        /\ todo' = todo \/ todo' = [todo EXCEPT ![r] = Tail(@)]
        /\ dispatch' = dispatch \/ \E v : dispatch' = [dispatch EXCEPT ![r] = v]
        /\ verdict' = verdict \/ \E v : verdict' = [verdict EXCEPT ![r] = v]
        /\ call' = call \/ call' = [call EXCEPT ![r][h] = "claim"]
    BY <1>5 DEF Invoke, HandlerRuns, Advance, Return, Answer, Behaviour
  <2> HIDE DEF h
  <2>4. \A q \in Request \ {r} :
           /\ todo'[q] = todo[q] /\ dispatch'[q] = dispatch[q] /\ verdict'[q] = verdict[q]
           /\ handlerInvoked'[q] = handlerInvoked[q] /\ call'[q] = call[q]
    BY <2>2, <2>3
  <2>5. \A q \in Request \ {r} : Callers(q)' = Callers(q)
    BY <2>4 DEF Callers, Calls
  <2>6. handlerInvoked' \in [Request -> Nat]
    BY <2>2, <2>3
  <2> QED  BY <1>2, <2>1, <2>3, <2>4, <2>5, <2>6
<1>6. ASSUME NEW r \in Request, NEW h \in Handler, Claim(r, h) \/ Send(r, h) \/ SendFails(r, h)
      PROVE  RanInv'
  <2>1. /\ UNCHANGED <<requestHandlers, todo, dispatch, handlerInvoked, verdict>>
        /\ responded' = responded \/ responded' = [responded EXCEPT ![r] = TRUE]
        /\ \E pc \in CallLocation \ {"none"} : call' = [call EXCEPT ![r][h] = pc]
        /\ call[r][h] # "none"
    BY <1>6 DEF Claim, Send, SendFails, CallGoes, CallLocation, contextVars
  <2>2. call \in [Request -> [Handler -> CallLocation]] /\ responded \in [Request -> BOOLEAN]
    BY DEF DiagInv, IInv, Typed
  <2>3. \A q \in Request : Callers(q)' = Callers(q)
    BY <2>1, <2>2 DEF Callers, Calls
  <2>4. \A q \in Request : responded[q] => responded'[q]
    BY <2>1, <2>2
  <2>5. \A q \in Request : Registrations(q)' \in Nat /\ Registrations(q)' >= Registrations(q)
    BY <2>1, RegistrationsStay
  <2> QED  BY <2>1, <2>3, <2>4, <2>5, RanFrame DEF RanInv
<1>7. ASSUME NEW h \in Handler, OnRequest(h) PROVE RanInv'
  <2>1. UNCHANGED <<todo, dispatch, verdict, handlerInvoked, responded, call>>
    BY <1>7 DEF OnRequest, contextVars
  <2>2. \A r : Callers(r)' = Callers(r)
    BY <2>1 DEF Callers, Calls
  <2>3. \A r \in Request : RanOf(r)'
    BY <1>7, <2>1, <2>2, RegistrationsGrow, RanFrame
  <2> QED  BY <2>1, <2>3 DEF RanInv
<1>8. CASE UNCHANGED vars
  <2>1. UNCHANGED <<requestHandlers, todo, dispatch, verdict, handlerInvoked, responded, call>>
    BY <1>8 DEF vars, contextVars
  <2>2. \A r \in Request :
          /\ Callers(r)' = Callers(r)
          /\ Registrations(r)' \in Nat /\ Registrations(r)' >= Registrations(r)
    BY <2>1, RegistrationsStay DEF Callers, Calls
  <2>3. \A r \in Request : RanOf(r)'
    BY <2>1, <2>2, RanFrame
  <2> QED  BY <2>1, <2>3 DEF RanInv
<1> QED  BY <1>3, <1>4, <1>5, <1>6, <1>7, <1>8 DEF Next

\* For any handlers and requests: RequestContext's diagnostics name the response
\* that was let through, count every attempt (context.go) and, however the
\* answers of handlers on and off the dispatching goroutine interleave and
\* handlers are registered meanwhile, count no fewer handlers than called and no
\* more than the method has.
THEOREM DiagnosticsTellTruth == Spec => []DiagnosticsTrue
<1>1. DiagInv /\ RanInv => DiagnosticsTrue
  BY RanIsDiagnostics
<1> QED  BY InitDiag, NextDiag, InitRan, NextRan, <1>1, PTL DEF Spec

\* DispatchRequest returns nil only for a request that was answered,
\* ErrRequestAlreadyResponded only when somebody else's attempt came first, and
\* that nobody answered only when what calls there are came from goroutines.
THEOREM VerdictsFit == Spec => []VerdictFits
<1>1. DiagInv /\ RanInv => VerdictFits
  BY RanIsDiagnostics
<1> QED  BY InitDiag, NextDiag, InitRan, NextRan, <1>1, PTL DEF Spec
=============================================================================
