------------------------- MODULE RpcClientRefinement -------------------------
(***************************************************************************)
(* RpcClient implements RpcCall: the refinement mapping.                   *)
(***************************************************************************)
EXTENDS RpcClient

\* Inside a call, the kind of the operation is all its caller is promised by.
Phase(c) == IF callPc[c] = "idle" THEN "idle"
            ELSE IF op[c] \in Requests THEN "request" ELSE "notification"
Phases == [c \in Caller |-> Phase(c)]

SentIds == {wire[k].id : k \in {k \in 1 .. Len(wire) : wire[k].op \in Requests}}

\* The answers that count: among the messages Recv returned, the first response
\* to each id.
IsFirst(k) == /\ output[k].kind = "response"
              /\ \A j \in 1 .. k-1 : ~Answers(output[j], output[k].id)
Verdict(k) == IF output[k].ok THEN "ok" ELSE "error"
FirstAnswers == {<<output[k].id, Verdict(k)>> : k \in {k \in 1 .. consumed : IsFirst(k)}}

Promise == INSTANCE RpcCall WITH
    Result  <- {"ok", "error"},
    phase   <- Phases,
    request <- id,
    last    <- nextID,
    sent    <- SentIds,
    answers <- FirstAnswers,
    closing <- once # "fresh"

\* Whatever the callers, the read loop, Close and the server do between them, a
\* call behaves as promised: ids are never used twice, a request is sent at most
\* once and returns the first answer to its own id.
ImplementsRpcCall == Promise!CallSpec

\* A call returns once its answer was received or the client is being closed,
\* wherever in the call its goroutine is.
CallsReturn == Promise!CallsReturn
=============================================================================
