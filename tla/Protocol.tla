------------------------------- MODULE Protocol -------------------------------
(***************************************************************************)
(* The envelope of pkg/codexrpc/protocol.go, reduced to what tells its     *)
(* kinds apart: whether it has an id, a method, and a result or an error.  *)
(***************************************************************************)

Envelope == [id : BOOLEAN, method : BOOLEAN, body : BOOLEAN]

NewRequest      == [id |-> TRUE,  method |-> TRUE,  body |-> FALSE]
NewNotification == [id |-> FALSE, method |-> TRUE,  body |-> FALSE]

\* encodeRaw drops a nil result: the response has no body then.
NewResponse(result) == [id |-> TRUE, method |-> FALSE, body |-> result]
NewErrorResponse    == [id |-> TRUE, method |-> FALSE, body |-> TRUE]

IsResponse(m)     == m.id /\ ~m.method /\ m.body
IsRequest(m)      == m.id /\ m.method
IsNotification(m) == ~m.id /\ m.method
=============================================================================
