----------------------------- MODULE MCJsRuntime -----------------------------
(* Instances of JsRuntime for TLC.                                         *)
EXTENDS JsRuntime

Completed(params) == [kind |-> "notification", method |-> "turn/completed", params |-> params]
Asks(method) == [kind |-> "request", method |-> method,
                 params |-> Object("t1", "u1", None, NoObject)]
Turn(u) == Object(None, None, u, NoObject)

\* A turn named by a nested turn object, and the same method sent as a request.
TurnEvents == {Completed(Object("t1", None, None, Turn("u1"))), Asks("turn/completed")}

WaitCompleted(t, u) == [method |-> "turn/completed", kinds |-> {"notification"},
                        thread |-> t, turn |-> u, where |-> "absent"]
WaitForAny(where)   == [method |-> "turn/completed", kinds |-> Kinds,
                        thread |-> None, turn |-> None, where |-> where]

TurnWaits == {WaitCompleted("t1", "u1"), WaitForAny("throws")}
OneWait   == {WaitCompleted("t1", "u1")}

\* An approval request, and an event of the user interface.
ApprovalEvents == {Asks("item/fileChange/requestApproval"),
                   [kind |-> "ui", method |-> "harness", params |-> NoObject]}

\* turn/completed as in the walk-through of the guide.
GuideEvents == {Completed(Object(None, None, None, Turn("u1")))}

NoWaits == {}
=============================================================================
