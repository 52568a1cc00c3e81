----------------------------- MODULE MCHarnessRun -----------------------------
(* Instances of HarnessRun for TLC.                                        *)
EXTENDS HarnessRun

TurnParams == Object("t1", "u1", None, NoObject)
Turn(kind) == [kind |-> kind, method |-> "turn/completed", params |-> TurnParams]

\* The end of a turn, and a request of the server.
RunEvents == {Turn("notification"), Turn("request")}

\* Both flags, or none.
RunFlags == {[wait |-> b, fail |-> b] : b \in BOOLEAN}

\* waitCompleted of that turn.
RunWaits == {[method |-> "turn/completed", kinds |-> {"notification"},
              thread |-> "t1", turn |-> "u1", where |-> "absent"]}
=============================================================================
