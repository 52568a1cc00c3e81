------------------------------ MODULE EventMatch ------------------------------
(***************************************************************************)
(* Which events an event waiter of pkg/js takes: the filters of waitFor    *)
(* and of thread.turn.waitCompleted, with the identifier extraction of     *)
(* module_codex.go.  Pure functions over the parameters of an event.       *)
(***************************************************************************)
EXTENDS Sequences

None == ""          \* a string that is absent

\* The parts of a params object that identifiers are read from; turn and
\* thread are nested objects, NoObject when absent.
NoObject == <<>>
Object(threadId, turnId, id, turn) ==
    [threadId |-> threadId, turnId |-> turnId, id |-> id, turn |-> turn, thread |-> NoObject]

FirstSet(s) == LET given == SelectSeq(s, LAMBDA x : x # None)
               IN IF given = <<>> THEN None ELSE given[1]

ExtractThreadID(o) ==
    FirstSet(<<o.threadId, o.id>> \o
             (IF o.thread = NoObject THEN <<>> ELSE <<o.thread.threadId, o.thread.id>>))

\* A turn object nests no further turn, and no params object nests another one
\* under `params', the last place the code looks at.
ExtractTurnID(o) ==
    FirstSet(<<o.turnId, o.id>> \o
             (IF o.turn = NoObject THEN <<>> ELSE <<o.turn.turnId, o.turn.id>>))

\* waitForTurnCompleted's predicate for the handle of threadID; turnID is None
\* when the script asks for any turn.
TurnMatches(o, threadID, turnID) ==
    LET nested   == o.turn # NoObject
        evThread == FirstSet(<<ExtractThreadID(o)>> \o
                             (IF nested THEN <<ExtractThreadID(o.turn)>> ELSE <<>>))
    IN /\ o # Object(None, None, None, NoObject)
       /\ evThread \in {None, threadID}
       /\ turnID \in {None, ExtractTurnID(o)}

\* A wait has a method, the kinds of event it takes, the handle's thread and
\* the turn of a waitCompleted, and what its JavaScript predicate does.
Predicate == {"absent", "true", "false", "throws"}

\* tryMatchAndSettleWaiter: what event e does to a waiter with this wait.
Verdict(wait, e) ==
    CASE e.method # wait.method \/ e.kind \notin wait.kinds                    -> "skip"
      [] wait.thread # None /\ ~TurnMatches(e.params, wait.thread, wait.turn)  -> "skip"
      [] OTHER -> CASE wait.where = "throws" -> "reject"
                    [] wait.where = "false"  -> "skip"
                    [] OTHER                 -> "resolve"
=============================================================================
