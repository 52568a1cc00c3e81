------------------------------ MODULE MCBuiltins ------------------------------
(* Instances of Builtins for TLC.                                          *)
EXTENDS Builtins

CONSTANTS g1, g2, t1, u1

Notification(method, turn, completed, level) ==
    [method |-> method, thread |-> t1, turn |-> turn, completed |-> completed, level |-> level]

\* A plan and its repeats, turns that complete or fail or are not named, usage
\* that is low, high or neither.
Events ==
    {Notification("turn/plan/updated", u1, FALSE, "unknown"),
     Notification("turn/completed", u1, TRUE, "unknown"),
     Notification("turn/completed", None, TRUE, "unknown")}
    \cup {Notification("thread/tokenUsage/updated", None, FALSE, level) : level \in Level}

Composition == <<"plan", "review", "tdd", "compact">>

\* Ints are -4 to 3, and 9 is none: amd64 makes the smallest int of it.
Numbers == {-1, 0, 1, 2, 9}
Amd64   == [n \in Numbers |-> IF n \in IntRange THEN n ELSE -MaxInt - 1]

\* What a request to change files may hold: up to three changes, some of them no
\* objects, some with a denied path.
Objects(denied, numbers) == [object : {TRUE}, denied : {denied}, added : numbers, removed : numbers]
Entries == Objects(FALSE, Numbers) \cup Objects(TRUE, {0})
           \cup [object : {FALSE}, denied : BOOLEAN, added : {2}, removed : {0}]
Changes == UNION {[1 .. n -> Entries] : n \in 0 .. 3}

\* What a request to run a command may hold, with up to two command actions.
RunCommands == Blank \cup {"safe", "other"}
Actions     == UNION {[1 .. n -> RunCommands] : n \in 0 .. 2}
=============================================================================
