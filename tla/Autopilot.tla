------------------------------ MODULE Autopilot ------------------------------
(***************************************************************************)
(* What the autopilot harness of pkg/harness/builtin answers to approval   *)
(* requests: pure functions of the request's parameters.                   *)
(*                                                                         *)
(* A command is abstracted to what the prefix test tells apart: "" and     *)
(* "blank" are the ones TrimSpace leaves nothing of, None one that is      *)
(* missing or no string.  A change is [object, denied, added, removed]:    *)
(* whether it is an object, whether its path has a denied prefix, and the  *)
(* lines added and removed as the request writes them, without their       *)
(* fraction and 0 for what is no number.  A `changes' that is missing or   *)
(* no list is the empty list.                                              *)
(***************************************************************************)
EXTENDS Integers, Sequences

CONSTANTS
    MaxInt,         \* the largest int
    Number,         \* the numbers a request may hold, ints or not
    IntOf,          \* IntOf[n]: what the build makes of number n as an int (intFromAny)
    FileChanges,    \* the lists of changes a request to change files may hold
    LineLimits,     \* AutopilotConfig: MaxChangedLines
    Commands,       \* what a request to run a command may hold,
    CommandActions, \*     and its lists of command actions
    SafeCommands    \* the commands that have a safe prefix

IntRange == -MaxInt - 1 .. MaxInt

\* The sum of two ints.
Wrap(n) == CASE n > MaxInt      -> n - 2 * (MaxInt + 1)
             [] n < -MaxInt - 1 -> n + 2 * (MaxInt + 1)
             [] OTHER           -> n

\* The language leaves open what int a number out of range becomes.
ASSUME NumberAssumption ==
    /\ MaxInt \in Nat /\ Number \subseteq Int
    /\ IntOf \in [Number -> IntRange]
    /\ \A n \in Number \cap IntRange : IntOf[n] = n
ASSUME AutopilotAssumption ==
    /\ FileChanges \subseteq Seq([object : BOOLEAN, denied : BOOLEAN, added : Number, removed : Number])
    /\ LineLimits \subseteq IntRange
    /\ CommandActions \subseteq Seq(Commands)

\* extractCommand: the command, or the first one that is not blank among the
\* command actions, else the empty string.
Blank == {"", "blank", "none"}
ExtractCommand(command, actions) ==
    LET said == {n \in DOMAIN actions : actions[n] \notin Blank}
    IN IF command \notin Blank THEN command
       ELSE IF said = {} THEN ""
       ELSE actions[CHOOSE n \in said : \A m \in said : n <= m]

CommandDecision(command, actions) ==
    IF ExtractCommand(command, actions) \in SafeCommands THEN "acceptForSession" ELSE "decline"

\* The total once this change is counted: ints wrap.
Add(total, change) == Wrap(total + Wrap(IntOf[change.added] + IntOf[change.removed]))

\* Mutation: an entry that is no object starts the count afresh.
JudgeAfresh(scan, change) ==
    CASE scan.denied      -> scan
      [] ~change.object   -> [scan EXCEPT !.total = 0]
      [] OTHER            -> [denied |-> change.denied, total |-> Add(scan.total, change)]

\* One entry of the scan: it ends at the first denied path, and skips entries
\* that are no objects.
Judge(scan, change) ==
    CASE scan.denied      -> scan
      [] ~change.object   -> scan
      [] OTHER            -> [denied |-> change.denied, total |-> Add(scan.total, change)]

\* The scan of a list of changes, after each.
Scan(changes) ==
    LET scan[n \in 0 .. Len(changes)] ==
          IF n = 0 THEN [denied |-> FALSE, total |-> 0] ELSE Judge(scan[n - 1], changes[n])
    IN scan

\* fileChangeDecision; no changes at all are accepted.
FileChangeDecision(changes, max) ==
    LET scan == Scan(changes)[Len(changes)]
    IN IF scan.denied \/ scan.total > max THEN "decline" ELSE "acceptForSession"
=============================================================================
