----------------------------- MODULE RequestRetry -----------------------------
(***************************************************************************)
(* RequestWithRetry of pkg/codexrpc/retry.go on top of the promises of     *)
(* RpcCall: goroutines repeat a request the server was too busy for.       *)
(*                                                                         *)
(* Durations are integers of a given width, MaxDuration the largest.  The  *)
(* backoff is computed in float64 and converted: out of range the result   *)
(* is up to the platform, the smallest integer (amd64) or the largest      *)
(* (arm64).  Elapsed time is not modelled, a timer fires when it likes.    *)
(***************************************************************************)
EXTENDS RpcCall, Integers, Sequences

CONSTANTS
    Policy,         \* retry policies as the callers give them
    DefaultBackoff, \* 100 ms
    MaxDuration,    \* the largest Duration
    MaxUses         \* bound: the calls of RequestWithRetry

ASSUME AnswersAssumption == Result = {"ok", "overloaded", "error"}
ASSUME PolicyAssumption ==
    /\ Policy \subseteq [attempts : Int, initial : Int, max : Int]
    /\ {DefaultBackoff, MaxDuration} \subseteq Nat \ {0} /\ MaxUses \in Nat

VARIABLES
    pc,         \* pc[c]: where RequestWithRetry is
    policy,     \* policy[c]: the normalized policy
    attempt,    \* attempt[c]: counts from 1
    expired,    \* expired[c]: its context is done
    result,     \* result[c]: what RequestWithRetry returned last
    uses,       \* calls of RequestWithRetry so far
    tried,      \* history: the ids of its attempts
    waits       \* history: the backoffs it waited for, in order

loopVars  == <<pc, policy, attempt, result, uses, waits>>
vars == <<callVars, loopVars, expired, tried>>

Pick(p, low) == IF p <= 0 THEN low ELSE p

\* normalizeRetryPolicy
Normalized(p) ==
    LET initial == Pick(p.initial, DefaultBackoff)
    IN [attempts |-> Pick(p.attempts, 1), initial |-> initial,
        max |-> IF p.max < initial THEN initial ELSE p.max]

\* Every variable has its type (BackoffInBounds has that of waits).
TypeOK ==
    /\ CallTypeOK
    /\ pc \in [Caller -> {"idle", "attempt", "request", "backoff"}]
    /\ policy \in [Caller -> [attempts : Int, initial : Int, max : Int]]
    /\ attempt \in [Caller -> Nat]
    /\ \A c \in Caller : attempt[c] \in 1 .. policy[c].attempts
    /\ expired \in [Caller -> BOOLEAN]
    /\ result \in [Caller -> Result \cup {"none", "refused", "closed", "failed", "cancelled"}]
    /\ uses \in 0 .. MaxUses
    /\ tried \in [Caller -> Seq(Nat)]

Init ==
    /\ CallInit
    /\ pc = [c \in Caller |-> "idle"]
    /\ policy = [c \in Caller |-> [attempts |-> 1, initial |-> 1, max |-> 1]]
    /\ attempt = [c \in Caller |-> 1]
    /\ expired = [c \in Caller |-> FALSE]
    /\ result = [c \in Caller |-> "none"]
    /\ uses = 0
    /\ tried = [c \in Caller |-> <<>>]
    /\ waits = [c \in Caller |-> <<>>]

-----------------------------------------------------------------------------
Goto(c, l) == pc' = [pc EXCEPT ![c] = l]

RequestWithRetry(c, p) ==
    /\ pc[c] = "idle" /\ uses < MaxUses
    /\ uses' = uses + 1
    /\ Goto(c, "attempt")
    /\ policy' = [policy EXCEPT ![c] = Normalized(p)]
    /\ attempt' = [attempt EXCEPT ![c] = 1]
    /\ expired' = [expired EXCEPT ![c] = FALSE]
    /\ result' = [result EXCEPT ![c] = "none"]
    /\ tried' = [tried EXCEPT ![c] = <<>>]
    /\ waits' = [waits EXCEPT ![c] = <<>>]
    /\ UNCHANGED callVars

\* The call of Request begins, and does its work.
Attempt(c) ==
    /\ pc[c] = "attempt"
    /\ Begin(c, "request")
    /\ Goto(c, "request")
    /\ UNCHANGED <<policy, attempt, result, uses, waits, expired, tried>>

Request(c) ==
    /\ pc[c] = "request"
    /\ \/ Issue(c) /\ tried' = [tried EXCEPT ![c] = Append(@, last + 1)]
       \/ Transmit(c) /\ UNCHANGED tried
    /\ UNCHANGED <<loopVars, expired>>

\* Mutation: errors of the client are retried as well.
RetryableMore(r) == r \in {"overloaded", "failed"}

\* IsRetryableError, for what Request returned.
IsRetryable(r) == r = "overloaded"

\* A float64 converted to a Duration.
Converted(x) == IF x <= MaxDuration THEN {x} ELSE {MaxDuration, -MaxDuration - 1}

\* math.Pow(2, n): the multiplier after the n-th repeat.
Pow[n \in Nat] == IF n = 0 THEN 1 ELSE 2 * Pow[n - 1]

\* Mutation: the backoff is not capped.
ComputeBackoffUncapped(p, n) ==
    IF n <= 1 THEN {p.initial} ELSE Converted(p.initial * Pow[n - 1])

\* computeBackoff: what it may be after the n-th attempt.
ComputeBackoff(p, n) ==
    IF n <= 1 THEN {p.initial}
    ELSE {IF b > p.max THEN p.max ELSE b : b \in Converted(p.initial * Pow[n - 1])}

Finish(c, r) ==
    /\ Goto(c, "idle")
    /\ result' = [result EXCEPT ![c] = r]
    /\ UNCHANGED waits

\* Mutation: the last attempt is not made.
AttemptReturnsEarly(c, r) ==
    /\ pc[c] = "request"
    /\ Return(c, r)
    /\ IF IsRetryable(r) /\ attempt[c] + 1 < policy[c].attempts
       THEN /\ \E b \in ComputeBackoff(policy[c], attempt[c]) :
                 waits' = [waits EXCEPT ![c] = Append(@, b)]
            /\ Goto(c, "backoff")
            /\ UNCHANGED result
       ELSE Finish(c, r)
    /\ UNCHANGED <<policy, attempt, uses, expired, tried>>

\* Request returns, with a result, an error that is final, or one to retry.
AttemptReturns(c, r) ==
    /\ pc[c] = "request"
    /\ Return(c, r)
    /\ IF IsRetryable(r) /\ attempt[c] < policy[c].attempts
       THEN /\ \E b \in ComputeBackoff(policy[c], attempt[c]) :
                 waits' = [waits EXCEPT ![c] = Append(@, b)]
            /\ Goto(c, "backoff")
            /\ UNCHANGED result
       ELSE Finish(c, r)
    /\ UNCHANGED <<policy, attempt, uses, expired, tried>>

\* Mutation: only the end of the context ends the wait.
TimerFiresNever(c) ==
    /\ pc[c] = "backoff" /\ expired[c]
    /\ Finish(c, "cancelled")
    /\ UNCHANGED <<policy, attempt, uses, callVars, expired, tried>>

\* The branches of the select between two attempts; either, if both are ready.
TimerFires(c) ==
    /\ pc[c] = "backoff"
    /\ attempt' = [attempt EXCEPT ![c] = @ + 1]
    /\ Goto(c, "attempt")
    /\ UNCHANGED <<policy, result, uses, waits, callVars, expired, tried>>

Cancelled(c) ==
    /\ pc[c] = "backoff" /\ expired[c]
    /\ Finish(c, "cancelled")
    /\ UNCHANGED <<policy, attempt, uses, callVars, expired, tried>>

\* The context of c is cancelled or its deadline passes.
Expire(c) ==
    /\ ~expired[c]
    /\ expired' = [expired EXCEPT ![c] = TRUE]
    /\ UNCHANGED <<callVars, loopVars, tried>>

\* The server answers, Close is called: steps of RpcCall.
Environment ==
    /\ CloseClient \/ \E i \in sent, r \in Result : Answer(i, r)
    /\ UNCHANGED <<loopVars, expired, tried>>

Next ==
    \/ \E c \in Caller :
         \/ \E p \in Policy : RequestWithRetry(c, p)
         \/ Attempt(c) \/ Request(c) \/ TimerFires(c) \/ Cancelled(c) \/ Expire(c)
         \/ \E r \in Endings : AttemptReturns(c, r)
    \/ Environment

Spec == Init /\ [][Next]_vars

\* Goroutines run, timers fire, and Request returns when it has its answer, its
\* client closes (RpcCall!CallsReturn) or its context is done.
FairSpec ==
    /\ Spec
    /\ \A c \in Caller :
         WF_vars(\/ Attempt(c) \/ Request(c) \/ TimerFires(c) \/ Cancelled(c)
                 \/ \E r \in Result \cup {"closed"} : AttemptReturns(c, r)
                 \/ expired[c] /\ AttemptReturns(c, "failed"))

-----------------------------------------------------------------------------
(* What RequestWithRetry promises.                                         *)

\* A request is repeated only when the server has turned the last attempt down:
\* none that was, or may have been, taken up is made twice.
RepeatsOnlyRejected ==
    \A c \in Caller : \A n \in 1 .. Len(tried[c]) - 1 : <<tried[c][n], "overloaded">> \in answers

\* The answer returned is the server's to the last attempt, and "overloaded"
\* means that every attempt the policy allows was made and turned down.
TellsLastAttempt ==
    \A c \in Caller : result[c] \in Result =>
        /\ <<tried[c][Len(tried[c])], result[c]>> \in answers
        /\ result[c] = "overloaded" => Len(tried[c]) = policy[c].attempts

\* No wait is longer than the policy's limit.  While the product fits a
\* Duration none is shorter than the one before it; beyond, it may be negative
\* and the next attempt follows at once.
BackoffInBounds ==
    \A c \in Caller : \A n \in DOMAIN waits[c] :
        /\ waits[c][n] \in -MaxDuration - 1 .. policy[c].max
        /\ policy[c].initial * Pow[n - 1] <= MaxDuration =>
             waits[c][n] >= IF n = 1 THEN policy[c].initial ELSE waits[c][n - 1]

\* A retrying call ends once its context is done or its client closes, in
\* whichever attempt or wait it is then.
RetryEnds ==
    \A c \in Caller : (pc[c] # "idle" /\ (expired[c] \/ closing)) ~> pc[c] = "idle"
=============================================================================
