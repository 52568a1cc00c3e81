-------------------------- MODULE RequestRetryProofs --------------------------
(***************************************************************************)
(* What a retrying call repeats, how long it waits in between and what it  *)
(* reports, for any number of goroutines, policies and answers.            *)
(***************************************************************************)
EXTENDS RequestRetry, SequenceTheorems, WellFoundedInduction, TLAPS

-----------------------------------------------------------------------------
(* The inductive invariant.                                                *)

\* The part of the type invariant the proofs use.
Types ==
    /\ CallTypeOK
    /\ pc \in [Caller -> {"idle", "attempt", "request", "backoff"}]
    /\ policy \in [Caller -> [attempts : Int, initial : Int, max : Int]]
    /\ attempt \in [Caller -> Nat]
    /\ result \in [Caller -> Result \cup {"none", "refused", "closed", "failed", "cancelled"}]
    /\ tried \in [Caller -> Seq(Nat)]

TurnedDown(c, n) == <<tried[c][n], "overloaded">> \in answers

\* How many attempts of c were turned down: those before the current one, or,
\* while it waits or begins, all there were.
Progress(c) ==
    /\ attempt[c] \in 1 .. policy[c].attempts
    /\ pc[c] = "attempt" => Len(tried[c]) = attempt[c] - 1
    /\ pc[c] = "backoff" => Len(tried[c]) = attempt[c] /\ attempt[c] < policy[c].attempts
    /\ pc[c] = "request" =>
         /\ phase[c] = "request"
         /\ request[c] = 0 => Len(tried[c]) = attempt[c] - 1
         /\ request[c] # 0 => Len(tried[c]) = attempt[c] /\ tried[c][Len(tried[c])] = request[c]
    /\ \A n \in 1 .. Len(tried[c]) - 1 : TurnedDown(c, n)
    /\ (pc[c] \in {"attempt", "backoff"} \/ (pc[c] = "request" /\ request[c] = 0)) =>
         \A n \in 1 .. Len(tried[c]) : TurnedDown(c, n)
    /\ pc[c] # "idle" => result[c] = "none"
    /\ result[c] \in Result =>
         /\ Len(tried[c]) # 0 /\ <<tried[c][Len(tried[c])], result[c]>> \in answers
         /\ result[c] = "overloaded" => Len(tried[c]) = policy[c].attempts

RetryInv == Types /\ \A c \in Caller : Progress(c)

-----------------------------------------------------------------------------
(* Types.                                                                  *)

LEMMA NormalizedType ==
    ASSUME NEW p \in Policy
    PROVE  /\ Normalized(p) \in [attempts : Int, initial : Int, max : Int]
           /\ Normalized(p).attempts >= 1
<1>1. p \in [attempts : Int, initial : Int, max : Int] /\ DefaultBackoff \in Int
  BY PolicyAssumption
<1> QED  BY <1>1 DEF Normalized, Pick

LEMMA CallTypes ==
    ASSUME CallTypeOK, [CallNext]_callVars
    PROVE  CallTypeOK'
<1>1. ASSUME NEW c \in Caller, NEW kind \in {"request", "notification"}, Begin(c, kind) PROVE CallTypeOK'
  BY <1>1 DEF CallTypeOK, Begin
<1>2. ASSUME NEW c \in Caller, Issue(c) PROVE CallTypeOK'
  <2>1. last \in Nat /\ last' = last + 1 /\ UNCHANGED <<phase, outcome, sent, answers, closing>>
    BY <1>2 DEF CallTypeOK, Issue
  <2>2. request' \in [Caller -> 0 .. last']
    BY <1>2, <2>1 DEF CallTypeOK, Issue
  <2>3. sent' \subseteq 1 .. last'
    BY <2>1 DEF CallTypeOK
  <2> QED  BY <2>1, <2>2, <2>3 DEF CallTypeOK
<1>3. ASSUME NEW c \in Caller, Transmit(c) PROVE CallTypeOK'
  <2>1. request[c] \in 1 .. last
    BY <1>3 DEF CallTypeOK, Transmit
  <2> QED  BY <1>3, <2>1 DEF CallTypeOK, Transmit
<1>4. ASSUME NEW c \in Caller, NEW r \in Endings, Return(c, r) PROVE CallTypeOK'
  BY <1>4 DEF CallTypeOK, Return, Endings
<1>5. ASSUME NEW i \in sent, NEW r \in Result, Answer(i, r) PROVE CallTypeOK'
  BY <1>5 DEF CallTypeOK, Answer
<1>6. CASE CloseClient
  BY <1>6 DEF CallTypeOK, CloseClient
<1>7. CASE UNCHANGED callVars
  BY <1>7 DEF CallTypeOK, callVars
<1> QED  BY <1>1, <1>2, <1>3, <1>4, <1>5, <1>6, <1>7 DEF CallNext

-----------------------------------------------------------------------------
(* The steps.                                                              *)

\* A caller whose own variables stay keeps its progress: answers only grow.
LEMMA Bystander ==
    ASSUME NEW d, Progress(d), answers \subseteq answers',
           pc'[d] = pc[d], policy'[d] = policy[d], attempt'[d] = attempt[d],
           result'[d] = result[d], tried'[d] = tried[d], phase'[d] = phase[d],
           request'[d] = request[d]
    PROVE  Progress(d)'
BY DEF Progress, TurnedDown

\* A step of c concerns nobody else.
OnlyOf(c) ==
    /\ answers' = answers
    /\ \A d \in Caller \ {c} :
         /\ pc'[d] = pc[d] /\ policy'[d] = policy[d] /\ attempt'[d] = attempt[d]
         /\ result'[d] = result[d] /\ tried'[d] = tried[d] /\ phase'[d] = phase[d]
         /\ request'[d] = request[d]

LEMMA Stepped ==
    ASSUME RetryInv, NEW c \in Caller, Types', OnlyOf(c), Progress(c)'
    PROVE  RetryInv'
<1>1. \A d \in Caller \ {c} : Progress(d)'
  BY Bystander DEF RetryInv, OnlyOf
<1> QED  BY <1>1 DEF RetryInv

LEMMA Started ==
    ASSUME RetryInv, NEW c \in Caller, NEW p \in Policy, RequestWithRetry(c, p)
    PROVE  RetryInv'
<1>1. CallTypeOK'
  BY CallTypes DEF RetryInv, Types, RequestWithRetry
<1>2. Types'
  BY <1>1, NormalizedType DEF RetryInv, Types, RequestWithRetry, Goto
<1>3. OnlyOf(c)
  BY DEF RetryInv, Types, RequestWithRetry, Goto, OnlyOf, callVars
<1>4. Progress(c)'
  <2>1. /\ attempt'[c] = 1 /\ pc'[c] = "attempt" /\ tried'[c] = <<>> /\ result'[c] = "none"
        /\ policy'[c].attempts \in Int /\ policy'[c].attempts >= 1
    BY NormalizedType DEF RetryInv, Types, RequestWithRetry, Goto
  <2>2. "none" \notin Result
    BY AnswersAssumption
  <2> QED  BY <2>1, <2>2 DEF Progress
<1> QED  BY <1>2, <1>3, <1>4, Stepped

LEMMA Attempted ==
    ASSUME RetryInv, NEW c \in Caller, Attempt(c)
    PROVE  RetryInv'
<1>1. CallTypeOK'
  BY CallTypes DEF RetryInv, Types, Attempt, CallNext
<1>2. Types'
  BY <1>1 DEF RetryInv, Types, Attempt, Goto
<1>3. OnlyOf(c)
  BY DEF RetryInv, Types, CallTypeOK, Attempt, Begin, Goto, OnlyOf
<1>4. Progress(c)'
  <2>1. /\ pc[c] = "attempt" /\ pc'[c] = "request" /\ phase'[c] = "request" /\ request'[c] = 0
        /\ UNCHANGED <<policy, attempt, result, tried, answers>>
    BY DEF RetryInv, Types, CallTypeOK, Attempt, Begin, Goto
  <2> QED  BY <2>1 DEF RetryInv, Progress, TurnedDown
<1> QED  BY <1>2, <1>3, <1>4, Stepped

LEMMA Requested ==
    ASSUME RetryInv, NEW c \in Caller, Request(c)
    PROVE  RetryInv'
<1>1. CallTypeOK'
  BY CallTypes DEF RetryInv, Types, Request, CallNext
<1>2. UNCHANGED <<pc, policy, attempt, result, answers, phase>> /\ pc[c] = "request"
  BY DEF Request, loopVars, Issue, Transmit
<1>3. last \in Nat /\ attempt[c] \in Nat /\ tried[c] \in Seq(Nat)
  BY DEF RetryInv, Types, CallTypeOK
<1>4. CASE Issue(c) /\ tried' = [tried EXCEPT ![c] = Append(@, last + 1)]
  <2>1. Types'
    BY <1>1, <1>2, <1>3, <1>4 DEF RetryInv, Types
  <2>2. OnlyOf(c)
    BY <1>2, <1>4 DEF RetryInv, Types, CallTypeOK, Issue, OnlyOf
  <2>3. /\ request[c] = 0 /\ request'[c] = last + 1 /\ last + 1 # 0
        /\ tried'[c] = Append(tried[c], last + 1)
    BY <1>3, <1>4 DEF RetryInv, Types, CallTypeOK, Issue
  <2>4. /\ Len(tried'[c]) = Len(tried[c]) + 1 /\ tried'[c][Len(tried[c]) + 1] = last + 1
        /\ \A n \in 1 .. Len(tried[c]) : tried'[c][n] = tried[c][n]
        /\ Len(tried[c]) \in Nat
    BY <1>3, <2>3
  <2>5. /\ Len(tried[c]) = attempt[c] - 1 /\ result[c] = "none"
        /\ \A n \in 1 .. Len(tried[c]) : TurnedDown(c, n)
    BY <1>2, <2>3 DEF RetryInv, Progress
  <2>6. \A n \in 1 .. Len(tried'[c]) - 1 : TurnedDown(c, n)'
    BY <1>2, <2>4, <2>5 DEF TurnedDown
  <2>7. result'[c] \notin Result /\ attempt'[c] \in 1 .. policy'[c].attempts /\ phase[c] = "request"
    BY <1>2, <2>5, AnswersAssumption DEF RetryInv, Progress
  <2>8. Progress(c)'
    BY <1>2, <1>3, <2>3, <2>4, <2>5, <2>6, <2>7 DEF Progress
  <2> QED  BY <2>1, <2>2, <2>8, Stepped
<1>5. CASE Transmit(c) /\ UNCHANGED tried
  <2>1. UNCHANGED request
    BY <1>5 DEF Transmit
  <2>2. Types'
    BY <1>1, <1>2, <1>5 DEF RetryInv, Types
  <2>3. OnlyOf(c)
    BY <1>2, <1>5, <2>1 DEF OnlyOf
  <2>4. Progress(c)'
    BY <1>2, <1>5, <2>1, Bystander DEF RetryInv
  <2> QED  BY <2>2, <2>3, <2>4, Stepped
<1> QED  BY <1>4, <1>5 DEF Request

LEMMA Returned ==
    ASSUME RetryInv, NEW c \in Caller, NEW r \in Endings, AttemptReturns(c, r)
    PROVE  RetryInv'
<1>1. CallTypeOK'
  BY CallTypes DEF RetryInv, Types, AttemptReturns, CallNext
<1>2. /\ pc[c] = "request" /\ Deserves(c, r)
      /\ UNCHANGED <<policy, attempt, tried, answers, request>>
      /\ phase' = [phase EXCEPT ![c] = "idle"]
  BY DEF AttemptReturns, Return
<1>3. /\ tried[c] \in Seq(Nat) /\ attempt[c] \in Nat /\ policy[c].attempts \in Int
      /\ phase[c] = "request" /\ attempt[c] \in 1 .. policy[c].attempts /\ Len(tried[c]) \in Nat
      /\ request[c] = 0 => Len(tried[c]) = attempt[c] - 1
      /\ request[c] # 0 => Len(tried[c]) = attempt[c] /\ tried[c][Len(tried[c])] = request[c]
      /\ result[c] = "none"
      /\ \A n \in 1 .. Len(tried[c]) - 1 : TurnedDown(c, n)
  <2>1. /\ tried[c] \in Seq(Nat) /\ attempt[c] \in Nat
        /\ policy[c] \in [attempts : Int, initial : Int, max : Int]
    BY DEF RetryInv, Types
  <2>2. Progress(c)
    BY DEF RetryInv
  <2> QED  BY <1>2, <2>1, <2>2 DEF Progress
<1>4. r \in Result => /\ <<request[c], r>> \in answers /\ request[c] # 0
                      /\ Len(tried[c]) = attempt[c] /\ Len(tried[c]) # 0
                      /\ <<tried[c][Len(tried[c])], r>> \in answers
  <2> SUFFICES ASSUME r \in Result PROVE <<request[c], r>> \in answers /\ request[c] # 0
    <3>1. attempt[c] # 0
      BY <1>3
    <3> QED  BY <1>3, <3>1
  <2>1. r \notin {"refused", "closed", "failed"}
    BY AnswersAssumption
  <2>2. <<request[c], r>> \in answers
    BY <1>2, <1>3, <2>1 DEF Deserves
  <2>3. request[c] \in sent /\ sent \subseteq 1 .. last
    BY <2>2 DEF RetryInv, Types, CallTypeOK
  <2> QED  BY <2>2, <2>3
<1>5. CASE pc' = [pc EXCEPT ![c] = "backoff"] /\ UNCHANGED result
           /\ r = "overloaded" /\ attempt[c] < policy[c].attempts
  <2>1. Types'
    BY <1>1, <1>2, <1>5 DEF RetryInv, Types
  <2>2. OnlyOf(c)
    BY <1>2, <1>5 DEF RetryInv, Types, CallTypeOK, OnlyOf
  <2>3. r \in Result
    BY <1>5, AnswersAssumption
  <2>4. pc'[c] = "backoff"
    BY <1>5 DEF RetryInv, Types
  <2>5. \A n \in 1 .. Len(tried[c]) : TurnedDown(c, n)
    BY <1>3, <1>4, <1>5, <2>3 DEF TurnedDown
  <2>6. result[c] \notin Result
    BY <1>3, AnswersAssumption
  <2>7. Progress(c)'
    BY <1>2, <1>3, <1>4, <1>5, <2>3, <2>4, <2>5, <2>6 DEF Progress, TurnedDown
  <2> QED  BY <2>1, <2>2, <2>7, Stepped
<1>6. CASE pc' = [pc EXCEPT ![c] = "idle"] /\ result' = [result EXCEPT ![c] = r]
           /\ ~(r = "overloaded" /\ attempt[c] < policy[c].attempts)
  <2>1. Types'
    BY <1>1, <1>2, <1>6 DEF RetryInv, Types, Endings
  <2>2. OnlyOf(c)
    BY <1>2, <1>6 DEF RetryInv, Types, CallTypeOK, OnlyOf
  <2>3. pc'[c] = "idle" /\ result'[c] = r
    BY <1>6 DEF RetryInv, Types
  <2>4. r = "overloaded" => Len(tried[c]) = policy[c].attempts
    BY <1>3, <1>4, <1>6, AnswersAssumption
  <2>5. Progress(c)'
    BY <1>2, <1>3, <1>4, <2>3, <2>4 DEF Progress, TurnedDown
  <2> QED  BY <2>1, <2>2, <2>5, Stepped
<1> QED  BY <1>5, <1>6 DEF AttemptReturns, IsRetryable, Finish, Goto

LEMMA Waited ==
    ASSUME RetryInv, NEW c \in Caller, TimerFires(c) \/ Cancelled(c)
    PROVE  RetryInv'
<1>1. CallTypeOK'
  BY CallTypes DEF RetryInv, Types, TimerFires, Cancelled
<1>2. UNCHANGED <<policy, tried, answers, phase, request>> /\ pc[c] = "backoff"
  BY DEF TimerFires, Cancelled, callVars
<1>3. /\ Len(tried[c]) = attempt[c] /\ attempt[c] < policy[c].attempts /\ result[c] = "none"
      /\ attempt[c] \in Nat /\ policy[c].attempts \in Int /\ attempt[c] \in 1 .. policy[c].attempts
      /\ \A n \in 1 .. Len(tried[c]) : TurnedDown(c, n)
  BY <1>2 DEF RetryInv, Types, Progress
<1>4. CASE TimerFires(c)
  <2>1. /\ pc'[c] = "attempt" /\ attempt'[c] = attempt[c] + 1 /\ result' = result
        /\ pc' = [pc EXCEPT ![c] = "attempt"] /\ attempt' = [attempt EXCEPT ![c] = @ + 1]
    BY <1>4 DEF TimerFires, Goto, RetryInv, Types
  <2>2. Types'
    BY <1>1, <1>2, <2>1 DEF RetryInv, Types
  <2>3. OnlyOf(c)
    BY <1>2, <2>1 DEF RetryInv, Types, OnlyOf
  <2>4. result[c] \notin Result
    BY <1>3, AnswersAssumption
  <2>5. Progress(c)'
    BY <1>2, <1>3, <2>1, <2>4 DEF Progress, TurnedDown
  <2> QED  BY <2>2, <2>3, <2>5, Stepped
<1>5. CASE Cancelled(c)
  <2>1. /\ pc'[c] = "idle" /\ attempt' = attempt /\ result'[c] = "cancelled"
        /\ pc' = [pc EXCEPT ![c] = "idle"] /\ result' = [result EXCEPT ![c] = "cancelled"]
    BY <1>5 DEF Cancelled, Finish, Goto, RetryInv, Types
  <2>2. Types'
    BY <1>1, <1>2, <2>1 DEF RetryInv, Types
  <2>3. OnlyOf(c)
    BY <1>2, <2>1 DEF RetryInv, Types, OnlyOf
  <2>4. "cancelled" \notin Result
    BY AnswersAssumption
  <2>5. Progress(c)'
    BY <1>2, <1>3, <2>1, <2>4 DEF Progress, TurnedDown
  <2> QED  BY <2>2, <2>3, <2>5, Stepped
<1> QED  BY <1>4, <1>5

\* Contexts end, the server answers, the client closes, or nothing happens.
LEMMA Around ==
    ASSUME RetryInv, Environment \/ (\E c \in Caller : Expire(c)) \/ UNCHANGED vars
    PROVE  RetryInv'
<1>1. UNCHANGED <<pc, policy, attempt, result, tried>>
  BY DEF Environment, Expire, vars, loopVars
<1>2. UNCHANGED <<phase, request>> /\ answers \subseteq answers'
  BY DEF Environment, Expire, vars, callVars, CloseClient, Answer
<1>3. CallTypeOK'
  BY CallTypes DEF RetryInv, Types, Environment, Expire, vars, CallNext
<1>4. Types'
  BY <1>1, <1>3 DEF RetryInv, Types
<1>5. \A d \in Caller : Progress(d)'
  BY <1>1, <1>2, Bystander DEF RetryInv
<1> QED  BY <1>4, <1>5 DEF RetryInv

-----------------------------------------------------------------------------
(* The invariant holds.                                                    *)

LEMMA InitRetry == Init => RetryInv
<1> SUFFICES ASSUME Init PROVE RetryInv
  OBVIOUS
<1>1. Types
  <2>1. CallTypeOK
    <3>1. 0 \in Nat /\ 0 \in 0 .. 0 /\ {} \subseteq 1 .. 0
      OBVIOUS
    <3>2. /\ phase \in [Caller -> {"idle", "request", "notification"}]
          /\ outcome \in [Caller -> Result \cup {"none", "refused", "closed", "failed"}]
          /\ request \in [Caller -> 0 .. 0]
      BY <3>1 DEF Init, CallInit
    <3>3. last = 0 /\ sent = {} /\ answers = {} /\ closing \in BOOLEAN
      BY DEF Init, CallInit
    <3> QED  BY <3>1, <3>2, <3>3 DEF CallTypeOK
  <2>2. \E p \in [attempts : Int, initial : Int, max : Int] : policy = [c \in Caller |-> p]
    <3> DEFINE p == [attempts |-> 1, initial |-> 1, max |-> 1]
    <3>1. p \in [attempts : Int, initial : Int, max : Int] /\ policy = [c \in Caller |-> p]
      BY DEF Init
    <3> QED  BY <3>1
  <2>3. policy \in [Caller -> [attempts : Int, initial : Int, max : Int]]
    BY <2>2
  <2> QED  BY <2>1, <2>2, <2>3 DEF Init, Types
<1>2. ASSUME NEW c \in Caller PROVE Progress(c)
  <2>1. /\ attempt[c] = 1 /\ pc[c] = "idle" /\ result[c] = "none" /\ tried[c] = <<>>
        /\ policy[c] = [attempts |-> 1, initial |-> 1, max |-> 1]
    BY DEF Init
  <2>2. "none" \notin Result
    BY AnswersAssumption
  <2>3. attempt[c] \in 1 .. policy[c].attempts /\ Len(tried[c]) = 0
    BY <2>1
  <2> QED  BY <2>1, <2>2, <2>3 DEF Progress
<1> QED  BY <1>1, <1>2 DEF RetryInv

LEMMA RetryNext == RetryInv /\ [Next]_vars => RetryInv'
BY Started, Attempted, Requested, Returned, Waited, Around DEF Next

LEMMA RetryInvariant == Spec => []RetryInv
BY InitRetry, RetryNext, PTL DEF Spec

\* The two variables no other invariant mentions.
Bounds == expired \in [Caller -> BOOLEAN] /\ uses \in 0 .. MaxUses

LEMMA BoundsInvariant == Spec => []Bounds
<1>1. Init => Bounds
  BY PolicyAssumption DEF Init, Bounds
<1>2. Bounds /\ [Next]_vars => Bounds'
  <2> SUFFICES ASSUME Bounds, [Next]_vars PROVE Bounds'
    OBVIOUS
  <2>1. CASE UNCHANGED <<expired, uses>>
    BY <2>1 DEF Bounds
  <2>2. ASSUME NEW c \in Caller, NEW p \in Policy, RequestWithRetry(c, p) PROVE Bounds'
    <3>1. /\ uses < MaxUses /\ uses' = uses + 1
          /\ expired' = [expired EXCEPT ![c] = FALSE]
      BY <2>2 DEF RequestWithRetry
    <3> QED  BY <3>1, PolicyAssumption DEF Bounds
  <2>3. ASSUME NEW c \in Caller, Expire(c) PROVE Bounds'
    BY <2>3 DEF Expire, Bounds, loopVars
  <2>4. ASSUME NEW c \in Caller, Attempt(c) \/ Request(c) \/ TimerFires(c) \/ Cancelled(c)
        PROVE  UNCHANGED <<expired, uses>>
    BY <2>4 DEF Attempt, Request, TimerFires, Cancelled, loopVars
  <2>5. ASSUME NEW c \in Caller, NEW r \in Endings, AttemptReturns(c, r)
        PROVE  UNCHANGED <<expired, uses>>
    BY <2>5 DEF AttemptReturns
  <2>6. Environment \/ UNCHANGED vars => UNCHANGED <<expired, uses>>
    BY DEF Environment, vars, loopVars
  <2> QED  BY <2>1, <2>2, <2>3, <2>4, <2>5, <2>6 DEF Next
<1> QED  BY <1>1, <1>2, PTL DEF Spec

\* Every reachable state is typed, and the attempts stay within the policy.
THEOREM TypeCorrect == Spec => []TypeOK
<1>1. RetryInv /\ Bounds => TypeOK
  BY DEF RetryInv, Types, Progress, Bounds, TypeOK
<1> QED  BY <1>1, RetryInvariant, BoundsInvariant, PTL

\* No request that was taken up, or may have been, is made again, whatever the
\* policies, the answers and the errors.
THEOREM RepeatsRejectedOnly == Spec => []RepeatsOnlyRejected
<1>1. RetryInv => RepeatsOnlyRejected
  BY DEF RetryInv, Progress, TurnedDown, RepeatsOnlyRejected
<1> QED  BY <1>1, RetryInvariant, PTL

\* The answer reported is the one to the last attempt; "overloaded" is reported
\* only when all attempts the policy allows were made.
THEOREM TellsLast == Spec => []TellsLastAttempt
<1>1. RetryInv => TellsLastAttempt
  BY DEF RetryInv, Progress, TellsLastAttempt
<1> QED  BY <1>1, RetryInvariant, PTL

-----------------------------------------------------------------------------
(* Powers of two.  Induction on the natural numbers, in a form without an  *)
(* operator as parameter: a set that holds 0 and all successors.           *)

LEMMA Induction ==
    ASSUME NEW S, 0 \in S, \A n \in Nat : n \in S => n + 1 \in S
    PROVE  Nat \subseteq S
<1> DEFINE R == OpToRel(<, Nat)
           T == Nat \ S
<1>1. IsWellFoundedOn(R, Nat)
  BY NatLessThanWellFounded
<1>2. \A x, y \in Nat : <<x, y>> \in R <=> x < y
  BY DEF OpToRel
<1> HIDE DEF R
<1>3. CASE T # {}
  <2>1. T \subseteq Nat
    OBVIOUS
  <2> HIDE DEF T
  <2>2. PICK x \in T : \A y \in T : <<y, x>> \notin R
    BY <1>1, <1>3, <2>1, WFMin
  <2> USE DEF T
  <2>3. x # 0 /\ x \in Nat /\ x - 1 \in Nat /\ x - 1 < x
    BY <2>2
  <2>4. x - 1 \in S
    BY <1>2, <2>2, <2>3
  <2>5. (x - 1) + 1 = x
    BY <2>3
  <2> QED  BY <2>2, <2>3, <2>4, <2>5
<1> QED  BY <1>3

\* f holds the powers up to m.
IsPow(f, m) == f \in [0 .. m -> Nat] /\ f[0] = 1 /\ \A i \in 1 .. m : f[i] = 2 * f[i - 1]

LEMMA PowExists == \A m \in Nat : \E f : IsPow(f, m)
<1> DEFINE S == {m \in Nat : \E f : IsPow(f, m)}
<1>1. 0 \in S
  <2>1. IsPow([i \in 0 .. 0 |-> 1], 0)
    BY DEF IsPow
  <2> QED  BY <2>1
<1>2. ASSUME NEW m \in Nat, m \in S PROVE m + 1 \in S
  <2>1. PICK f : IsPow(f, m)
    BY <1>2
  <2> DEFINE g == [i \in 0 .. m + 1 |-> IF i = m + 1 THEN 2 * f[m] ELSE f[i]]
  <2>2. IsPow(g, m + 1)
    BY <2>1 DEF IsPow
  <2> QED  BY <2>2
<1> HIDE DEF S
<1>3. Nat \subseteq S
  BY <1>1, <1>2, Induction
<1> QED  BY <1>3 DEF S

LEMMA PowUnique ==
    ASSUME NEW m \in Nat, NEW k \in Nat, NEW f, NEW g, IsPow(f, m), IsPow(g, k), NEW i \in Nat, i <= m, i <= k
    PROVE  f[i] = g[i]
<1> DEFINE S == {n \in Nat : n <= m /\ n <= k => f[n] = g[n]}
<1>1. 0 \in S
  BY DEF IsPow
<1>2. ASSUME NEW n \in Nat, n \in S PROVE n + 1 \in S
  <2> SUFFICES ASSUME n + 1 <= m, n + 1 <= k PROVE f[n + 1] = g[n + 1]
    OBVIOUS
  <2>1. f[n] = g[n] /\ n + 1 \in 1 .. m /\ n + 1 \in 1 .. k /\ (n + 1) - 1 = n
    BY <1>2
  <2> QED  BY <2>1 DEF IsPow
<1> HIDE DEF S
<1>3. Nat \subseteq S
  BY <1>1, <1>2, Induction
<1> QED  BY <1>3 DEF S

\* What Pow is.
LEMMA PowIs == Pow[0] = 1 /\ \A n \in Nat : Pow[n] \in Nat \ {0} /\ Pow[n + 1] = 2 * Pow[n]
<1> DEFINE P(n) == CHOOSE f : IsPow(f, n)
           F == [n \in Nat |-> P(n)[n]]
<1>1. \A n \in Nat : IsPow(P(n), n)
  BY PowExists
<1>2. F[0] = 1
  BY <1>1 DEF IsPow
<1>3. ASSUME NEW n \in Nat PROVE F[n + 1] = 2 * F[n]
  <2>1. IsPow(P(n), n) /\ IsPow(P(n + 1), n + 1)
    BY <1>1
  <2> HIDE DEF P
  <2>2. P(n)[n] = P(n + 1)[n]
    BY <2>1, PowUnique
  <2>3. n + 1 \in 1 .. n + 1 /\ (n + 1) - 1 = n
    OBVIOUS
  <2>4. P(n + 1)[n + 1] = 2 * P(n + 1)[n]
    BY <2>1, <2>3 DEF IsPow
  <2> QED  BY <2>2, <2>4
<1> HIDE DEF P
<1>4. F = [n \in Nat |-> IF n = 0 THEN 1 ELSE 2 * F[n - 1]]
  <2>1. ASSUME NEW n \in Nat PROVE F[n] = IF n = 0 THEN 1 ELSE 2 * F[n - 1]
    <3>1. CASE n # 0
      <4>1. n - 1 \in Nat /\ (n - 1) + 1 = n
        BY <3>1
      <4> HIDE DEF F
      <4> QED  BY <1>3, <3>1, <4>1
    <3> QED  BY <1>2, <3>1
  <2> QED  BY <2>1
<1>5. Pow = [n \in Nat |-> IF n = 0 THEN 1 ELSE 2 * Pow[n - 1]]
  <2> HIDE DEF F
  <2> QED  BY <1>4 DEF Pow
<1>6. Pow[0] = 1
  BY <1>5
<1>7. \A n \in Nat : Pow[n + 1] = 2 * Pow[n]
  <2>1. \A n \in Nat : n + 1 \in Nat /\ n + 1 # 0 /\ (n + 1) - 1 = n
    OBVIOUS
  <2> QED  BY <1>5, <2>1
<1>8. \A n \in Nat : Pow[n] \in Nat \ {0}
  <2> DEFINE S == {n \in Nat : Pow[n] \in Nat \ {0}}
  <2>1. 0 \in S
    BY <1>6
  <2>2. \A n \in Nat : n \in S => n + 1 \in S
    BY <1>7
  <2> HIDE DEF S
  <2>3. Nat \subseteq S
    BY <2>1, <2>2, Induction
  <2> QED  BY <2>3 DEF S
<1> QED  BY <1>6, <1>7, <1>8

-----------------------------------------------------------------------------
(* The waits.                                                              *)

Limits(p) == p \in [attempts : Int, initial : Int, max : Int] /\ p.initial >= 1 /\ p.max >= p.initial

\* What one backoff may be.
LEMMA BackoffBounds ==
    ASSUME NEW p, Limits(p), NEW n \in Nat \ {0}, NEW b \in ComputeBackoff(p, n)
    PROVE  /\ b \in -MaxDuration - 1 .. p.max
           /\ n = 1 => b = p.initial
           /\ n > 1 /\ p.initial * Pow[n - 1] <= MaxDuration =>
                b = IF p.initial * Pow[n - 1] > p.max THEN p.max ELSE p.initial * Pow[n - 1]
<1>1. p.initial \in Int /\ p.max \in Int /\ MaxDuration \in Nat \ {0} /\ p.initial >= 1 /\ p.max >= p.initial
  BY PolicyAssumption DEF Limits
<1>2. CASE n = 1
  BY <1>1, <1>2 DEF ComputeBackoff
<1>3. CASE n > 1
  <2> DEFINE x == p.initial * Pow[n - 1]
  <2>1. x \in Nat
    <3>1. Pow[n - 1] \in Nat
      BY <1>3, PowIs
    <3> QED  BY <1>1, <3>1
  <2>2. PICK y \in Converted(x) : b = IF y > p.max THEN p.max ELSE y
    BY <1>3 DEF ComputeBackoff
  <2> HIDE DEF x
  <2>3. /\ x <= MaxDuration => y = x
        /\ y \in {x, MaxDuration, -MaxDuration - 1} /\ (y = x => x <= MaxDuration \/ x = MaxDuration)
    BY <2>1, <2>2, <1>1 DEF Converted
  <2>4. y \in Int /\ y >= -MaxDuration - 1
    BY <1>1, <2>1, <2>3
  <2>5. b \in -MaxDuration - 1 .. p.max
    BY <1>1, <2>2, <2>4
  <2> QED  BY <1>3, <2>2, <2>3, <2>5 DEF x
<1> QED  BY <1>2, <1>3

\* No backoff is shorter than the one before, while the product fits.
LEMMA BackoffGrows ==
    ASSUME NEW p, Limits(p), NEW n \in Nat \ {0, 1}, NEW a \in ComputeBackoff(p, n - 1),
           NEW b \in ComputeBackoff(p, n), p.initial * Pow[n - 1] <= MaxDuration
    PROVE  b >= a
<1>1. p.initial \in Nat /\ p.max \in Int /\ MaxDuration \in Nat \ {0} /\ p.initial >= 1 /\ p.max >= p.initial
  BY PolicyAssumption DEF Limits
<1> DEFINE x == p.initial * Pow[n - 2]
           y == p.initial * Pow[n - 1]
<1>2. x \in Nat /\ y = 2 * x
  <2>1. n - 2 \in Nat /\ (n - 2) + 1 = n - 1
    OBVIOUS
  <2>2. Pow[n - 2] \in Nat /\ Pow[n - 1] = 2 * Pow[n - 2]
    BY <2>1, PowIs
  <2>3. \A i, j \in Nat : i * j \in Nat /\ i * (2 * j) = 2 * (i * j)
    OBVIOUS
  <2> QED  BY <1>1, <2>2, <2>3
<1>3. b = IF y > p.max THEN p.max ELSE y
  BY BackoffBounds
<1>4. CASE n = 2
  <2>1. a = p.initial /\ x = p.initial
    BY <1>1, <1>4, BackoffBounds, PowIs
  <2> HIDE DEF x, y
  <2> QED  BY <1>1, <1>2, <1>3, <2>1
<1>5. CASE n # 2
  <2>1. n - 1 \in Nat \ {0} /\ n - 1 > 1 /\ (n - 1) - 1 = n - 2
    BY <1>5
  <2>2. p.initial * Pow[n - 2] <= MaxDuration
    <3> HIDE DEF x, y
    <3>1. y <= MaxDuration
      BY DEF y
    <3>2. x <= MaxDuration
      BY <1>1, <1>2, <3>1
    <3> QED  BY <3>2 DEF x
  <2>3. a = IF x > p.max THEN p.max ELSE x
    BY <2>1, <2>2, BackoffBounds
  <2> HIDE DEF x, y
  <2> QED  BY <1>1, <1>2, <1>3, <2>3
<1> QED  BY <1>4, <1>5

\* The n-th wait is the backoff after the n-th attempt, and the attempts are
\* counted like the waits.
Waits(c) ==
    /\ Limits(policy[c])
    /\ waits[c] \in Seq(Int)
    /\ pc[c] = "backoff" => Len(waits[c]) = attempt[c]
    /\ pc[c] \in {"attempt", "request"} => Len(waits[c]) = attempt[c] - 1
    /\ \A n \in 1 .. Len(waits[c]) : waits[c][n] \in ComputeBackoff(policy[c], n)

WaitsInv == waits \in [Caller -> Seq(Int)] /\ \A c \in Caller : Waits(c)

LEMMA WaitsStay ==
    ASSUME NEW c, Waits(c), waits'[c] = waits[c], policy'[c] = policy[c], attempt'[c] = attempt[c],
           \/ pc'[c] = pc[c] \/ pc'[c] = "idle" \/ {pc[c], pc'[c]} \subseteq {"attempt", "request"}
    PROVE  Waits(c)'
BY DEF Waits

\* A step of c leaves the loop of everybody else alone.
WaitsOf(c) ==
    \A d \in Caller \ {c} :
        pc'[d] = pc[d] /\ policy'[d] = policy[d] /\ attempt'[d] = attempt[d] /\ waits'[d] = waits[d]

LEMMA WaitsStepped ==
    ASSUME WaitsInv, NEW c \in Caller, WaitsOf(c), waits' \in [Caller -> Seq(Int)], Waits(c)'
    PROVE  WaitsInv'
BY WaitsStay DEF WaitsInv, WaitsOf

LEMMA WaitsStarted ==
    ASSUME Types, WaitsInv, NEW c \in Caller, NEW p \in Policy, RequestWithRetry(c, p)
    PROVE  WaitsInv'
<1>1. /\ WaitsOf(c) /\ waits' \in [Caller -> Seq(Int)]
      /\ policy'[c] = Normalized(p) /\ waits'[c] = <<>> /\ attempt'[c] = 1 /\ pc'[c] = "attempt"
  BY DEF Types, WaitsInv, RequestWithRetry, Goto, WaitsOf
<1>2. Limits(Normalized(p))
  <2>1. p \in [attempts : Int, initial : Int, max : Int] /\ DefaultBackoff \in Nat \ {0}
    BY PolicyAssumption
  <2> QED  BY <2>1 DEF Normalized, Pick, Limits
<1>3. Waits(c)'
  BY <1>1, <1>2 DEF Waits
<1> QED  BY <1>1, <1>3, WaitsStepped

LEMMA WaitsReturned ==
    ASSUME Types, WaitsInv, NEW c \in Caller, NEW r \in Endings, AttemptReturns(c, r)
    PROVE  WaitsInv'
<1>1. pc[c] = "request" /\ UNCHANGED <<policy, attempt>> /\ attempt[c] \in Nat /\ Waits(c)
  BY DEF Types, WaitsInv, AttemptReturns
<1>2. CASE Finish(c, r)
  <2>1. WaitsOf(c) /\ waits' = waits /\ pc'[c] = "idle"
    BY <1>1, <1>2 DEF Types, WaitsOf, Finish, Goto
  <2>2. Waits(c)'
    BY <1>1, <2>1, WaitsStay
  <2> QED  BY <2>1, <2>2, WaitsStepped DEF WaitsInv
<1>3. ASSUME NEW b \in ComputeBackoff(policy[c], attempt[c]),
             waits' = [waits EXCEPT ![c] = Append(@, b)], Goto(c, "backoff")
      PROVE  WaitsInv'
  <2>1. /\ Limits(policy[c]) /\ waits[c] \in Seq(Int) /\ Len(waits[c]) = attempt[c] - 1
        /\ attempt[c] \in Nat \ {0}
    BY <1>1 DEF Waits
  <2>2. b \in Int
    BY <2>1, BackoffBounds, PolicyAssumption
  <2>3. /\ waits'[c] = Append(waits[c], b) /\ waits' \in [Caller -> Seq(Int)]
        /\ pc'[c] = "backoff" /\ WaitsOf(c)
    BY <1>1, <1>3, <2>1, <2>2 DEF Types, WaitsInv, WaitsOf, Goto
  <2>4. /\ waits'[c] \in Seq(Int) /\ Len(waits'[c]) = Len(waits[c]) + 1
        /\ waits'[c][attempt[c]] = b
        /\ \A n \in 1 .. Len(waits[c]) : waits'[c][n] = waits[c][n]
    BY <2>1, <2>2, <2>3, AppendProperties
  <2>5. \A n \in 1 .. Len(waits'[c]) : n = attempt[c] \/ n \in 1 .. Len(waits[c])
    BY <2>1, <2>4
  <2>6. Waits(c)'
    BY <1>1, <1>3, <2>1, <2>3, <2>4, <2>5 DEF Waits
  <2> QED  BY <2>3, <2>6, WaitsStepped
<1> QED  BY <1>2, <1>3 DEF AttemptReturns

LEMMA WaitsOther ==
    ASSUME Types, WaitsInv, NEW c \in Caller, Attempt(c) \/ Request(c) \/ TimerFires(c) \/ Cancelled(c)
    PROVE  WaitsInv'
<1>1. waits' = waits /\ policy' = policy /\ Waits(c) /\ WaitsOf(c)
  BY DEF Types, WaitsInv, Attempt, Request, TimerFires, Cancelled, Finish, Goto, loopVars, WaitsOf
<1>2. CASE TimerFires(c)
  <2>1. pc[c] = "backoff" /\ pc'[c] = "attempt" /\ attempt'[c] = attempt[c] + 1 /\ attempt[c] \in Nat
    BY <1>2 DEF Types, TimerFires, Goto
  <2>2. Waits(c)'
    BY <1>1, <2>1 DEF Waits
  <2> QED  BY <1>1, <2>2, WaitsStepped DEF WaitsInv
<1>3. CASE Attempt(c) \/ Request(c) \/ Cancelled(c)
  <2>1. /\ attempt' = attempt
        /\ pc'[c] = pc[c] \/ pc'[c] = "idle" \/ {pc[c], pc'[c]} \subseteq {"attempt", "request"}
    BY <1>3 DEF Types, Attempt, Request, Cancelled, Finish, Goto, loopVars
  <2>2. Waits(c)'
    BY <1>1, <2>1, WaitsStay
  <2> QED  BY <1>1, <2>2, WaitsStepped DEF WaitsInv
<1> QED  BY <1>2, <1>3

\* No wait is longer than the policy allows, and none shorter than the one before
\* it while their product fits a Duration (computeBackoff, normalizeRetryPolicy),
\* for any policy and any number of attempts.
THEOREM BackoffBounded == Spec => []BackoffInBounds
<1>1. Init => WaitsInv
  BY DEF Init, WaitsInv, Waits, Limits
<1>2. RetryInv => Types
  BY DEF RetryInv
<1>3. Types /\ WaitsInv /\ [Next]_vars => WaitsInv'
  <2> SUFFICES ASSUME Types, WaitsInv, [Next]_vars PROVE WaitsInv'
    OBVIOUS
  <2>1. CASE UNCHANGED <<pc, policy, attempt, waits>>
    BY <2>1 DEF WaitsInv, Waits
  <2>2. Environment \/ (\E c \in Caller : Expire(c)) \/ UNCHANGED vars => UNCHANGED <<pc, policy, attempt, waits>>
    BY DEF Environment, Expire, vars, loopVars
  <2> QED  BY <2>1, <2>2, WaitsStarted, WaitsReturned, WaitsOther DEF Next
<1>4. WaitsInv => BackoffInBounds
  <2> SUFFICES ASSUME WaitsInv, NEW c \in Caller, NEW n \in DOMAIN waits[c]
               PROVE  /\ waits[c][n] \in -MaxDuration - 1 .. policy[c].max
                      /\ policy[c].initial * Pow[n - 1] <= MaxDuration =>
                           waits[c][n] >= IF n = 1 THEN policy[c].initial ELSE waits[c][n - 1]
    BY DEF BackoffInBounds
  <2> DEFINE p == policy[c]
  <2>1. /\ Limits(p) /\ n \in Nat \ {0} /\ waits[c][n] \in ComputeBackoff(p, n) /\ waits[c][n] \in Int
        /\ n # 1 => n \in Nat \ {0, 1} /\ waits[c][n - 1] \in ComputeBackoff(p, n - 1)
    <3>1. /\ Limits(p) /\ waits[c] \in Seq(Int) /\ n \in 1 .. Len(waits[c])
          /\ \A m \in 1 .. Len(waits[c]) : waits[c][m] \in ComputeBackoff(p, m)
      BY DEF WaitsInv, Waits
    <3>2. n \in Nat \ {0} /\ waits[c][n] \in Int
      BY <3>1
    <3>3. n # 1 => n \in Nat \ {0, 1} /\ n - 1 \in 1 .. Len(waits[c])
      BY <3>1
    <3> QED  BY <3>1, <3>2, <3>3
  <2> HIDE DEF p
  <2>2. /\ waits[c][n] \in -MaxDuration - 1 .. p.max
        /\ n = 1 => waits[c][n] = p.initial
    BY <2>1, BackoffBounds
  <2>3. n # 1 /\ p.initial * Pow[n - 1] <= MaxDuration => waits[c][n] >= waits[c][n - 1]
    BY <2>1, BackoffGrows
  <2> QED  BY <2>1, <2>2, <2>3 DEF p
<1> QED  BY <1>1, <1>2, <1>3, <1>4, RetryInvariant, PTL DEF Spec
=============================================================================
