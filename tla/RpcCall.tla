------------------------------- MODULE RpcCall -------------------------------
(***************************************************************************)
(* What a goroutine that calls the JSON-RPC client is promised: the        *)
(* abstract specification that RpcClient implements (RpcClientRefinement)  *)
(* and RequestRetry builds on.  Nothing here of locks, channels, the       *)
(* pending map, the read loop or the body of Close.                        *)
(*                                                                         *)
(* A request draws an id nobody had before, sends it at most once, and     *)
(* returns the first answer to that very id, or tells why there is none.   *)
(***************************************************************************)
EXTENDS Naturals

CONSTANTS
    Caller,     \* goroutines that call the client
    Result      \* what an answer may say, "ok" included

ASSUME ResultAssumption == "ok" \in Result /\ Result \cap {"refused", "closed", "failed"} = {}

VARIABLES
    phase,      \* phase[c]: idle, or inside a request or a notification
    request,    \* request[c]: the id of its request, 0 while it has none
    outcome,    \* outcome[c]: what its last call returned
    last,       \* last id drawn
    sent,       \* ids on the wire
    answers,    \* the answers that count: the first to each id, with the id
    closing     \* Close was called

callVars == <<phase, request, outcome, last, sent, answers, closing>>

\* Every variable has its type; what was sent had been drawn, what was answered sent.
CallTypeOK ==
    /\ phase \in [Caller -> {"idle", "request", "notification"}]
    /\ last \in Nat
    /\ request \in [Caller -> 0 .. last]
    /\ outcome \in [Caller -> Result \cup {"none", "refused", "closed", "failed"}]
    /\ sent \subseteq 1 .. last
    /\ answers \subseteq sent \X Result
    /\ closing \in BOOLEAN

CallInit ==
    /\ phase = [c \in Caller |-> "idle"]
    /\ request = [c \in Caller |-> 0]
    /\ outcome = [c \in Caller |-> "none"]
    /\ last = 0
    /\ sent = {}
    /\ answers = {}
    /\ closing = FALSE

-----------------------------------------------------------------------------
\* Request, or one of Notify, Respond and RespondError, is called.
Begin(c, kind) ==
    /\ phase[c] = "idle"
    /\ phase' = [phase EXCEPT ![c] = kind]
    /\ request' = [request EXCEPT ![c] = 0]
    /\ outcome' = [outcome EXCEPT ![c] = "none"]
    /\ UNCHANGED <<last, sent, answers, closing>>

\* The request gets its id.
Issue(c) ==
    /\ phase[c] = "request" /\ request[c] = 0
    /\ last' = last + 1
    /\ request' = [request EXCEPT ![c] = last + 1]
    /\ UNCHANGED <<phase, outcome, sent, answers, closing>>

Transmit(c) ==
    /\ phase[c] = "request" /\ request[c] # 0 /\ request[c] \notin sent
    /\ sent' = sent \cup {request[c]}
    /\ UNCHANGED <<phase, request, outcome, last, answers, closing>>

\* The client receives the first answer to a request it sent.
Answer(i, r) ==
    /\ i \in sent /\ \A a \in answers : a[1] # i
    /\ answers' = answers \cup {<<i, r>>}
    /\ UNCHANGED <<phase, request, outcome, last, sent, closing>>

CloseClient ==
    /\ closing' = TRUE
    /\ UNCHANGED <<phase, request, outcome, last, sent, answers>>

\* How the call of c may end: refused by the handshake before it had an id,
\* because the client closes, with an error of its own (context, transport),
\* with its answer, or, for a notification, without one.
Deserves(c, r) ==
    CASE r = "refused" -> request[c] = 0
      [] r = "closed"  -> closing
      [] r = "failed"  -> TRUE
      [] OTHER         -> \/ <<request[c], r>> \in answers
                          \/ phase[c] = "notification" /\ r = "ok"

Return(c, r) ==
    /\ phase[c] # "idle"
    /\ Deserves(c, r)
    /\ phase' = [phase EXCEPT ![c] = "idle"]
    /\ outcome' = [outcome EXCEPT ![c] = r]
    /\ UNCHANGED <<request, last, sent, answers, closing>>

Endings == Result \cup {"refused", "closed", "failed"}

CallNext ==
    \/ \E c \in Caller :
         \/ \E kind \in {"request", "notification"} : Begin(c, kind)
         \/ Issue(c) \/ Transmit(c)
         \/ \E r \in Endings : Return(c, r)
    \/ \E i \in sent, r \in Result : Answer(i, r)
    \/ CloseClient

CallSpec == CallInit /\ [][CallNext]_callVars

\* A call that has its answer, or whose client closes, returns.
Released(c) == closing \/ \E a \in answers : a[1] = request[c]
CallsReturn == \A c \in Caller : (phase[c] # "idle" /\ Released(c)) ~> phase[c] = "idle"
=============================================================================
