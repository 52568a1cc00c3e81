------------------------------- MODULE Builtins -------------------------------
(***************************************************************************)
(* The built-in harnesses of pkg/harness/builtin that react to             *)
(* notifications - plan gate, review gate, TDD loop, auto-compaction -     *)
(* composed into one dispatcher.  Any number of goroutines may be inside   *)
(* DispatchNotification at once: the harnesses share their state between   *)
(* them under a mutex each, and call their controller outside of it, all   *)
(* but auto-compaction, which calls it with the mutex held.  The fifth     *)
(* harness, the autopilot, answers requests and has no state: Autopilot.   *)
(*                                                                         *)
(* A step is one critical section or one call of a callback; controllers   *)
(* and the approval callback are the user's and may return anything.  All   *)
(* harnesses have a controller: without one they ask for nothing.          *)
(***************************************************************************)
EXTENDS Autopilot, FiniteSets, SequencesExt

CONSTANTS
    Goroutine,      \* goroutines that dispatch notifications
    Thread, Turn,   \* thread and turn ids
    Event,          \* the notifications dispatched
    Composed,       \* the harnesses, in the order Compose is given them
    MaxIterations,  \* TDDLoopConfig
    MaxEvents,      \* bound: the notifications dispatched
    None            \* an id that is missing, a mutex nobody holds

Harness == {"plan", "review", "tdd", "compact"}
Level   == {"low", "middle", "high", "unknown"}     \* what tokenUsageRatio makes of the event

ASSUME EventAssumption ==
    \A e \in Event : /\ e.thread \in Thread \cup {None} /\ e.turn \in Turn \cup {None}
                     /\ e.completed \in BOOLEAN /\ e.level \in Level
ASSUME ComposedAssumption  == Composed \in Seq(Harness)
ASSUME NoneAssumption      == None \notin Goroutine \cup Thread \cup Turn
ASSUME IterationAssumption == MaxIterations \in Nat \ {0}

VARIABLES
    pc,         \* pc[g]: where goroutine g is
    event,      \* event[g]: the notification it dispatches
    todo,       \* todo[g]: handlers still to return, from the snapshot
    seen,       \* seen[h]: the turns the gate h has taken
    iterations, \* iterations[t]: completed turns the TDD loop has counted
    requested,  \* threads whose compaction was requested
    mutex,      \* holder of auto-compaction's mutex
    dispatched, \* notifications dispatched so far
    job,        \* job[g]: the number of the dispatch g is in
    verdict,    \* verdict[n]: what the n-th dispatch returned
    made        \* history: the calls that returned, and the low readings

harnessVars == <<seen, iterations, requested>>
frame       == <<event, todo, job>>     \* the locals of a dispatch
vars == <<pc, frame, dispatched, verdict, harnessVars, mutex, made>>

Gate     == {"plan", "review"}
Call     == {"steer", "interrupt", "review", "followup", "tests", "fix", "compact"}
Location == {"idle", "next", "approve"} \cup Call
Made     == [job : Nat, call : Call \cup {"low"}, thread : Thread,
             turn : Turn \cup {None}, ok : BOOLEAN, more : BOOLEAN]

Init ==
    /\ pc = [g \in Goroutine |-> "idle"]
    /\ event = [g \in Goroutine |-> None]
    /\ todo = [g \in Goroutine |-> <<>>]
    /\ seen = [h \in Gate |-> {}]
    /\ iterations = [t \in Thread |-> 0]
    /\ requested = {}
    /\ mutex = None
    /\ dispatched = 0
    /\ job = [g \in Goroutine |-> 0]
    /\ verdict = <<>>
    /\ made = <<>>

-----------------------------------------------------------------------------
(* The dispatcher.                                                         *)

At(g, l)   == pc[g] = l
Goto(g, l) == pc' = [pc EXCEPT ![g] = l]

\* The method a harness binds its handler to.
Method(h) == CASE h = "plan"    -> "turn/plan/updated"
               [] h = "compact" -> "thread/tokenUsage/updated"
               [] OTHER         -> "turn/completed"

\* Compose and notificationHandlersFor: a copy.  Handlers bound to "*" would come
\* last; no built-in harness has one.
HandlersFor(m) == SelectSeq(Composed, LAMBDA h : Method(h) = m)

DispatchNotification(g, e) ==
    /\ At(g, "idle") /\ dispatched < MaxEvents
    /\ Goto(g, "next")
    /\ event' = [event EXCEPT ![g] = e]
    /\ todo' = [todo EXCEPT ![g] = HandlersFor(e.method)]
    /\ dispatched' = dispatched + 1
    /\ job' = [job EXCEPT ![g] = dispatched + 1]
    /\ verdict' = Append(verdict, "none")
    /\ UNCHANGED <<harnessVars, mutex, made>>

Returns(g, v) ==
    /\ Goto(g, "idle")
    /\ verdict' = [verdict EXCEPT ![job[g]] = v]
    /\ event' = [event EXCEPT ![g] = None]
    /\ todo' = [todo EXCEPT ![g] = <<>>]
    /\ job' = [job EXCEPT ![g] = 0]

\* The handler of g that runs returns nil, or an error: that ends the dispatch.
\* Stay: it goes on.
Continue(g) ==
    /\ Goto(g, "next")
    /\ todo' = [todo EXCEPT ![g] = Tail(@)]
    /\ UNCHANGED <<event, job, verdict>>
Fail(g) == Returns(g, "error")
Stay(g, l) == Goto(g, l) /\ UNCHANGED <<frame, verdict>>

\* All handlers have returned nil.
Dispatched(g) ==
    /\ At(g, "next") /\ todo[g] = <<>>
    /\ Returns(g, "nil")
    /\ UNCHANGED <<dispatched, harnessVars, mutex, made>>

Enters(g, h) == At(g, "next") /\ todo[g] # <<>> /\ Head(todo[g]) = h

\* A call of g returns; `more' is what it told the harness.
Record(g, call, ok, more) ==
    made' = Append(made, [job |-> job[g], call |-> call, thread |-> event[g].thread,
                          turn |-> event[g].turn, ok |-> ok, more |-> more])

\* The handler ends with this call: its error, or nil, is the handler's.
LastCall(g, call) ==
    /\ At(g, call)
    /\ \E ok \in BOOLEAN : Record(g, call, ok, FALSE) /\ IF ok THEN Continue(g) ELSE Fail(g)
    /\ UNCHANGED <<dispatched, harnessVars, mutex>>

\* Mutation: an error of the call is taken for nothing more to do.
FirstCallSwallows(g, call, next) ==
    /\ At(g, call)
    /\ \E ok, more \in BOOLEAN :
         /\ Record(g, call, ok, ok /\ more)
         /\ IF ok /\ more THEN Stay(g, next) ELSE Continue(g)
    /\ UNCHANGED <<dispatched, harnessVars, mutex>>

\* The handler goes on to `next' when the call says there is more to do.
FirstCall(g, call, next) ==
    /\ At(g, call)
    /\ \E ok, more \in BOOLEAN :
         /\ Record(g, call, ok, ok /\ more)
         /\ CASE ok /\ more  -> Stay(g, next)
              [] ok /\ ~more -> Continue(g)
              [] OTHER       -> Fail(g)
    /\ UNCHANGED <<dispatched, harnessVars, mutex>>

-----------------------------------------------------------------------------
(* Plan gate and review gate: the first event of a turn is taken, under    *)
(* the gate's mutex, before anything is done about it.                     *)

\* The code's key is the text thread:turn; ids with a colon in them could make
\* two turns one, which the pair never does.
TurnOf(g) == <<event[g].thread, event[g].turn>>

HasIds(g) == event[g].thread # None /\ event[g].turn # None

Concerns(g, h) == HasIds(g) /\ (h = "review" => event[g].completed)

\* Mutation: a turn is marked as seen only when its handler has returned.
TakeUnmarked(g, h, first) ==
    /\ Enters(g, h)
    /\ IF Concerns(g, h) /\ TurnOf(g) \notin seen[h]
       THEN Stay(g, first) /\ UNCHANGED seen
       ELSE Continue(g) /\ UNCHANGED seen
    /\ UNCHANGED <<dispatched, iterations, requested, mutex, made>>

Take(g, h, first) ==
    /\ Enters(g, h)
    /\ IF Concerns(g, h) /\ TurnOf(g) \notin seen[h]
       THEN /\ seen' = [seen EXCEPT ![h] = @ \cup {TurnOf(g)}]
            /\ Stay(g, first)
       ELSE Continue(g) /\ UNCHANGED seen
    /\ UNCHANGED <<dispatched, iterations, requested, mutex, made>>

\* cfg.Approve; without one the plan is approved.
Approve(g) ==
    /\ At(g, "approve")
    /\ \/ \E call \in {"steer", "interrupt"} : Stay(g, call)
       \/ Fail(g)
    /\ UNCHANGED <<dispatched, harnessVars, mutex, made>>

PlanGate(g) == Take(g, "plan", "approve") \/ Approve(g)
               \/ LastCall(g, "steer") \/ LastCall(g, "interrupt")

ReviewGate(g) == Take(g, "review", "review") \/ FirstCall(g, "review", "followup")
                 \/ LastCall(g, "followup")

-----------------------------------------------------------------------------
(* TDD loop: every completed turn of a thread counts as an iteration.      *)

\* Mutation: an iteration is counted only when the tests have run.
CountAfter(g) ==
    /\ Enters(g, "tdd")
    /\ LET t == event[g].thread
           ran == Cardinality({n \in DOMAIN made : made[n].call = "tests" /\ made[n].thread = t}) IN
         IF t # None /\ event[g].completed
         THEN /\ iterations' = [iterations EXCEPT ![t] = @ + 1]
              /\ IF ran < MaxIterations
                 THEN Stay(g, "tests")
                 ELSE Continue(g)
         ELSE Continue(g) /\ UNCHANGED iterations
    /\ UNCHANGED <<dispatched, seen, requested, mutex, made>>

Count(g) ==
    /\ Enters(g, "tdd")
    /\ LET t == event[g].thread IN
         IF t # None /\ event[g].completed
         THEN /\ iterations' = [iterations EXCEPT ![t] = @ + 1]
              /\ IF iterations[t] < MaxIterations
                 THEN Stay(g, "tests")
                 ELSE Continue(g)
         ELSE Continue(g) /\ UNCHANGED iterations
    /\ UNCHANGED <<dispatched, seen, requested, mutex, made>>

TDDLoop(g) == Count(g) \/ FirstCall(g, "tests", "fix") \/ LastCall(g, "fix")

-----------------------------------------------------------------------------
(* Auto-compaction.                                                        *)

\* An event without thread or ratio is passed over; else the mutex is taken.  It
\* is let go in the same step unless a compaction is to be started.
Measure(g) ==
    /\ Enters(g, "compact")
    /\ LET t == event[g].thread
           level == event[g].level
       IN
       \/ /\ t = None \/ level = "unknown"
          /\ Continue(g) /\ UNCHANGED <<requested, mutex, made>>
       \/ /\ t # None /\ mutex = None
          /\ \/ /\ level = "low"
                /\ requested' = requested \ {t}
                /\ Record(g, "low", TRUE, FALSE)
                /\ Continue(g) /\ UNCHANGED mutex
             \/ /\ level = "middle" \/ (level = "high" /\ t \in requested)
                /\ Continue(g) /\ UNCHANGED <<requested, mutex, made>>
             \/ /\ level = "high" /\ t \notin requested
                /\ mutex' = g
                /\ Stay(g, "compact")
                /\ UNCHANGED <<requested, made>>
    /\ UNCHANGED <<dispatched, seen, iterations>>

\* Mutations of Compact: the request is remembered when it failed; the mutex is
\* kept when it failed.
CompactAlways(g) ==
    /\ At(g, "compact")
    /\ mutex' = None
    /\ requested' = requested \cup {event[g].thread}
    /\ \E ok \in BOOLEAN :
         /\ Record(g, "compact", ok, FALSE)
         /\ IF ok THEN Continue(g) ELSE Fail(g)
    /\ UNCHANGED <<dispatched, seen, iterations>>
CompactKeepsMutex(g) ==
    /\ At(g, "compact")
    /\ \E ok \in BOOLEAN :
         /\ mutex' = IF ok THEN None ELSE mutex
         /\ requested' = IF ok THEN requested \cup {event[g].thread} ELSE requested
         /\ Record(g, "compact", ok, FALSE)
         /\ IF ok THEN Continue(g) ELSE Fail(g)
    /\ UNCHANGED <<dispatched, seen, iterations>>

\* StartCompaction returns, and the deferred unlock runs.
Compact(g) ==
    /\ At(g, "compact")
    /\ mutex' = None
    /\ \E ok \in BOOLEAN :
         /\ requested' = IF ok THEN requested \cup {event[g].thread} ELSE requested
         /\ Record(g, "compact", ok, FALSE)
         /\ IF ok THEN Continue(g) ELSE Fail(g)
    /\ UNCHANGED <<dispatched, seen, iterations>>

AutoCompact(g) == Measure(g) \/ Compact(g)

-----------------------------------------------------------------------------
Step(g) == PlanGate(g) \/ ReviewGate(g) \/ TDDLoop(g) \/ AutoCompact(g)
           \/ Dispatched(g)

Next == \E g \in Goroutine : Step(g) \/ \E e \in Event : DispatchNotification(g, e)

Spec == Init /\ [][Next]_vars

\* Goroutines run, controllers and callbacks return, and sync.Mutex starves
\* nobody.  Nothing obliges anyone to dispatch.
FairSpec == Spec /\ \A g \in Goroutine : SF_vars(Step(g))

-----------------------------------------------------------------------------
(* What the harnesses promise.                                             *)

CallsOf(S, t) == {n \in DOMAIN made : made[n].call \in S /\ made[n].thread = t}
Inside(S, t)  == {g \in Goroutine : pc[g] \in S /\ event[g].thread = t}

\* A turn is steered, interrupted or reviewed once, whatever repeats of its
\* event are dispatched, one after the other or at the same time.
OneGatePerTurn ==
    \A S \in {{"steer", "interrupt"}, {"review"}} :
        \A t \in Thread : \A m, n \in CallsOf(S, t) : made[m].turn = made[n].turn => m = n

\* The TDD loop runs the tests for the first MaxIterations completed turns of a
\* thread and no others, concurrent ones included, and asks for a fix only
\* after a failed run, once.
TestBudget ==
    \A t \in Thread :
        LET runs  == Cardinality(CallsOf({"tests"}, t)) + Cardinality(Inside({"tests"}, t))
            fixes == Cardinality(CallsOf({"fix"}, t)) + Cardinality(Inside({"fix"}, t))
            fails == {n \in CallsOf({"tests"}, t) : made[n].more}
        IN /\ runs = IF iterations[t] < MaxIterations THEN iterations[t] ELSE MaxIterations
           /\ fixes = Cardinality(fails)

\* Between two compactions of a thread that succeeded its usage was low; one
\* that failed is asked for again.
Compactions(t)   == {n \in CallsOf({"compact"}, t) : made[n].ok}
CompactsOnce ==
    \A t \in Thread :
        /\ \A m, n \in Compactions(t) : m < n => \E k \in CallsOf({"low"}, t) : m < k /\ k < n
        /\ t \in requested <=>
             \E m \in Compactions(t) : \A k \in CallsOf({"low"}, t) : k < m

\* The first failed call of the controller ends a dispatch: no handler after it
\* calls anything, and the caller gets the error.  An error of the configured
\* Approve function is no call of the controller and is not looked at here.
ErrorEndsDispatch ==
    \A n \in DOMAIN made : ~made[n].ok =>
        /\ verdict[made[n].job] = "error"
        /\ \A m \in DOMAIN made : made[m].job = made[n].job => m <= n

\* The lines changed by the first changes of a list, those no object left out.
LinesOf(change) == IF change.object THEN change.added + change.removed ELSE 0
Lines(changes) ==
    LET sum[n \in 0 .. Len(changes)] == IF n = 0 THEN 0 ELSE sum[n - 1] + LinesOf(changes[n])
    IN sum

\* The numbers of a list of changes are ints, and so is their sum.
AllInts(changes) ==
    /\ \A n \in DOMAIN changes : changes[n].object => {changes[n].added, changes[n].removed} \subseteq IntRange
    /\ Lines(changes)[Len(changes)] \in IntRange

\* The autopilot accepts no denied path that it can read, wherever in the list:
\* entries that are no objects are passed over and hide nothing of the others.
\* As long as the numbers and their sum are ints a change of files is accepted
\* exactly when no path is denied and together the changes are in bounds; beyond
\* that the count wraps, and how large a change is no longer matters.  A
\* command is accepted for what it says, or for its first action that says
\* anything, never for a later one.  No state matters, so the initial one is
\* enough to look at.
AutopilotJudgesAll ==
    dispatched = 0 =>
        /\ \A changes \in FileChanges, max \in LineLimits :
             LET accepted == FileChangeDecision(changes, max) = "acceptForSession"
                 allowed  == \A n \in DOMAIN changes : changes[n].object => ~changes[n].denied
             IN /\ accepted => allowed
                /\ AllInts(changes) =>
                      (accepted <=> allowed /\ Lines(changes)[Len(changes)] <= max)
        /\ \A command \in Commands, actions \in CommandActions :
             CommandDecision(command, actions) = "acceptForSession" <=>
                 \/ command \in SafeCommands \ Blank
                 \/ command \in Blank /\ \E n \in DOMAIN actions :
                      actions[n] \in SafeCommands \ Blank /\ \A m \in 1 .. n-1 : actions[m] \in Blank
                 \/ /\ command \in Blank /\ \A n \in DOMAIN actions : actions[n] \in Blank
                    /\ "" \in SafeCommands      \* a blank prefix lets every command pass

\* Every dispatch ends, although compaction calls out with its mutex held.
DispatchEnds == \A g \in Goroutine : ~At(g, "idle") ~> At(g, "idle")
=============================================================================
