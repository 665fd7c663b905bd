------------------------------- MODULE Dispatch --------------------------------
(***************************************************************************)
(* What becomes of an event of one session between its submission and the  *)
(* end of its task: the resolver, the handlers that the registry finds for *)
(* the route, and for each of them the execution pipeline: gateway, guards,*)
(* interceptors, the pipes of the parameters side by side, the handler,    *)
(* and the exception filters.  All of them are application code that       *)
(* answers when it likes, and the session's signal may abort at any time.  *)
(*                                                                         *)
(* Abstracted: one guard stands for all the guards and one interceptor for *)
(* the chain.  Each invocation resolves its enhancers for itself: the      *)
(* runtime always gives the session's context id, for which the pipeline   *)
(* keeps none.  An interceptor that asks for the handler asks once and     *)
(* waits for it.  An error of the server's scope stops the event here, and *)
(* the runtime elsewhere.                                                  *)
(***************************************************************************)
EXTENDS Integers, Sequences, Functions

CONSTANTS
    Events,           \* the events dispatched at the same time
    Parameters,       \* the parameters of every handler
    Named, Fallback   \* the handlers of the named route, and of no route

ASSUME Registered == Named \in Seq(Range(Named)) /\ Fallback \in Seq(Range(Fallback))
ASSUME EachOnce == IsInjective(Named \o Fallback)

VARIABLES
    aborted,   \* the signal of the session's context
    phase,     \* what the task of an event waits for
    rest,      \* the handlers left, the one under way first
    parsing,   \* parameters whose pipes the invocation waits for
    allowed,   \* handlers that a guard has allowed
    called,    \* handlers that were called, in order
    halted     \* an error ended the event, not only its handler

dispatchVars == <<aborted, phase, rest, parsing, allowed, called, halted>>

Handlers == Range(Named \o Fallback)
Routes == {"none", "empty", "named"}

DispatchTypeOK ==
    /\ aborted \in BOOLEAN
    /\ phase \in [Events -> {"routing", "gateway", "enhancers", "guard", "interceptors",
                             "interceptor", "pipes", "handler", "filters", "filter", "over"}]
    /\ rest \in [Events -> Seq(Handlers)]
    /\ \A e \in Events :
          /\ phase[e] \notin {"routing", "over"} => rest[e] # <<>>
          /\ phase[e] # "pipes" => parsing[e] = {}
    /\ parsing \in [Events -> SUBSET Parameters]
    /\ allowed \in [Events -> SUBSET Handlers] /\ halted \in [Events -> BOOLEAN]
    /\ called \in [Events -> Seq(Handlers)]

DispatchInit ==
    /\ aborted = FALSE
    /\ phase = [e \in Events |-> "routing"] /\ rest = [e \in Events |-> <<>>]
    /\ parsing = [e \in Events |-> {}]
    /\ allowed = [e \in Events |-> {}] /\ called = [e \in Events |-> <<>>]
    /\ halted = [e \in Events |-> FALSE]

-----------------------------------------------------------------------------
(* The loop over the handlers, and how an error leaves it *)

Becomes(e, p) == phase' = [phase EXCEPT ![e] = p]

Over(e) == Becomes(e, "over") /\ UNCHANGED rest

\* The head of the loop: the signal, then the next invocation.
Loop(e, handlers) ==
    IF aborted \/ handlers = <<>> THEN Over(e)
    ELSE Becomes(e, "gateway") /\ rest' = [rest EXCEPT ![e] = handlers]

\* Mutants: an error of the application leaves the loop; it calls the same
\* handler again.
IsolatedNever(e) == Over(e)
IsolatedRetried(e) == Loop(e, rest[e])

\* HANDLER, and errors of the application.
Isolated(e) == Loop(e, Tail(rest[e]))

\* handleRuntimeError(): on to the next handler; or the stream is reset, the
\* session closed or the server stopped, and the event is over.
Policy(e) ==
    \/ Isolated(e) /\ UNCHANGED <<aborted, halted>>
    \/ Over(e) /\ halted' = [halted EXCEPT ![e] = TRUE] /\ aborted' \in {aborted, TRUE}

\* Mutant: filters also look at what the end of the session has caused.
ThrownAlways(e) == Becomes(e, "filters") /\ UNCHANGED rest

\* An error in invoke(), once the gateway is there.
Thrown(e) ==
    IF aborted THEN Over(e)
    ELSE Becomes(e, "filters") /\ UNCHANGED rest

\* The signal is checked again after a wait.
Passes(e, next) == IF aborted THEN Over(e) ELSE Becomes(e, next) /\ UNCHANGED rest

-----------------------------------------------------------------------------
(* Routing *)

\* Mutant: an empty route is looked up like any other.
FoundForEmpty(route) ==
    (CASE route = "named" -> Named [] route = "empty" -> Fallback [] OTHER -> <<>>) \o Fallback

\* find(): the handlers of the route, then those without one.
Found(route) == (IF route = "named" THEN Named ELSE <<>>) \o Fallback

\* The resolver answers; a stream without handlers is reset.
Route(e) ==
    /\ phase[e] = "routing"
    /\ \E route \in Routes : Loop(e, Found(route))
    /\ UNCHANGED <<aborted, parsing, allowed, called, halted>>

\* The resolver throws, and the task with it.
RouteFails(e) ==
    /\ phase[e] = "routing"
    /\ Over(e) /\ halted' = [halted EXCEPT ![e] = TRUE]
    /\ UNCHANGED <<aborted, parsing, allowed, called>>

-----------------------------------------------------------------------------
(* invoke() *)

GatewayResolved(e) ==
    /\ phase[e] = "gateway"
    /\ Passes(e, "enhancers")
    /\ UNCHANGED <<aborted, parsing, allowed, called, halted>>

\* Outside of the try block: no filter sees it.
GatewayFails(e) ==
    /\ phase[e] = "gateway"
    /\ Policy(e)
    /\ UNCHANGED <<parsing, allowed, called>>

EnhancersResolved(e) ==
    /\ phase[e] = "enhancers"
    /\ Passes(e, "guard")
    /\ UNCHANGED <<aborted, parsing, allowed, called, halted>>

\* Mutant: the handler goes without a guard that cannot be resolved.
Unguarded(e) == Passes(e, "interceptors")

\* The guards cannot be resolved, those of other invocations may.
EnhancersMissing(e) == Thrown(e)

EnhancersFail(e) ==
    /\ phase[e] = "enhancers"
    /\ EnhancersMissing(e)
    /\ UNCHANGED <<aborted, parsing, allowed, called, halted>>

GuardAllows(e) ==
    /\ phase[e] = "guard"
    /\ Passes(e, "interceptors")
    /\ allowed' = [allowed EXCEPT ![e] = @ \cup {Head(rest[e])}]
    /\ UNCHANGED <<aborted, parsing, called, halted>>

\* A guard refuses or throws; interceptors cannot be resolved; an interceptor,
\* or the handler, throws.
StageFails(e) ==
    /\ phase[e] \in {"guard", "interceptors", "interceptor", "handler"}
    /\ Thrown(e)
    /\ UNCHANGED <<aborted, parsing, allowed, called, halted>>

InterceptorsResolved(e) ==
    /\ phase[e] = "interceptors"
    /\ Passes(e, "interceptor")
    /\ UNCHANGED <<aborted, parsing, allowed, called, halted>>

\* An interceptor answers in the place of the handler, or passes its answer on.
Answered(e) ==
    /\ phase[e] \in {"interceptor", "handler"}
    /\ Loop(e, Tail(rest[e]))
    /\ UNCHANGED <<aborted, parsing, allowed, called, halted>>

\* next.handle(): createArguments() starts the pipes of every parameter.
Handle(e) ==
    /\ phase[e] = "interceptor"
    /\ IF aborted THEN Over(e) /\ UNCHANGED parsing
       ELSE /\ Becomes(e, "pipes") /\ UNCHANGED rest
            /\ parsing' = [parsing EXCEPT ![e] = Parameters]
    /\ UNCHANGED <<aborted, allowed, called, halted>>

PipesPass(e, p) ==
    /\ p \in parsing[e]
    /\ parsing' = [parsing EXCEPT ![e] = @ \ {p}]
    /\ UNCHANGED <<aborted, phase, rest, allowed, called, halted>>

\* The pipes cannot be resolved, one throws, or it finds the signal aborted
\* before it starts.  Promise.all does not wait for the others, whose answers
\* nobody looks at any more.
PipesFail(e) ==
    /\ phase[e] = "pipes"
    /\ Parameters # {} => parsing[e] # {}
    /\ parsing' = [parsing EXCEPT ![e] = {}]
    /\ Thrown(e)
    /\ UNCHANGED <<aborted, allowed, called, halted>>

\* Mutants: the invocation goes on with the first parameter; the signal is not
\* checked before the handler.
CompleteWithFirst(e) == parsing[e] # Parameters
InTimeAlways == TRUE

\* All the arguments are there.
Complete(e) == parsing[e] = {}
InTime == ~aborted

\* Promise.all has resolved: the handler is called, unless it is too late.
Call(e) ==
    /\ phase[e] = "pipes" /\ Complete(e)
    /\ IF InTime
       THEN /\ Becomes(e, "handler") /\ UNCHANGED rest
            /\ called' = [called EXCEPT ![e] = Append(@, Head(rest[e]))]
       ELSE Over(e) /\ UNCHANGED called
    /\ UNCHANGED <<aborted, parsing, allowed, halted>>

\* handleException() has found a filter for the error and calls it, without
\* a look at the signal.
FiltersResolved(e) ==
    /\ phase[e] = "filters"
    /\ Becomes(e, "filter")
    /\ UNCHANGED <<aborted, rest, parsing, allowed, called, halted>>

\* The filter answers.
FilterCatches(e) ==
    /\ phase[e] = "filter"
    /\ Loop(e, Tail(rest[e]))
    /\ UNCHANGED <<aborted, parsing, allowed, called, halted>>

\* The filters cannot be resolved, none is for this error, or the one called throws.
FilterFails(e) ==
    /\ phase[e] \in {"filters", "filter"}
    /\ Policy(e)
    /\ UNCHANGED <<parsing, allowed, called>>

Abort ==
    /\ ~aborted /\ aborted' = TRUE
    /\ UNCHANGED <<phase, rest, parsing, allowed, called, halted>>

-----------------------------------------------------------------------------
Step(e) ==
    \/ Route(e) \/ RouteFails(e) \/ GatewayResolved(e) \/ GatewayFails(e)
    \/ EnhancersResolved(e) \/ EnhancersFail(e) \/ GuardAllows(e) \/ StageFails(e)
    \/ InterceptorsResolved(e) \/ Answered(e) \/ Handle(e) \/ PipesFail(e) \/ Call(e)
    \/ FiltersResolved(e) \/ FilterCatches(e) \/ FilterFails(e)
    \/ \E p \in Parameters : PipesPass(e, p)

DispatchNext == Abort \/ \E e \in Events : Step(e)

DispatchSpec == DispatchInit /\ [][DispatchNext]_dispatchVars

\* The application's code answers.
LiveDispatchSpec == DispatchSpec /\ \A e \in Events : WF_dispatchVars(Step(e))

-----------------------------------------------------------------------------
(* Properties *)

\* No handler of a session that is over is called, whatever answers late.
NoLateCall == [][called' # called => ~aborted]_dispatchVars

\* A handler is called once for an event, whatever its route, and only after a
\* guard has allowed it for this event.
CalledOnceAllowed ==
    \A e \in Events : IsInjective(called[e]) /\ Range(called[e]) \subseteq allowed[e]

\* An error of one handler does not keep the event from the others.
NobodySkipped ==
    \A e \in Events : phase[e] = "over" => aborted \/ halted[e] \/ Len(rest[e]) <= 1

\* Nor does an invocation go on to its next stage, be it a gateway, a guard, an
\* interceptor, the pipes or the lookup of filters.  A filter that was being
\* looked up when the signal aborted is the exception: it is still called.
NoLateStage ==
    [][\A e \in Events :
         phase'[e] # phase[e] =>
            \/ ~aborted
            \/ phase'[e] = "over"
            \/ phase[e] = "filters" /\ phase'[e] = "filter"]_dispatchVars

\* Every event comes to its end once the application has answered.
EventsEnd == \A e \in Events : <>(phase[e] = "over")

\* Each event reaches its handlers: all of them, once, with permission.
HandlersReached == DispatchTypeOK /\ CalledOnceAllowed /\ NobodySkipped

\* Once the session is over, no handler is called and no stage begun for it,
\* but for the filter of an error from before.
NothingBegunAfterAbort == NoLateCall /\ NoLateStage
=============================================================================
