----------------------------- MODULE ApiServer ------------------------------
(***************************************************************************)
(* One API process: startup, requests through the middleware, the routes   *)
(* and the exception handlers, and shutdown (apps/api).  The server in     *)
(* front (uvicorn) is external: it lets requests in once startup has       *)
(* completed and shuts down once none is in flight.                        *)
(***************************************************************************)
EXTENDS Connection, ApiRoutes, ErrorPanels

CONSTANT Requests  \* request slots

VARIABLES
    phase,      \* of the process
    container,  \* the engine the services in app.state.container reach
    stage,      \* what each request is about to do
    route,      \* the route whose body is running
    raised,     \* the exception it has raised, if any
    cid,        \* the id in scope["state"]
    bound,      \* the id bound to the context variable of its task
    response,   \* what has been sent
    lines       \* the log lines about it

processVars == <<connectionVars, phase, container>>
requestVars == <<stage, route, raised, cid, bound, response, lines>>
vars == <<processVars, requestVars>>

\* A path or a method that no route takes.
NoRoute == "no route"

NoId == None

\* The id of a request, new or from its X-Request-ID header: its slot stands
\* for it.
Ids == Requests

\* The exceptions a request may end in, and the answers a client may get.
Failures ==
    {NoSuchRoute} \cup UNION
        {{RequestValidationError(<<t>>) : t \in RouteTable[to].schema}
            \cup {ValidationError(<<t>>) : t \in RouteTable[to].mapper}
            \cup RouteTable[to].raises \cup Always : to \in Routes}
Answers == {Handle(exc) : exc \in Failures}
              \cup {Success(RouteTable[to].status) : to \in Routes}

ASSUME ServerAssumption ==
    /\ None \notin Failures \cup Requests
    /\ \A answer \in Answers, r \in Requests : None # [answer |-> answer, ids |-> <<r>>]

-----------------------------------------------------------------------------
(* The process *)

Init ==
    /\ ConnectionInit
    /\ phase = "down"
    /\ container = None
    /\ stage = [r \in Requests |-> "free"]
    /\ route = [r \in Requests |-> NoRoute]
    /\ raised = [r \in Requests |-> None]
    /\ cid = [r \in Requests |-> NoId]
    /\ bound = [r \in Requests |-> NoId]
    /\ response = [r \in Requests |-> None]
    /\ lines = [r \in Requests |-> <<>>]

\* Faulty variant: requests are let in while the connection is checked.
ServeBeforeCheck ==
    /\ phase = "down"
    /\ phase' = "serving"
    /\ \E e \in EngineIds : BeginConnect(e) /\ container' = e
    /\ UNCHANGED requestVars

\* lifespan() up to its first await.
StartLifespan ==
    /\ phase = "down"
    /\ phase' = "connecting"
    /\ \E e \in EngineIds : BeginConnect(e)
    /\ UNCHANGED <<container, requestVars>>

\* connect() returns: the container is built on the connection, requests are
\* let in.
build_container(e) == container' = e
StartServing ==
    /\ phase = "connecting"
    /\ \E e \in connecting : ConnectSucceeds(e) /\ build_container(e)
    /\ phase' = "serving"
    /\ UNCHANGED requestVars

\* connect() raises: so does the lifespan, and the process ends.
StartupFails ==
    /\ phase = "connecting"
    /\ phase' = "failed"
    /\ \E e \in connecting : ConnectFails(e) \/ ConnectBreaks(e)
    /\ UNCHANGED <<container, requestVars>>

\* The process is told to stop: no further request is let in.
AskToStop ==
    /\ phase = "serving"
    /\ phase' = "draining"
    /\ UNCHANGED <<connectionVars, container, requestVars>>

\* Faulty variant: the connection is left to the end of the process.
StopWithoutDisconnect ==
    /\ phase = "draining"
    /\ \A r \in Requests : stage[r] = "free"
    /\ phase' = "stopped"
    /\ UNCHANGED <<connectionVars, container, requestVars>>

\* No request is in flight: the lifespan ends with disconnect().
StopLifespan ==
    /\ phase = "draining"
    /\ \A r \in Requests : stage[r] = "free"
    /\ Disconnect(container)
    /\ phase' = "stopped"
    /\ UNCHANGED <<container, requestVars>>

\* A new process.
Restart ==
    /\ phase \in {"stopped", "failed"}
    /\ phase' = "down"
    /\ engines' = {}
    /\ container' = None
    /\ abandoned' = {}
    /\ UNCHANGED <<connecting, requestVars>>

-----------------------------------------------------------------------------
(* A request *)

Go(r, to) == stage' = [stage EXCEPT ![r] = to]
Raise(r, exc) == /\ Go(r, "raised")
                 /\ raised' = [raised EXCEPT ![r] = exc]
                 /\ route' = [route EXCEPT ![r] = NoRoute]
Log(r, line) == lines' = [lines EXCEPT ![r] = Append(@, line)]

\* Faulty variant: requests are let in until the process has stopped.
ArriveUntilStopped(r, to) ==
    /\ phase \in {"serving", "draining"}
    /\ stage[r] = "free"
    /\ cid' = [cid EXCEPT ![r] = r]
    /\ bound' = [bound EXCEPT ![r] = r]
    /\ \/ to = NoRoute /\ Raise(r, NoSuchRoute)
       \/ /\ to \in Routes
          /\ Go(r, "parse")
          /\ route' = [route EXCEPT ![r] = to]
          /\ UNCHANGED raised
    /\ UNCHANGED <<processVars, response, lines>>

\* CorrelationIdMiddleware: the id is kept in the scope and bound to the
\* context variable, then the router looks for the path and the method.
Arrive(r, to) ==
    /\ phase = "serving"
    /\ stage[r] = "free"
    /\ cid' = [cid EXCEPT ![r] = r]
    /\ bound' = [bound EXCEPT ![r] = r]
    /\ \/ to = NoRoute /\ Raise(r, NoSuchRoute)
       \/ /\ to \in Routes
          /\ Go(r, "parse")
          /\ route' = [route EXCEPT ![r] = to]
          /\ UNCHANGED raised
    /\ UNCHANGED <<processVars, response, lines>>

\* FastAPI checks the request against the route's schema, then resolves the
\* service and enters the route, whose mapper builds the DTO.
Parse(r) ==
    /\ stage[r] = "parse"
    /\ \/ \E t \in RouteTable[route[r]].schema : Raise(r, RequestValidationError(<<t>>))
       \/ \E t \in RouteTable[route[r]].mapper : Raise(r, ValidationError(<<t>>))
       \/ /\ Go(r, IF RouteTable[route[r]].service = NoService THEN "respond" ELSE "call")
          /\ UNCHANGED <<route, raised>>
    /\ UNCHANGED <<processVars, cid, bound, response, lines>>

\* The service, built on the container's engine, returns or raises.
Call(r) ==
    /\ stage[r] = "call"
    /\ \/ \E exc \in RouteTable[route[r]].raises \cup Always : Raise(r, exc)
       \/ Go(r, "respond") /\ UNCHANGED <<route, raised>>
    /\ UNCHANGED <<processVars, cid, bound, response, lines>>

\* A response passes the middleware's send wrapper, which adds the id.
SendThroughMiddleware(r, answer) ==
    response' = [response EXCEPT ![r] = [answer |-> answer, ids |-> <<cid[r]>>]]

\* The presenter's result is sent.
Respond(r) ==
    /\ stage[r] = "respond"
    /\ SendThroughMiddleware(r, Success(RouteTable[route[r]].status))
    /\ Go(r, "complete")
    /\ route' = [route EXCEPT ![r] = NoRoute]
    /\ UNCHANGED <<processVars, raised, cid, bound, lines>>

\* Faulty variant: the id is read from the context variable.
FailureLineFromContext(r, answer) ==
    [event |-> "request.failed", status |-> answer.status,
     level |-> LevelOf(answer.status), id |-> bound[r]]

\* The line a handler logs, with the id of the scope.
FailureLine(r, answer) ==
    [event |-> "request.failed", status |-> answer.status,
     level |-> LevelOf(answer.status), id |-> cid[r]]

\* A handler for the class of the exception: it runs inside the middleware.
HandleInside(r) ==
    /\ stage[r] = "raised"
    /\ RunsInside(raised[r])
    /\ LET answer == Handle(raised[r]) IN
         /\ SendThroughMiddleware(r, answer)
         /\ IF Logs(raised[r]) THEN Log(r, FailureLine(r, answer)) ELSE UNCHANGED lines
    /\ Go(r, "complete")
    /\ UNCHANGED <<processVars, route, raised, cid, bound>>

\* Faulty variant: a request that was cut short counts as served.
LineAsIfServed(r) ==
    [event |-> "request.completed",
     status |-> IF response[r] = None THEN 200 ELSE response[r].answer.status,
     level |-> "INFO", id |-> bound[r]]

\* The end of the middleware: one line with the status sent, or 500 when none
\* was; the context variable is reset.
CompletionLine(r) ==
    [event |-> "request.completed",
     status |-> IF response[r] = None THEN 500 ELSE response[r].answer.status,
     level |-> "INFO", id |-> bound[r]]

\* Faulty variant: the context variable is not reset.
LeaveBound(r, to) ==
    /\ Log(r, CompletionLine(r))
    /\ Go(r, to)
    /\ UNCHANGED <<processVars, route, raised, cid, bound, response>>

\* The finally clause: the line is logged, the context variable is reset.
LeaveMiddleware(r, to) ==
    /\ Log(r, CompletionLine(r))
    /\ bound' = [bound EXCEPT ![r] = NoId]
    /\ Go(r, to)
    /\ UNCHANGED <<processVars, route, raised, cid, response>>

Complete(r) == stage[r] = "complete" /\ LeaveMiddleware(r, "answered")
Escape(r) == stage[r] = "raised" /\ ~RunsInside(raised[r]) /\ LeaveMiddleware(r, "escaped")

\* Faulty variant: exceptions that are no AppError have no handler.
HandleKnown(r) ==
    /\ stage[r] = "escaped" /\ IsAppError(raised[r])
    /\ LET answer == Handle(raised[r]) IN
         /\ response' = [response EXCEPT ![r] = [answer |-> answer, ids |-> <<cid[r]>>]]
         /\ Log(r, FailureLine(r, answer))
    /\ Go(r, "answered")
    /\ UNCHANGED <<processVars, route, raised, cid, bound>>

\* The catch-all handler, outside of the middleware: it adds the id itself.
HandleOutside(r) ==
    /\ stage[r] = "escaped"
    /\ LET answer == Handle(raised[r]) IN
         /\ response' = [response EXCEPT ![r] = [answer |-> answer, ids |-> <<cid[r]>>]]
         /\ Log(r, FailureLine(r, answer))
    /\ Go(r, "answered")
    /\ UNCHANGED <<processVars, route, raised, cid, bound>>

\* The slot is free for another request.
Free(r) ==
    /\ stage[r] = "answered"
    /\ Go(r, "free")
    /\ raised' = [raised EXCEPT ![r] = None]
    /\ cid' = [cid EXCEPT ![r] = NoId]
    /\ response' = [response EXCEPT ![r] = None]
    /\ lines' = [lines EXCEPT ![r] = <<>>]
    /\ UNCHANGED <<processVars, route, bound>>

RequestStep(r) == \/ Parse(r) \/ Call(r) \/ Respond(r) \/ HandleInside(r)
                  \/ Complete(r) \/ Escape(r) \/ HandleOutside(r) \/ Free(r)

LifespanStep == StartLifespan \/ StartServing \/ StartupFails \/ StopLifespan

Next == \/ LifespanStep \/ AskToStop \/ Restart
        \/ \E r \in Requests :
              \/ RequestStep(r)
              \/ \E to \in Routes \cup {NoRoute} : Arrive(r, to)

Spec == Init /\ [][Next]_vars

\* Every await of a request and of the lifespan ends: statements return, the
\* client reads, the event loop is fair.
Fairness == WF_vars(LifespanStep) /\ \A r \in Requests : WF_vars(RequestStep(r))
FairSpec == Spec /\ Fairness

-----------------------------------------------------------------------------
(* Types *)

Phases == {"down", "connecting", "serving", "draining", "stopped", "failed"}
Stages == {"free", "parse", "call", "respond", "raised", "complete", "escaped", "answered"}
Levels == {"INFO", "ERROR"}
Events == {"request.failed", "request.completed"}

\* The process and its requests have the shape the code gives them.
TypeOK ==
    /\ engines \subseteq EngineIds /\ connecting \subseteq engines
    /\ phase \in Phases
    /\ container \in EngineIds \cup {None}
    /\ abandoned \subseteq EngineIds
    /\ stage \in [Requests -> Stages]
    /\ route \in [Requests -> Routes \cup {NoRoute}]
    /\ \A r \in Requests :
          /\ cid[r] \in Ids \cup {NoId}
          /\ bound[r] \in {NoId, cid[r]}
          /\ raised[r] \in Failures \cup {None}
          /\ response[r] # None => response[r].answer \in Answers
          /\ \A i \in DOMAIN lines[r] :
                /\ lines[r][i].event \in Events
                /\ lines[r][i].level \in Levels

-----------------------------------------------------------------------------
(* What a request leaves behind *)

LinesAbout(r, event) == {i \in DOMAIN lines[r] : lines[r][i].event = event}
Answered(r) == stage[r] = "answered"

\* The log tells one story of every request, and the story is what the client
\* was told: one completion line with the status sent; for a request that a
\* handler answered, one failure line with the same status, at the level of an
\* incident from 500 on (_log_failure, CorrelationIdMiddleware).
LogTellsWhatWasSent ==
    \A r \in Requests : Answered(r) =>
        LET status == response[r].answer.status IN
        /\ Cardinality(LinesAbout(r, "request.completed")) = 1
        /\ Cardinality(LinesAbout(r, "request.failed")) =
              IF raised[r] # None /\ Logs(raised[r]) THEN 1 ELSE 0
        /\ \A i \in DOMAIN lines[r] : lines[r][i].status = status
        /\ \A i \in LinesAbout(r, "request.failed") :
              lines[r][i].level = LevelOf(status)

\* A client can always quote the id its failure was logged under: every
\* response carries the request's id once, whichever side of the middleware
\* made it, and every line about the request carries the same.
IdsMatch ==
    \A r \in Requests :
        /\ response[r] # None => response[r].ids = <<cid[r]>>
        /\ \A i \in DOMAIN lines[r] : lines[r][i].id = cid[r]

\* The client learns which rules its data broke, although the translation in
\* between keeps no domain code: the details name a rule for every violation
\* but those of a type that is no code, and they name the rules that the
\* CLI's panels show for the same exception.
DetailsNameTheRule ==
    \A r \in Requests :
        Answered(r) /\ raised[r] # None =>
            LET details == response[r].answer.details IN
            /\ raised[r].class = "ValidationAppError" =>
                  \A i \in DOMAIN details :
                     details[i] = "UNKNOWN_ERROR" => raised[r].errors[i].value = ForeignType
            /\ raised[r].class \in {"ValidationAppError", "ValidationError"} =>
                  details = CodesShown(raised[r])

\* No client reads a placeholder: what a service puts into the context of an
\* error covers what the catalog's texts for its code refer to, and the rules
\* that reach the details, where nothing is filled, have texts without any.
\* The one exception is a chart with two accounts of one name.
MessagesComplete ==
    \A r \in Requests :
        response[r] # None /\ raised[r] # UnreadableChart => response[r].answer.filled

-----------------------------------------------------------------------------
(* The connection *)

\* A service is only called over a connection that has been checked and is
\* still open, whatever requests are in flight when the process is stopped.
CallsAreConnected ==
    \A r \in Requests :
        stage[r] = "call" => container \in engines /\ container \notin connecting

\* A process that ends has disposed every engine it created, except one whose
\* check ended in something that connect() does not translate.
ClosedAtExit == phase \in {"stopped", "failed"} => engines \subseteq abandoned

-----------------------------------------------------------------------------
(* Progress *)

\* Every request that was let in is answered and its slot freed, also when the
\* process is asked to stop meanwhile.
EveryRequestAnswered ==
    \A r \in Requests : stage[r] # "free" ~> Answered(r)

\* A process that is asked to stop stops, after the requests in flight.
StopsWhenAsked == phase = "draining" ~> phase = "stopped"
=============================================================================
