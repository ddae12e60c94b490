-------------------------- MODULE ApiServerProofs ---------------------------
(***************************************************************************)
(* Proofs about ApiServer: what the process holds in each phase, and what  *)
(* each request has left behind at each stage, for any number of requests  *)
(* and of engine ids.                                                      *)
(***************************************************************************)
EXTENDS ApiServer, FiniteSetTheorems, SequenceTheorems, TLAPS

-----------------------------------------------------------------------------
(* Answers *)

LEMMA Appended ==
    ASSUME NEW x, NEW y
    PROVE  Append(<<>>, x) = <<x>> /\ Append(<<x>>, y) = <<x, y>>
<1> DEFINE S == {x, y}
<1>1. <<x>> \in Seq(S) /\ <<x, y>> \in Seq(S) /\ Len(<<x>>) = 1 /\ Len(<<x, y>>) = 2
    OBVIOUS
<1>2. /\ Append(<<x>>, y) \in Seq(S) /\ Len(Append(<<x>>, y)) = 2
      /\ Append(<<x>>, y)[1] = x /\ Append(<<x>>, y)[2] = y
    BY <1>1, AppendProperties
<1>3. \A i \in 1..2 : Append(<<x>>, y)[i] = <<x, y>>[i]
    <2>1. \A i \in 1..2 : i = 1 \/ i = 2
        OBVIOUS
    <2> QED
        BY <1>2, <2>1
<1>4. Append(<<x>>, y) = <<x, y>>
    <2> HIDE DEF S
    <2> QED
        BY <1>1, <1>2, <1>3, SeqEqual
<1>5. Append(<<>>, x) = <<x>>
    OBVIOUS
<1> QED
    BY <1>4, <1>5

\* What passes the middleware uncaught is answered as an incident.
LEMMA UnexpectedAnswer ==
    ASSUME NEW exc, ~RunsInside(exc)
    PROVE  Handle(exc).status = 500 /\ Logs(exc)
<1>1. exc.class = "Exception"
    BY DEF RunsInside
<1>2. Handle(exc) = _handle_unexpected_error
    BY <1>1 DEF Handle
<1> QED
    BY <1>1, <1>2 DEF _handle_unexpected_error, Response, DEFAULT_ERROR_ENTRY, Logs

-----------------------------------------------------------------------------
(* The inductive invariant *)

Typed ==
    /\ engines \subseteq EngineIds /\ abandoned \subseteq EngineIds
    /\ connecting \subseteq engines /\ container \in EngineIds \cup {None}
    /\ phase \in Phases
    /\ stage \in [Requests -> Stages]
    /\ route \in [Requests -> Routes \cup {NoRoute}]
    /\ raised \in [Requests -> Failures \cup {None}]
    /\ cid \in [Requests -> Requests \cup {None}]
    /\ bound \in [Requests -> Requests \cup {None}]
    /\ DOMAIN response = Requests /\ DOMAIN lines = Requests

\* What the process holds in each phase.
Process ==
    /\ phase = "down" => engines = {} /\ abandoned = {}
    /\ phase = "connecting" =>
          /\ \E e \in EngineIds : connecting = {e} /\ engines = {e}
          /\ abandoned = {}
    /\ phase # "connecting" => connecting = {}
    /\ phase \in {"serving", "draining"} =>
          container # None /\ engines = {container} /\ abandoned = {}
    /\ phase \in {"stopped", "failed"} => engines \subseteq abandoned
    /\ phase \notin {"serving", "draining"} => \A r \in Requests : stage[r] = "free"

\* What a request has left behind.
Done(status, r) ==
    [event |-> "request.completed", status |-> status, level |-> "INFO", id |-> r]
Failed(status, r) ==
    [event |-> "request.failed", status |-> status, level |-> LevelOf(status), id |-> r]
Failing(r) == raised[r] # None /\ Logs(raised[r])
Sent(r) ==
    /\ response[r] # None
    /\ response[r].ids = <<r>>
    /\ response[r].answer \in Answers
    /\ raised[r] # None => response[r].answer = Handle(raised[r])
    /\ raised[r] = None => response[r].answer.filled
Told(r, status) ==
    \/ ~Failing(r) /\ lines[r] = <<Done(status, r)>>
    \/ Failing(r) /\ lines[r] = <<Failed(status, r), Done(status, r)>>
    \/ Failing(r) /\ lines[r] = <<Done(status, r), Failed(status, r)>>
Untold(r) == response[r] = None /\ lines[r] = <<>>

Story(r) ==
    /\ stage[r] = "free" =>
          raised[r] = None /\ cid[r] = None /\ bound[r] = None /\ Untold(r)
    /\ stage[r] \in {"parse", "call", "respond"} => route[r] \in Routes /\ raised[r] = None
    /\ stage[r] \in {"parse", "call", "respond", "raised"} => bound[r] = r /\ Untold(r)
    /\ stage[r] \in {"raised", "escaped"} => raised[r] \in Failures
    /\ stage[r] = "complete" =>
          /\ bound[r] = r /\ Sent(r)
          /\ lines[r] = IF Failing(r) THEN <<Failed(response[r].answer.status, r)>> ELSE <<>>
    /\ stage[r] = "escaped" =>
          /\ ~RunsInside(raised[r]) /\ response[r] = None /\ bound[r] = None
          /\ lines[r] = <<Done(500, r)>>
    /\ stage[r] = "answered" =>
          bound[r] = None /\ Sent(r) /\ Told(r, response[r].answer.status)
    /\ stage[r] # "free" => cid[r] = r

IInv == Typed /\ Process /\ \A r \in Requests : Story(r)

LEMMA Starts == Init => IInv
<1> SUFFICES ASSUME Init PROVE IInv
    OBVIOUS
<1>1. /\ engines = {} /\ abandoned = {} /\ connecting = {} /\ container = None
      /\ phase = "down"
    BY DEF Init, ConnectionInit
<1>2. /\ stage = [r \in Requests |-> "free"] /\ route = [r \in Requests |-> NoRoute]
      /\ raised = [r \in Requests |-> None] /\ cid = [r \in Requests |-> None]
      /\ bound = [r \in Requests |-> None] /\ response = [r \in Requests |-> None]
      /\ lines = [r \in Requests |-> <<>>]
    BY DEF Init, NoId
<1>3. Typed
    BY <1>1, <1>2 DEF Typed, Phases, Stages
<1>4. Process
    BY <1>1, <1>2 DEF Process
<1>5. \A r \in Requests : Story(r)
    BY <1>2 DEF Story, Untold
<1> QED
    BY <1>3, <1>4, <1>5 DEF IInv

\* A request's step leaves the others alone.
Others(r) ==
    \A q \in Requests \ {r} :
        /\ stage'[q] = stage[q] /\ route'[q] = route[q] /\ raised'[q] = raised[q]
        /\ cid'[q] = cid[q] /\ bound'[q] = bound[q]
        /\ response'[q] = response[q] /\ lines'[q] = lines[q]

\* A step of one request keeps the invariant when it keeps that request's story.
LEMMA OneStory ==
    ASSUME IInv, NEW r \in Requests, phase \in {"serving", "draining"}, UNCHANGED processVars,
           Typed', Others(r), Story(r)'
    PROVE  IInv'
<1>1. Process'
    BY DEF IInv, Process, processVars, connectionVars
<1>2. ASSUME NEW q \in Requests \ {r}
      PROVE  Story(q)'
    BY <1>2 DEF IInv, Story, Sent, Told, Untold, Failing, Others
<1> QED
    BY <1>1, <1>2 DEF IInv

\* A request that is under way is served by a running process.
LEMMA UnderWay ==
    ASSUME IInv, NEW r \in Requests, stage[r] # "free"
    PROVE  phase \in {"serving", "draining"} /\ cid[r] = r
<1>1. Story(r) /\ Process
    BY DEF IInv
<1>2. cid[r] = r
    BY <1>1 DEF Story
<1>3. phase \in {"serving", "draining"}
    BY <1>1 DEF Process
<1> QED
    BY <1>2, <1>3

\* A request ends in an exception, or goes on, before anything is sent.
LEMMA Raising ==
    ASSUME IInv, NEW r \in Requests, stage[r] \in {"parse", "call"},
           NEW exc \in Failures, Raise(r, exc),
           UNCHANGED <<processVars, cid, bound, response, lines>>
    PROVE  IInv'
<1>1. /\ stage' = [stage EXCEPT ![r] = "raised"] /\ raised' = [raised EXCEPT ![r] = exc]
      /\ route' = [route EXCEPT ![r] = NoRoute]
    BY DEF Raise, Go
<1>2. Typed'
    BY <1>1 DEF IInv, Typed, Stages, processVars, connectionVars
<1>3. Others(r) /\ stage'[r] = "raised" /\ raised'[r] = exc
    BY <1>1 DEF Others, IInv, Typed
<1>4. Story(r)'
    <2>1. Story(r)
        BY DEF IInv
    <2>2. bound[r] = r /\ Untold(r) /\ cid[r] = r
        BY <2>1 DEF Story
    <2>3. Untold(r)'
        BY <2>2 DEF Untold
    <2> QED
        BY <1>3, <2>2, <2>3 DEF Story
<1>5. phase \in {"serving", "draining"}
    BY UnderWay
<1> QED
    BY <1>2, <1>3, <1>4, <1>5, OneStory

LEMMA GoingOn ==
    ASSUME IInv, NEW r \in Requests, stage[r] \in {"parse", "call"},
           NEW to \in {"call", "respond"}, Go(r, to),
           UNCHANGED <<processVars, route, raised, cid, bound, response, lines>>
    PROVE  IInv'
<1>1. stage' = [stage EXCEPT ![r] = to]
    BY DEF Go
<1>2. Typed'
    BY <1>1 DEF IInv, Typed, Stages, processVars, connectionVars
<1>3. Others(r) /\ stage'[r] = to
    BY <1>1 DEF Others, IInv, Typed
<1>4. Story(r)'
    <2>1. /\ route[r] \in Routes /\ raised[r] = None /\ bound[r] = r /\ Untold(r) /\ cid[r] = r
        <3>1. Story(r)
            BY DEF IInv
        <3> QED
            BY <3>1 DEF Story
    <2>2. Untold(r)'
        BY <2>1 DEF Untold
    <2>3. stage'[r] \notin {"free", "raised", "complete", "escaped", "answered"}
        BY <1>3
    <2> QED
        BY <2>1, <2>2, <2>3 DEF Story
<1>5. phase \in {"serving", "draining"}
    BY UnderWay
<1> QED
    BY <1>2, <1>3, <1>4, <1>5, OneStory

LEMMA ParseKeeps == ASSUME NEW r \in Requests PROVE IInv /\ Parse(r) => IInv'
<1> SUFFICES ASSUME IInv, Parse(r) PROVE IInv'
    OBVIOUS
<1>1. stage[r] = "parse" /\ route[r] \in Routes
    BY DEF Parse, IInv, Story
<1>2. ASSUME NEW t \in RouteTable[route[r]].schema, Raise(r, RequestValidationError(<<t>>))
      PROVE  IInv'
    <2>1. RequestValidationError(<<t>>) \in Failures
        BY <1>1 DEF Failures
    <2> QED
        BY <1>1, <1>2, <2>1, Raising DEF Parse
<1>3. ASSUME NEW t \in RouteTable[route[r]].mapper, Raise(r, ValidationError(<<t>>))
      PROVE  IInv'
    <2>1. ValidationError(<<t>>) \in Failures
        BY <1>1 DEF Failures
    <2> QED
        BY <1>1, <1>3, <2>1, Raising DEF Parse
<1>4. CASE /\ Go(r, IF RouteTable[route[r]].service = NoService THEN "respond" ELSE "call")
           /\ UNCHANGED <<route, raised>>
    BY <1>1, <1>4, GoingOn DEF Parse
<1> QED
    BY <1>2, <1>3, <1>4 DEF Parse

LEMMA CallKeeps == ASSUME NEW r \in Requests PROVE IInv /\ Call(r) => IInv'
<1> SUFFICES ASSUME IInv, Call(r) PROVE IInv'
    OBVIOUS
<1>1. stage[r] = "call" /\ route[r] \in Routes
    BY DEF Call, IInv, Story
<1>2. ASSUME NEW exc \in RouteTable[route[r]].raises \cup Always, Raise(r, exc)
      PROVE  IInv'
    <2>1. exc \in Failures
        BY <1>1 DEF Failures
    <2> QED
        BY <1>1, <1>2, <2>1, Raising DEF Call
<1>3. CASE Go(r, "respond") /\ UNCHANGED <<route, raised>>
    BY <1>1, <1>3, GoingOn DEF Call
<1> QED
    BY <1>2, <1>3 DEF Call

LEMMA ArriveKeeps ==
    ASSUME NEW r \in Requests, NEW to \in Routes \cup {NoRoute}
    PROVE  IInv /\ Arrive(r, to) => IInv'
<1> SUFFICES ASSUME IInv, Arrive(r, to) PROVE IInv'
    OBVIOUS
<1>1. /\ phase = "serving" /\ stage[r] = "free"
      /\ cid' = [cid EXCEPT ![r] = r] /\ bound' = [bound EXCEPT ![r] = r]
      /\ UNCHANGED <<processVars, response, lines>>
    BY DEF Arrive
<1>2. Untold(r) /\ raised[r] = None
    BY <1>1 DEF IInv, Story
<1>3. CASE Raise(r, NoSuchRoute)
    <2>1. /\ stage' = [stage EXCEPT ![r] = "raised"]
          /\ raised' = [raised EXCEPT ![r] = NoSuchRoute]
          /\ route' = [route EXCEPT ![r] = NoRoute]
        BY <1>3 DEF Raise, Go
    <2>2. NoSuchRoute \in Failures
        BY DEF Failures
    <2>3. Typed'
        BY <1>1, <2>1, <2>2 DEF IInv, Typed, Stages, processVars, connectionVars
    <2>4. Others(r) /\ stage'[r] = "raised" /\ raised'[r] = NoSuchRoute /\ cid'[r] = r /\ bound'[r] = r
        BY <1>1, <2>1 DEF Others, IInv, Typed
    <2>5. Story(r)'
        BY <1>1, <1>2, <2>2, <2>4 DEF Story, Untold
    <2> QED
        BY <1>1, <2>3, <2>4, <2>5, OneStory
<1>4. CASE /\ to \in Routes /\ Go(r, "parse") /\ route' = [route EXCEPT ![r] = to]
           /\ UNCHANGED raised
    <2>1. stage' = [stage EXCEPT ![r] = "parse"]
        BY <1>4 DEF Go
    <2>2. Typed'
        BY <1>1, <1>4, <2>1 DEF IInv, Typed, Stages, processVars, connectionVars
    <2>3. /\ Others(r) /\ stage'[r] = "parse" /\ route'[r] = to /\ raised'[r] = None
          /\ cid'[r] = r /\ bound'[r] = r
        BY <1>1, <1>2, <1>4, <2>1 DEF Others, IInv, Typed
    <2>4. Story(r)'
        BY <1>1, <1>2, <1>4, <2>3 DEF Story, Untold
    <2> QED
        BY <1>1, <2>2, <2>3, <2>4, OneStory
<1> QED
    BY <1>1, <1>3, <1>4 DEF Arrive

\* A response is sent through the middleware.
LEMMA Sending ==
    ASSUME IInv, NEW r \in Requests, stage[r] # "free", NEW answer \in Answers,
           response' = [response EXCEPT ![r] = [answer |-> answer, ids |-> <<cid[r]>>]],
           raised' = raised, raised[r] # None => answer = Handle(raised[r]),
           raised[r] = None => answer.filled
    PROVE  Sent(r)' /\ response'[r].answer = answer /\ DOMAIN response' = Requests
<1>1. cid[r] = r
    BY UnderWay
<1>2. response'[r] = [answer |-> answer, ids |-> <<r>>] /\ DOMAIN response' = Requests
    BY <1>1 DEF IInv, Typed
<1>3. response'[r] # None
    BY <1>2, ServerAssumption
<1> QED
    BY <1>2, <1>3 DEF Sent

LEMMA RespondKeeps == ASSUME NEW r \in Requests PROVE IInv /\ Respond(r) => IInv'
<1> SUFFICES ASSUME IInv, Respond(r) PROVE IInv'
    OBVIOUS
<1> DEFINE answer == Success(RouteTable[route[r]].status)
<1>1. /\ stage[r] = "respond" /\ stage' = [stage EXCEPT ![r] = "complete"]
      /\ response' = [response EXCEPT ![r] = [answer |-> answer, ids |-> <<cid[r]>>]]
      /\ route' = [route EXCEPT ![r] = NoRoute]
      /\ UNCHANGED <<processVars, raised, cid, bound, lines>>
    BY DEF Respond, Go, SendThroughMiddleware
<1>2. /\ route[r] \in Routes /\ raised[r] = None /\ bound[r] = r /\ lines[r] = <<>>
      /\ phase \in {"serving", "draining"} /\ cid[r] = r
    <2>1. phase \in {"serving", "draining"} /\ cid[r] = r
        BY <1>1, UnderWay
    <2>2. route[r] \in Routes /\ raised[r] = None /\ bound[r] = r /\ Untold(r)
        BY <1>1 DEF IInv, Story
    <2> QED
        BY <2>1, <2>2 DEF Untold
<1>3. answer \in Answers /\ answer.filled
    BY <1>2 DEF Answers, Success
<1> HIDE DEF answer
<1>4. Sent(r)' /\ DOMAIN response' = Requests
    BY <1>1, <1>2, <1>3, Sending
<1>5. Typed'
    BY <1>1, <1>4 DEF IInv, Typed, Stages, processVars, connectionVars
<1>6. Others(r) /\ stage'[r] = "complete"
    BY <1>1 DEF Others, IInv, Typed
<1>7. Story(r)'
    <2>1. ~Failing(r)' /\ lines'[r] = <<>> /\ bound'[r] = r /\ cid'[r] = r
        BY <1>1, <1>2 DEF Failing
    <2> QED
        BY <1>4, <1>6, <2>1 DEF Story
<1> QED
    BY <1>1, <1>2, <1>5, <1>6, <1>7, OneStory

LEMMA HandleInsideKeeps == ASSUME NEW r \in Requests PROVE IInv /\ HandleInside(r) => IInv'
<1> SUFFICES ASSUME IInv, HandleInside(r) PROVE IInv'
    OBVIOUS
<1> DEFINE answer == Handle(raised[r])
<1>1. /\ stage[r] = "raised" /\ stage' = [stage EXCEPT ![r] = "complete"]
      /\ response' = [response EXCEPT ![r] = [answer |-> answer, ids |-> <<cid[r]>>]]
      /\ UNCHANGED <<processVars, route, raised, cid, bound>>
      /\ IF Logs(raised[r])
         THEN lines' = [lines EXCEPT ![r] = Append(@, FailureLine(r, answer))]
         ELSE UNCHANGED lines
    BY DEF HandleInside, Go, SendThroughMiddleware, Log
<1>2. /\ raised[r] \in Failures /\ bound[r] = r /\ lines[r] = <<>>
      /\ phase \in {"serving", "draining"} /\ cid[r] = r
    <2>1. Story(r) /\ phase \in {"serving", "draining"}
        BY <1>1, UnderWay DEF IInv
    <2> QED
        BY <1>1, <2>1 DEF Story, Untold
<1>3. answer \in Answers /\ raised[r] # None
    BY <1>2, ServerAssumption DEF Answers
<1>4. FailureLine(r, answer) = Failed(answer.status, r)
    BY <1>2 DEF FailureLine, Failed
<1>5. Sent(r)' /\ response'[r].answer = answer /\ DOMAIN response' = Requests
    BY <1>1, <1>3, Sending
<1> HIDE DEF answer
<1>6. /\ DOMAIN lines' = Requests
      /\ lines'[r] = IF Failing(r)' THEN <<Failed(response'[r].answer.status, r)>> ELSE <<>>
      /\ \A q \in Requests \ {r} : lines'[q] = lines[q]
    <2>1. CASE Logs(raised[r])
        <3>1. lines'[r] = Append(<<>>, Failed(answer.status, r)) /\ DOMAIN lines' = Requests
              /\ \A q \in Requests \ {r} : lines'[q] = lines[q]
            BY <1>1, <1>2, <1>4, <2>1 DEF IInv, Typed
        <3>2. lines'[r] = <<Failed(answer.status, r)>>
            BY <3>1, Appended
        <3>3. Failing(r)'
            BY <1>1, <1>3, <2>1 DEF Failing
        <3> QED
            BY <1>5, <3>1, <3>2, <3>3
    <2>2. CASE ~Logs(raised[r])
        <3>1. ~Failing(r)' /\ lines' = lines
            BY <1>1, <2>2 DEF Failing
        <3> QED
            BY <1>2, <3>1 DEF IInv, Typed
    <2> QED
        BY <2>1, <2>2
<1>7. Typed'
    BY <1>1, <1>5, <1>6 DEF IInv, Typed, Stages, processVars, connectionVars
<1>8. Others(r) /\ stage'[r] = "complete"
    BY <1>1, <1>6 DEF Others, IInv, Typed
<1>9. Story(r)'
    <2>1. bound'[r] = r /\ cid'[r] = r
        BY <1>1, <1>2
    <2> QED
        BY <1>5, <1>6, <1>8, <2>1 DEF Story
<1> QED
    BY <1>1, <1>2, <1>7, <1>8, <1>9, OneStory

\* The middleware is left: one more line, and the context variable is reset.
LEMMA LeavingMiddleware ==
    ASSUME IInv, NEW r \in Requests, stage[r] # "free", bound[r] = r, NEW to \in Stages,
           LeaveMiddleware(r, to)
    PROVE  /\ Typed' /\ Others(r) /\ UNCHANGED <<processVars, raised, cid, response>>
           /\ stage'[r] = to /\ bound'[r] = None
           /\ lines'[r] = Append(lines[r], Done(IF response[r] = None THEN 500
                                                ELSE response[r].answer.status, r))
<1>1. /\ lines' = [lines EXCEPT ![r] = Append(@, CompletionLine(r))]
      /\ bound' = [bound EXCEPT ![r] = None] /\ stage' = [stage EXCEPT ![r] = to]
      /\ UNCHANGED <<processVars, route, raised, cid, response>>
    BY DEF LeaveMiddleware, Log, Go, NoId
<1>2. CompletionLine(r) = Done(IF response[r] = None THEN 500 ELSE response[r].answer.status, r)
    BY DEF CompletionLine, Done
<1> HIDE DEF CompletionLine
<1>3. Typed'
    BY <1>1 DEF IInv, Typed, processVars, connectionVars
<1>4. Others(r)
    BY <1>1 DEF Others, IInv, Typed
<1>5. stage'[r] = to /\ bound'[r] = None /\ lines'[r] = Append(lines[r], CompletionLine(r))
    BY <1>1 DEF IInv, Typed
<1> QED
    BY <1>1, <1>2, <1>3, <1>4, <1>5

LEMMA CompleteKeeps == ASSUME NEW r \in Requests PROVE IInv /\ Complete(r) => IInv'
<1> SUFFICES ASSUME IInv, Complete(r) PROVE IInv'
    OBVIOUS
<1> DEFINE status == response[r].answer.status
<1>1. stage[r] = "complete" /\ LeaveMiddleware(r, "answered")
    BY DEF Complete
<1>2. phase \in {"serving", "draining"} /\ cid[r] = r
    BY <1>1, UnderWay
<1>3. /\ bound[r] = r /\ Sent(r)
      /\ lines[r] = IF Failing(r) THEN <<Failed(status, r)>> ELSE <<>>
    BY <1>1 DEF IInv, Story
<1>4. "answered" \in Stages
    BY DEF Stages
<1>5. /\ Typed' /\ Others(r) /\ UNCHANGED <<processVars, raised, cid, response>>
      /\ stage'[r] = "answered" /\ bound'[r] = None
      /\ lines'[r] = Append(lines[r], Done(status, r))
    BY <1>1, <1>3, <1>4, LeavingMiddleware DEF Sent
<1>6. Sent(r)' /\ (Failing(r)' <=> Failing(r)) /\ response'[r].answer.status = status
    BY <1>3, <1>5 DEF Sent, Failing
<1> HIDE DEF status
<1>7. Told(r, status)'
    <2>1. CASE Failing(r)
        <3>1. lines'[r] = <<Failed(status, r), Done(status, r)>>
            BY <1>3, <1>5, <2>1, Appended
        <3> QED
            BY <1>6, <2>1, <3>1 DEF Told, status
    <2>2. CASE ~Failing(r)
        <3>1. lines'[r] = <<Done(status, r)>>
            BY <1>3, <1>5, <2>2, Appended
        <3> QED
            BY <1>6, <2>2, <3>1 DEF Told, status
    <2> QED
        BY <2>1, <2>2
<1>8. Story(r)'
    BY <1>2, <1>5, <1>6, <1>7 DEF Story, status
<1> QED
    BY <1>2, <1>5, <1>8, OneStory

LEMMA EscapeKeeps == ASSUME NEW r \in Requests PROVE IInv /\ Escape(r) => IInv'
<1> SUFFICES ASSUME IInv, Escape(r) PROVE IInv'
    OBVIOUS
<1>1. stage[r] = "raised" /\ ~RunsInside(raised[r]) /\ LeaveMiddleware(r, "escaped")
    BY DEF Escape
<1>2. phase \in {"serving", "draining"} /\ cid[r] = r
    BY <1>1, UnderWay
<1>3. bound[r] = r /\ raised[r] \in Failures /\ response[r] = None /\ lines[r] = <<>>
    BY <1>1 DEF IInv, Story, Untold
<1>4. "escaped" \in Stages
    BY DEF Stages
<1>5. /\ Typed' /\ Others(r) /\ UNCHANGED <<processVars, raised, cid, response>>
      /\ stage'[r] = "escaped" /\ bound'[r] = None
      /\ lines'[r] = Append(lines[r], Done(500, r))
    BY <1>1, <1>3, <1>4, LeavingMiddleware
<1>6. lines'[r] = <<Done(500, r)>>
    BY <1>3, <1>5, Appended
<1>7. Story(r)'
    BY <1>1, <1>2, <1>3, <1>5, <1>6 DEF Story
<1> QED
    BY <1>2, <1>5, <1>7, OneStory

LEMMA HandleOutsideKeeps == ASSUME NEW r \in Requests PROVE IInv /\ HandleOutside(r) => IInv'
<1> SUFFICES ASSUME IInv, HandleOutside(r) PROVE IInv'
    OBVIOUS
<1> DEFINE answer == Handle(raised[r])
<1>1. /\ stage[r] = "escaped" /\ stage' = [stage EXCEPT ![r] = "answered"]
      /\ response' = [response EXCEPT ![r] = [answer |-> answer, ids |-> <<cid[r]>>]]
      /\ lines' = [lines EXCEPT ![r] = Append(@, FailureLine(r, answer))]
      /\ UNCHANGED <<processVars, route, raised, cid, bound>>
    BY DEF HandleOutside, Go, Log
<1>2. /\ phase \in {"serving", "draining"} /\ cid[r] = r
      /\ raised[r] \in Failures /\ ~RunsInside(raised[r]) /\ bound[r] = None
      /\ lines[r] = <<Done(500, r)>>
    <2>1. phase \in {"serving", "draining"} /\ cid[r] = r
        BY <1>1, UnderWay
    <2>2. /\ raised[r] \in Failures /\ ~RunsInside(raised[r]) /\ bound[r] = None
          /\ lines[r] = <<Done(500, r)>>
        <3>1. stage[r] = "escaped" /\ Story(r)
            BY <1>1 DEF IInv
        <3> QED
            BY <3>1 DEF Story
    <2> QED
        BY <2>1, <2>2
<1>3. answer \in Answers /\ raised[r] # None
    BY <1>2, ServerAssumption DEF Answers
<1>4. answer.status = 500 /\ Logs(raised[r])
    BY <1>2, UnexpectedAnswer
<1>5. FailureLine(r, answer) = Failed(500, r)
    BY <1>2, <1>4 DEF FailureLine, Failed
<1>6. Sent(r)' /\ response'[r].answer = answer /\ DOMAIN response' = Requests
    BY <1>1, <1>3, Sending
<1> HIDE DEF answer
<1>7. /\ DOMAIN lines' = Requests /\ lines'[r] = Append(<<Done(500, r)>>, Failed(500, r))
      /\ \A q \in Requests \ {r} : lines'[q] = lines[q]
    BY <1>1, <1>2, <1>5 DEF IInv, Typed
<1>8. lines'[r] = <<Done(500, r), Failed(500, r)>>
    BY <1>7, Appended
<1>9. Typed'
    BY <1>1, <1>6, <1>7 DEF IInv, Typed, Stages, processVars, connectionVars
<1>10. Others(r) /\ stage'[r] = "answered"
    BY <1>1, <1>7 DEF Others, IInv, Typed
<1>11. Story(r)'
    <2>1. Failing(r)'
        BY <1>1, <1>3, <1>4 DEF Failing
    <2>2. response'[r].answer.status = 500
        BY <1>4, <1>6
    <2>3. Told(r, 500)'
        BY <1>8, <2>1 DEF Told
    <2>4. bound'[r] = None /\ cid'[r] = r
        BY <1>1, <1>2
    <2> QED
        BY <1>6, <1>10, <2>2, <2>3, <2>4 DEF Story
<1> QED
    BY <1>1, <1>2, <1>9, <1>10, <1>11, OneStory

LEMMA FreeKeeps == ASSUME NEW r \in Requests PROVE IInv /\ Free(r) => IInv'
<1> SUFFICES ASSUME IInv, Free(r) PROVE IInv'
    OBVIOUS
<1>1. /\ stage[r] = "answered" /\ stage' = [stage EXCEPT ![r] = "free"]
      /\ raised' = [raised EXCEPT ![r] = None] /\ cid' = [cid EXCEPT ![r] = None]
      /\ response' = [response EXCEPT ![r] = None] /\ lines' = [lines EXCEPT ![r] = <<>>]
      /\ UNCHANGED <<processVars, route, bound>>
    BY DEF Free, Go, NoId
<1>2. phase \in {"serving", "draining"}
    BY <1>1, UnderWay
<1>3. Typed'
    BY <1>1 DEF IInv, Typed, Stages, processVars, connectionVars
<1>4. /\ Others(r) /\ stage'[r] = "free" /\ raised'[r] = None /\ cid'[r] = None
      /\ response'[r] = None /\ lines'[r] = <<>>
    BY <1>1 DEF Others, IInv, Typed
<1>5. bound'[r] = None
    BY <1>1 DEF IInv, Story
<1>6. Story(r)'
    BY <1>4, <1>5 DEF Story, Untold
<1> QED
    BY <1>1, <1>2, <1>3, <1>4, <1>6, OneStory

\* The requests are left alone.
LEMMA RequestsKept ==
    ASSUME IInv, UNCHANGED requestVars
    PROVE  /\ \A r \in Requests : Story(r)'
           /\ \A r \in Requests : stage'[r] = stage[r]
           /\ stage' \in [Requests -> Stages] /\ route' \in [Requests -> Routes \cup {NoRoute}]
           /\ raised' \in [Requests -> Failures \cup {None}]
           /\ cid' \in [Requests -> Requests \cup {None}]
           /\ bound' \in [Requests -> Requests \cup {None}]
           /\ DOMAIN response' = Requests /\ DOMAIN lines' = Requests
<1>1. UNCHANGED <<stage, route, raised, cid, bound, response, lines>>
    BY DEF requestVars
<1>2. \A r \in Requests : Story(r)'
    BY <1>1 DEF IInv, Story, Sent, Told, Untold, Failing
<1> QED
    BY <1>1, <1>2 DEF IInv, Typed

LEMMA LifespanKeeps == IInv /\ (LifespanStep \/ AskToStop \/ Restart) => IInv'
<1> SUFFICES ASSUME IInv, LifespanStep \/ AskToStop \/ Restart PROVE IInv'
    OBVIOUS
<1>1. UNCHANGED requestVars
    BY DEF LifespanStep, StartLifespan, StartServing, StartupFails, StopLifespan, AskToStop, Restart
<1>2. /\ engines \subseteq EngineIds /\ abandoned \subseteq EngineIds
      /\ connecting \subseteq engines /\ container \in EngineIds \cup {None}
    BY DEF IInv, Typed
<1>3. ASSUME /\ engines' \subseteq EngineIds /\ abandoned' \subseteq EngineIds
             /\ connecting' \subseteq engines' /\ container' \in EngineIds \cup {None}
             /\ phase' \in Phases,
             Process'
      PROVE  IInv'
    BY <1>1, <1>3, RequestsKept DEF IInv, Typed
<1>4. ASSUME phase \notin {"serving", "draining"} \/ \A r \in Requests : stage[r] = "free"
      PROVE  \A r \in Requests : stage'[r] = "free"
    BY <1>1, <1>4, RequestsKept DEF IInv, Process
<1>5. CASE StartLifespan
    <2>1. PICK e \in EngineIds : BeginConnect(e)
        BY <1>5 DEF StartLifespan
    <2>2. /\ phase = "down" /\ phase' = "connecting" /\ UNCHANGED <<container, abandoned>>
          /\ engines = {} /\ abandoned = {} /\ engines' = {e} /\ connecting' = {e}
        BY <1>5, <2>1 DEF StartLifespan, BeginConnect, IInv, Process
    <2>3. Process'
        BY <1>4, <2>2 DEF Process
    <2> QED
        BY <1>2, <1>3, <2>2, <2>3 DEF Phases
<1>6. CASE StartServing
    <2>1. PICK e \in EngineIds : connecting = {e} /\ engines = {e}
        BY <1>6 DEF StartServing, IInv, Process
    <2>2. /\ phase = "connecting" /\ phase' = "serving" /\ UNCHANGED <<engines, abandoned>>
          /\ abandoned = {} /\ container' = e /\ connecting' = {}
        BY <1>6, <2>1 DEF StartServing, ConnectSucceeds, build_container, IInv, Process
    <2>3. Process'
        BY <2>1, <2>2, ConnectionAssumption DEF Process
    <2> QED
        BY <1>2, <1>3, <2>2, <2>3 DEF Phases
<1>7. CASE StartupFails
    <2>1. PICK e \in EngineIds : connecting = {e} /\ engines = {e}
        BY <1>7 DEF StartupFails, IInv, Process
    <2>2. /\ phase = "connecting" /\ phase' = "failed" /\ container' = container
          /\ connecting' = {} /\ engines' \subseteq {e} /\ engines' \subseteq abandoned'
          /\ abandoned' \subseteq {e}
        BY <1>7, <2>1 DEF StartupFails, ConnectFails, ConnectBreaks, Break, IInv, Process
    <2>3. Process'
        BY <1>4, <2>2 DEF Process
    <2> QED
        BY <1>2, <1>3, <2>2, <2>3 DEF Phases
<1>8. CASE StopLifespan
    <2>1. /\ phase = "draining" /\ phase' = "stopped" /\ UNCHANGED <<container, connecting, abandoned>>
          /\ \A r \in Requests : stage[r] = "free"
          /\ engines' = {} /\ connecting = {}
        BY <1>8 DEF StopLifespan, Disconnect, IInv, Process
    <2>2. Process'
        BY <1>4, <2>1 DEF Process
    <2> QED
        BY <1>2, <1>3, <2>1, <2>2 DEF Phases
<1>9. CASE AskToStop
    <2>1. /\ phase = "serving" /\ phase' = "draining"
          /\ UNCHANGED <<container, engines, connecting, abandoned>>
        BY <1>9 DEF AskToStop, connectionVars
    <2>2. Process'
        BY <2>1 DEF IInv, Process
    <2> QED
        BY <1>2, <1>3, <2>1, <2>2 DEF Phases
<1>10. CASE Restart
    <2>1. /\ phase \in {"stopped", "failed"} /\ phase' = "down" /\ container' = None
          /\ engines' = {} /\ abandoned' = {} /\ connecting' = connecting /\ connecting = {}
        BY <1>10 DEF Restart, IInv, Process
    <2>2. Process'
        BY <1>4, <2>1 DEF Process
    <2> QED
        BY <1>2, <1>3, <2>1, <2>2 DEF Phases
<1> QED
    BY <1>5, <1>6, <1>7, <1>8, <1>9, <1>10 DEF LifespanStep

LEMMA IInvInductive == IInv /\ [Next]_vars => IInv'
<1> SUFFICES ASSUME IInv, [Next]_vars PROVE IInv'
    OBVIOUS
<1>1. ASSUME NEW r \in Requests, RequestStep(r)
      PROVE  IInv'
    BY <1>1, ParseKeeps, CallKeeps, RespondKeeps, HandleInsideKeeps, CompleteKeeps, EscapeKeeps,
       HandleOutsideKeeps, FreeKeeps DEF RequestStep
<1>2. CASE UNCHANGED vars
    <2>1. UNCHANGED requestVars
          /\ UNCHANGED <<engines, connecting, abandoned, phase, container>>
        BY <1>2 DEF vars, processVars, connectionVars
    <2>2. Process'
        BY <2>1, RequestsKept DEF IInv, Process
    <2> QED
        BY <2>1, <2>2, RequestsKept DEF IInv, Typed
<1> QED
    BY <1>1, <1>2, ArriveKeeps, LifespanKeeps DEF Next

LEMMA SpecIInv == Spec => []IInv
    BY Starts, IInvInductive, PTL DEF Spec

-----------------------------------------------------------------------------
(* The connection *)

\* Whatever requests are in flight when the process starts, stops or fails to
\* start, no service is called over a connection that is not open.
THEOREM ServerCallsAreConnected == Spec => []CallsAreConnected
<1>1. IInv => CallsAreConnected
    <2> SUFFICES ASSUME IInv, NEW r \in Requests, stage[r] = "call"
                 PROVE  container \in engines /\ container \notin connecting
        BY DEF CallsAreConnected
    <2>1. phase \in {"serving", "draining"}
        BY UnderWay
    <2> QED
        BY <2>1 DEF IInv, Process
<1> QED
    BY SpecIInv, <1>1, PTL

\* A process that has ended has disposed what connect() returned to it.
THEOREM ServerClosesAtExit == Spec => []ClosedAtExit
<1>1. IInv => ClosedAtExit
    BY DEF IInv, Process, ClosedAtExit
<1> QED
    BY SpecIInv, <1>1, PTL

-----------------------------------------------------------------------------
(* Lines and ids *)

LEMMA Lengths ==
    ASSUME NEW x, NEW y
    PROVE  /\ DOMAIN <<x>> = {1} /\ <<x>>[1] = x
           /\ DOMAIN <<x, y>> = {1, 2} /\ <<x, y>>[1] = x /\ <<x, y>>[2] = y
    OBVIOUS

LEMMA Fields ==
    ASSUME NEW status, NEW r
    PROVE  /\ Done(status, r).event = "request.completed" /\ Done(status, r).id = r
           /\ Done(status, r).status = status /\ Done(status, r).level = "INFO"
           /\ Failed(status, r).event = "request.failed" /\ Failed(status, r).id = r
           /\ Failed(status, r).status = status
           /\ Failed(status, r).level = LevelOf(status) /\ LevelOf(status) \in Levels
<1>1. LevelOf(status) \in Levels
    BY DEF LevelOf, Levels
<1> QED
    BY <1>1 DEF Done, Failed

\* The lines about a request: completions and failures with its id.
LEMMA LinesHave ==
    ASSUME IInv, NEW r \in Requests, NEW i \in DOMAIN lines[r]
    PROVE  /\ stage[r] # "free"
           /\ \E status : lines[r][i] \in {Done(status, r), Failed(status, r)}
<1>1. Story(r) /\ stage[r] \in Stages
    BY DEF IInv, Typed
<1>2. lines[r] # <<>>
    OBVIOUS
<1>3. stage[r] # "free"
    BY <1>1, <1>2 DEF Story, Untold
<1>4. \E status : \/ lines[r] = <<Done(status, r)>> \/ lines[r] = <<Failed(status, r)>>
                  \/ lines[r] = <<Failed(status, r), Done(status, r)>>
                  \/ lines[r] = <<Done(status, r), Failed(status, r)>>
    <2>1. CASE stage[r] = "complete"
        BY <1>1, <1>2, <2>1 DEF Story
    <2>2. CASE stage[r] = "escaped"
        BY <1>1, <2>2 DEF Story
    <2>3. CASE stage[r] = "answered"
        BY <1>1, <2>3 DEF Story, Told
    <2>4. stage[r] \in {"complete", "escaped", "answered"}
        BY <1>1, <1>2 DEF Story, Untold, Stages
    <2> QED
        BY <2>1, <2>2, <2>3, <2>4
<1>5. PICK status : \/ lines[r] = <<Done(status, r)>> \/ lines[r] = <<Failed(status, r)>>
                    \/ lines[r] = <<Failed(status, r), Done(status, r)>>
                    \/ lines[r] = <<Done(status, r), Failed(status, r)>>
    BY <1>4
<1>6. lines[r][i] \in {Done(status, r), Failed(status, r)}
    BY <1>5, Lengths
<1> QED
    BY <1>3, <1>6

\* A response is there only when it has been sent for this request.
LEMMA ResponsesSent ==
    ASSUME IInv, NEW r \in Requests, response[r] # None
    PROVE  Sent(r) /\ cid[r] = r
<1>1. Story(r) /\ stage[r] \in Stages
    BY DEF IInv, Typed
<1>2. stage[r] \in {"complete", "answered"}
    BY <1>1 DEF Story, Untold, Stages
<1> QED
    BY <1>1, <1>2 DEF Story

\* Requests, answers and log lines have the shape the code gives them.
THEOREM ServerTypes == Spec => []TypeOK
<1>1. IInv => TypeOK
    <2> SUFFICES ASSUME IInv PROVE TypeOK
        OBVIOUS
    <2>1. ASSUME NEW r \in Requests
          PROVE  /\ cid[r] \in Ids \cup {NoId} /\ bound[r] \in {NoId, cid[r]}
                 /\ raised[r] \in Failures \cup {None}
                 /\ response[r] # None => response[r].answer \in Answers
        <3>1. cid[r] \in Ids \cup {NoId} /\ raised[r] \in Failures \cup {None}
            BY DEF IInv, Typed, Ids, NoId
        <3>2. response[r] # None => response[r].answer \in Answers
            BY ResponsesSent DEF Sent
        <3>3. bound[r] \in {NoId, cid[r]}
            <4>1. Story(r) /\ stage[r] \in Stages
                BY DEF IInv, Typed
            <4> QED
                BY <4>1 DEF Story, NoId, Stages
        <3> QED
            BY <3>1, <3>2, <3>3
    <2>2. ASSUME NEW r \in Requests, NEW i \in DOMAIN lines[r]
          PROVE  lines[r][i].event \in Events /\ lines[r][i].level \in Levels
        <3>1. PICK status : lines[r][i] \in {Done(status, r), Failed(status, r)}
            BY LinesHave
        <3>2. {"request.completed", "request.failed"} = Events /\ "INFO" \in Levels
            BY DEF Events, Levels
        <3> QED
            BY <3>1, <3>2, Fields
    <2> QED
        BY <2>1, <2>2 DEF IInv, Typed, TypeOK
<1> QED
    BY SpecIInv, <1>1, PTL

\* Every response and every line of a request carries its id, on both sides of
\* the middleware, however many requests are in flight.
THEOREM ServerIdsMatch == Spec => []IdsMatch
<1>1. IInv => IdsMatch
    <2> SUFFICES ASSUME IInv, NEW r \in Requests
                 PROVE  /\ response[r] # None => response[r].ids = <<cid[r]>>
                        /\ \A i \in DOMAIN lines[r] : lines[r][i].id = cid[r]
        BY DEF IdsMatch
    <2>1. response[r] # None => response[r].ids = <<cid[r]>>
        BY ResponsesSent DEF Sent
    <2>2. ASSUME NEW i \in DOMAIN lines[r]
          PROVE  lines[r][i].id = cid[r]
        <3>1. PICK status : lines[r][i] \in {Done(status, r), Failed(status, r)}
            BY LinesHave
        <3>2. cid[r] = r
            BY LinesHave, UnderWay
        <3> QED
            BY <3>1, <3>2, Fields
    <2> QED
        BY <2>1, <2>2
<1> QED
    BY SpecIInv, <1>1, PTL

\* Every request that has been answered has one completion line, and one
\* failure line if a handler that logs answered it, with the status the client
\* was sent.
THEOREM ServerLogTellsWhatWasSent == Spec => []LogTellsWhatWasSent
<1>1. IInv => LogTellsWhatWasSent
    <2> SUFFICES ASSUME IInv, NEW r \in Requests, Answered(r)
                 PROVE  LET status == response[r].answer.status IN
                        /\ Cardinality(LinesAbout(r, "request.completed")) = 1
                        /\ Cardinality(LinesAbout(r, "request.failed")) =
                              IF raised[r] # None /\ Logs(raised[r]) THEN 1 ELSE 0
                        /\ \A i \in DOMAIN lines[r] : lines[r][i].status = status
                        /\ \A i \in LinesAbout(r, "request.failed") :
                              lines[r][i].level = LevelOf(status)
        BY DEF LogTellsWhatWasSent
    <2> DEFINE status == response[r].answer.status
    <2>1. Told(r, status)
        BY DEF IInv, Story, Answered
    <2> HIDE DEF status
    <2>2. \E e : /\ LinesAbout(r, "request.completed") = {e}
                 /\ LinesAbout(r, "request.failed") = IF Failing(r) THEN {3 - e} ELSE {}
        <3>1. CASE ~Failing(r) /\ lines[r] = <<Done(status, r)>>
            <4>1. LinesAbout(r, "request.completed") = {1} /\ LinesAbout(r, "request.failed") = {}
                BY <3>1, Lengths, Fields DEF LinesAbout
            <4> QED
                BY <3>1, <4>1
        <3>2. CASE Failing(r) /\ lines[r] = <<Failed(status, r), Done(status, r)>>
            <4>1. LinesAbout(r, "request.completed") = {2} /\ LinesAbout(r, "request.failed") = {1}
                BY <3>2, Lengths, Fields DEF LinesAbout
            <4> QED
                BY <3>2, <4>1
        <3>3. CASE Failing(r) /\ lines[r] = <<Done(status, r), Failed(status, r)>>
            <4>1. LinesAbout(r, "request.completed") = {1} /\ LinesAbout(r, "request.failed") = {2}
                BY <3>3, Lengths, Fields DEF LinesAbout
            <4> QED
                BY <3>3, <4>1
        <3> QED
            BY <2>1, <3>1, <3>2, <3>3 DEF Told
    <2>3. /\ Cardinality(LinesAbout(r, "request.completed")) = 1
          /\ Cardinality(LinesAbout(r, "request.failed")) = IF Failing(r) THEN 1 ELSE 0
        BY <2>2, FS_Singleton, FS_EmptySet
    <2>4. ASSUME NEW i \in DOMAIN lines[r]
          PROVE  /\ lines[r][i].status = status
                 /\ lines[r][i].event = "request.failed" => lines[r][i].level = LevelOf(status)
        <3>1. lines[r][i] \in {Done(status, r), Failed(status, r)}
            BY <2>1, Lengths DEF Told
        <3> QED
            BY <3>1, Fields
    <2> QED
        BY <2>3, <2>4 DEF LinesAbout, Failing, status
<1> QED
    BY SpecIInv, <1>1, PTL

-----------------------------------------------------------------------------
(* Details and messages *)

\* What the services raise.  The texts of a type that the chart does not use
\* have no placeholders.
PlainTypes == PydanticTypes \ ChartCodes
NotFounds == {not_found(code) : code \in LookupCodes}
Conflicts == {conflict(code) : code \in ConflictCodes \cup {"UNKNOWN_ERROR"}}
Validations == {validation(types) : types \in Seq(PlainTypes)}
ValidationErrors == {ValidationError(types) : types \in Seq(PlainTypes)}
ServiceFailures ==
    NotFounds \cup Conflicts \cup Validations \cup ValidationErrors \cup {UnreadableChart}

LEMMA ServicesRaise ==
    /\ create_account \subseteq ServiceFailures /\ update_account \subseteq ServiceFailures
    /\ get_account \subseteq ServiceFailures /\ list_accounts \subseteq ServiceFailures
    /\ delete_account \subseteq ServiceFailures
    /\ create_journal_entry \subseteq ServiceFailures
    /\ get_journal_entry \subseteq ServiceFailures
    /\ list_journal_entries \subseteq ServiceFailures
    /\ post_journal_entry \subseteq ServiceFailures
    /\ get_postings \subseteq ServiceFailures /\ get_trial_balance \subseteq ServiceFailures
<1>1. /\ <<"INVALID_ACCOUNT_CODE", "INVALID_ACCOUNT_NAME">> \in Seq(PlainTypes)
      /\ <<"INVALID_ACCOUNT_NAME">> \in Seq(PlainTypes)
      /\ <<"INVALID_LINE_AMOUNTS", ForeignType>> \in Seq(PlainTypes)
      /\ <<"FUTURE_DATE">> \in Seq(PlainTypes) /\ <<"UNBALANCED_ENTRY">> \in Seq(PlainTypes)
    BY DEF PlainTypes, PydanticTypes, RuleCodes, ChartCodes, ForeignType
<1>2. /\ \A code \in LookupCodes : not_found(code) \in ServiceFailures
      /\ \A code \in ConflictCodes \cup {"UNKNOWN_ERROR"} : conflict(code) \in ServiceFailures
      /\ \A types \in Seq(PlainTypes) :
            validation(types) \in ServiceFailures /\ ValidationError(types) \in ServiceFailures
    BY DEF ServiceFailures, NotFounds, Conflicts, Validations, ValidationErrors
<1>3. /\ not_found("UNKNOWN_ACCOUNT") \in ServiceFailures
      /\ not_found("UNKNOWN_JOURNAL_ENTRY") \in ServiceFailures
      /\ conflict("DUPLICATE_ACCOUNT_CODE") \in ServiceFailures
      /\ conflict("DUPLICATE_ACCOUNT_NAME") \in ServiceFailures
      /\ conflict("ACCOUNT_HAS_POSTINGS") \in ServiceFailures
      /\ conflict("JOURNAL_ALREADY_POSTED") \in ServiceFailures
      /\ conflict("UNKNOWN_ERROR") \in ServiceFailures
    BY <1>2 DEF LookupCodes, ConflictCodes, ChartCodes
<1>4. /\ validation(<<"INVALID_ACCOUNT_CODE", "INVALID_ACCOUNT_NAME">>) \in ServiceFailures
      /\ validation(<<"INVALID_ACCOUNT_NAME">>) \in ServiceFailures
      /\ validation(<<"INVALID_LINE_AMOUNTS", ForeignType>>) \in ServiceFailures
      /\ validation(<<"FUTURE_DATE">>) \in ServiceFailures
      /\ Unreadable \in ServiceFailures /\ UnreadableChart \in ServiceFailures
    BY <1>1, <1>2 DEF Unreadable, ServiceFailures
<1> QED
    BY <1>3, <1>4
    DEF create_account, update_account, get_account, list_accounts, delete_account,
        create_journal_entry, get_journal_entry, list_journal_entries, post_journal_entry,
        get_postings, get_trial_balance

\* A route whose mapper and service raise what is known here.
Known(entry) == entry.mapper \subseteq PlainTypes /\ entry.raises \subseteq ServiceFailures

LEMMA RoutersKnown == \A router \in Routers : \A to \in DOMAIN router : Known(router[to])
<1>1. "STRING_TOO_LONG" \in PlainTypes
    BY DEF PlainTypes, PydanticTypes, PYDANTIC_CODES, ChartCodes
<1>2. ASSUME NEW schema, NEW mapper \in SUBSET PlainTypes, NEW service,
             NEW raises \in SUBSET ServiceFailures, NEW status
      PROVE  Known(Route(schema, mapper, service, raises, status))
    BY DEF Known, Route
<1>3. \A to \in DOMAIN AccountRoutes : Known(AccountRoutes[to])
    BY <1>1, <1>2, ServicesRaise
    DEF AccountRoutes, to_create_account_input, to_update_account_input
<1>4. \A to \in DOMAIN JournalRoutes : Known(JournalRoutes[to])
    BY <1>2, ServicesRaise DEF JournalRoutes, to_create_journal_input
<1>5. \A to \in DOMAIN PostingRoutes : Known(PostingRoutes[to])
    BY <1>2, ServicesRaise DEF PostingRoutes
<1>6. \A to \in DOMAIN TrialBalanceRoutes : Known(TrialBalanceRoutes[to])
    <2> DEFINE T == Route(AsOfQuery, {}, "trial balance", get_trial_balance, 200)
    <2>1. Known(T)
        BY <1>2, ServicesRaise
    <2> HIDE DEF T
    <2>2. \A to \in DOMAIN [get_trial_balance |-> T] : [get_trial_balance |-> T][to] = T
        OBVIOUS
    <2>3. TrialBalanceRoutes = [get_trial_balance |-> T]
        BY DEF TrialBalanceRoutes, T
    <2> QED
        BY <2>1, <2>2, <2>3
<1>7. \A to \in DOMAIN SystemRoutes : Known(SystemRoutes[to])
    BY <1>2 DEF SystemRoutes
<1> QED
    BY <1>3, <1>4, <1>5, <1>6, <1>7 DEF Routers

LEMMA RoutesKnown == \A to \in Routes : Known(RouteTable[to])
<1> SUFFICES ASSUME NEW to \in Routes PROVE Known(RouteTable[to])
    OBVIOUS
<1> DEFINE Of == CHOOSE router \in Routers : to \in DOMAIN router
<1>1. \E router \in Routers : to \in DOMAIN router
    BY DEF Routes
<1>2. Of \in Routers /\ to \in DOMAIN Of
    BY <1>1
<1>3. RouteTable[to] = Of[to]
    BY DEF RouteTable
<1> QED
    BY <1>2, <1>3, RoutersKnown

\* What a request may end in, by its parts.
LEMMA FailuresKnown ==
    ASSUME NEW exc \in Failures
    PROVE  \/ exc \in ServiceFailures \cup StorageErrors \cup {NoSuchRoute, Unexpected}
           \/ \E types : exc = RequestValidationError(types)
<1>1. CASE exc = NoSuchRoute
    BY <1>1
<1>2. CASE exc # NoSuchRoute
    <2>1. PICK to \in Routes :
             exc \in {RequestValidationError(<<t>>) : t \in RouteTable[to].schema}
                        \cup {ValidationError(<<t>>) : t \in RouteTable[to].mapper}
                        \cup RouteTable[to].raises \cup Always
        BY <1>2 DEF Failures
    <2>2. ASSUME NEW t \in RouteTable[to].mapper, exc = ValidationError(<<t>>)
          PROVE  exc \in ServiceFailures
        <3>1. <<t>> \in Seq(PlainTypes)
            BY RoutesKnown DEF Known
        <3> QED
            BY <2>2, <3>1 DEF ServiceFailures, ValidationErrors
    <2>3. RouteTable[to].raises \subseteq ServiceFailures
        BY RoutesKnown DEF Known
    <2> QED
        BY <2>1, <2>2, <2>3 DEF Always
<1> QED
    BY <1>1, <1>2

\* The rule that a pydantic type names, for a client.
Named(t) == IF t = ForeignType THEN "UNKNOWN_ERROR" ELSE t

\* The API's details and the CLI's panels name the same rule for a violation,
\* and for a type that never went through the services.
LEMMA NamesTheRule ==
    ASSUME NEW t \in PydanticTypes
    PROVE  LET v == IF t \in PYDANTIC_CODES THEN FieldViolation(t, RejectedInput)
                    ELSE FieldViolation("UNKNOWN_ERROR", t) IN
           /\ _resolve_violation_code(v) = Named(t)
           /\ Panel(PanelCode(v)).code = Named(t)
           /\ Panel(t).code = Named(t)
           /\ Named(t) = "UNKNOWN_ERROR" => v.value = ForeignType
<1>1. t # "UNKNOWN_ERROR" /\ t # "REQUEST_VALIDATION_ERROR"
    BY DEF PydanticTypes, PYDANTIC_CODES, RuleCodes, ChartCodes, ForeignType
<1>2. "UNKNOWN_ERROR" \in ERRORS
    BY DEF ERRORS, ErrorCode, GenericCodes
<1>3. CASE t \in PYDANTIC_CODES
    <2>1. t # ForeignType /\ t \in ERRORS
        BY <1>1, <1>3 DEF ERRORS, ErrorCode, PYDANTIC_CODES, ForeignType
    <2> QED
        BY <1>1, <1>3, <2>1
        DEF FieldViolation, _resolve_violation_code, PanelCode, Panel, Named
<1>4. CASE t \in RuleCodes
    <2>1. t # ForeignType /\ t \in ERRORS /\ t \in ErrorCode /\ t \notin PYDANTIC_CODES
        BY <1>1, <1>4 DEF ERRORS, ErrorCode, PYDANTIC_CODES, RuleCodes, ChartCodes, ForeignType
    <2> QED
        BY <1>1, <2>1 DEF FieldViolation, _resolve_violation_code, PanelCode, Panel, Named
<1>5. CASE t = ForeignType
    <2>1. t \notin ErrorCode /\ t \notin ERRORS /\ t \notin PYDANTIC_CODES
        BY <1>5 DEF ERRORS, ErrorCode, GenericCodes, PYDANTIC_CODES, RuleCodes, LookupCodes,
                    ConflictCodes, ChartCodes, StorageCodes, AuthCodes, ForeignType
    <2> QED
        BY <1>2, <1>5, <2>1
        DEF FieldViolation, _resolve_violation_code, PanelCode, Panel, Named
<1> QED
    BY <1>3, <1>4, <1>5 DEF PydanticTypes

\* One detail and one panel per violation, for as many as there are.
LEMMA DetailsAgree ==
    ASSUME NEW types \in Seq(PydanticTypes)
    PROVE  /\ _build_field_details(get_field_violations(types))
                = [i \in DOMAIN types |-> Named(types[i])]
           /\ CodesShown(validation(types)) = [i \in DOMAIN types |-> Named(types[i])]
           /\ CodesShown(ValidationError(types)) = [i \in DOMAIN types |-> Named(types[i])]
           /\ \A i \in DOMAIN types :
                 Named(types[i]) = "UNKNOWN_ERROR" =>
                     get_field_violations(types)[i].value = ForeignType
<1> DEFINE vs == get_field_violations(types)
<1>1. \A i \in DOMAIN types : types[i] \in PydanticTypes
    OBVIOUS
<1>2. DOMAIN vs = DOMAIN types
    BY DEF get_field_violations
<1>3. ASSUME NEW i \in DOMAIN types
      PROVE  /\ _resolve_violation_code(vs[i]) = Named(types[i])
             /\ Panel(PanelCode(vs[i])).code = Named(types[i])
             /\ Panel(types[i]).code = Named(types[i])
             /\ Named(types[i]) = "UNKNOWN_ERROR" => vs[i].value = ForeignType
    <2>1. vs[i] = IF types[i] \in PYDANTIC_CODES THEN FieldViolation(types[i], RejectedInput)
                  ELSE FieldViolation("UNKNOWN_ERROR", types[i])
        BY DEF get_field_violations
    <2> QED
        BY <1>1, <2>1, NamesTheRule
<1> HIDE DEF vs
<1>4. _build_field_details(vs) = [i \in DOMAIN types |-> Named(types[i])]
    BY <1>2, <1>3 DEF _build_field_details
<1>5. CodesShown(validation(types)) = [i \in DOMAIN types |-> Named(types[i])]
    <2> DEFINE exc == validation(types)
    <2>1. exc.class = "ValidationAppError" /\ exc.errors = vs
        BY DEF validation, Raised, vs
    <2> HIDE DEF exc
    <2>2. PanelsOf(exc) = format_validation_app_error(exc)
        BY <2>1, Zenon DEF PanelsOf
    <2>3. PanelsOf(exc) = [i \in DOMAIN types |-> Panel(PanelCode(vs[i]))]
        BY <1>2, <2>1, <2>2 DEF format_validation_app_error
    <2>4. CodesShown(exc) = [i \in DOMAIN types |-> Named(types[i])]
        BY <1>3, <2>3 DEF CodesShown
    <2> QED
        BY <2>4 DEF exc
<1>6. CodesShown(ValidationError(types)) = [i \in DOMAIN types |-> Named(types[i])]
    <2> DEFINE exc == ValidationError(types)
    <2>1. exc.class = "ValidationError" /\ exc.errors = types
        BY DEF ValidationError, Raised
    <2> HIDE DEF exc
    <2>2. exc.class # "ValidationAppError" /\ exc.class # "AppError"
        BY <2>1
    <2>3. PanelsOf(exc) = format_validation_errors(exc.errors)
        BY <2>2, Zenon DEF PanelsOf
    <2>4. PanelsOf(exc) = [i \in DOMAIN types |-> Panel(types[i])]
        BY <2>1, <2>3 DEF format_validation_errors
    <2>5. CodesShown(exc) = [i \in DOMAIN types |-> Named(types[i])]
        BY <1>3, <2>4 DEF CodesShown
    <2> QED
        BY <2>5 DEF exc
<1> QED
    BY <1>3, <1>4, <1>5, <1>6 DEF vs

\* What the texts of an AppError refer to is in its context.
LEMMA ContextsSuffice ==
    ASSUME NEW exc \in NotFounds \cup Conflicts \cup StorageErrors
    PROVE  exc.class = "AppError" /\ EntryOf(exc.code).placeholders \subseteq exc.context
<1> DEFINE ByIdentifier == {"UNKNOWN_ACCOUNT", "UNKNOWN_JOURNAL_ENTRY"}
           ByValue == ChartCodes \cup {"DUPLICATE_JOURNAL_NUMBER", "JOURNAL_ALREADY_POSTED"}
<1>1. ASSUME NEW code
      PROVE  EntryOf(code).placeholders \in {{}, PlaceholdersOf(code)}
    BY DEF EntryOf, ERROR_CATALOG, DEFAULT_ERROR_ENTRY
<1>2. ASSUME NEW code, code \notin ByValue
      PROVE  PlaceholdersOf(code) \in {{}, {"identifier"}}
    BY <1>2, Zenon DEF PlaceholdersOf
<1>3. ASSUME NEW code, code \notin ByIdentifier
      PROVE  PlaceholdersOf(code) \in {{}, {"value"}}
    BY <1>3, Zenon DEF PlaceholdersOf
<1>4. CASE exc \in NotFounds
    <2>1. PICK code \in LookupCodes : exc = not_found(code)
        BY <1>4 DEF NotFounds
    <2>2. code \notin ByValue
        BY DEF LookupCodes, ChartCodes
    <2> QED
        BY <1>1, <1>2, <2>1, <2>2 DEF not_found, AppError, Raised
<1>5. CASE exc \in Conflicts
    <2>1. PICK code \in ConflictCodes \cup {"UNKNOWN_ERROR"} : exc = conflict(code)
        BY <1>5 DEF Conflicts
    <2>2. code \notin ByIdentifier
        BY DEF ConflictCodes, ChartCodes
    <2> QED
        BY <1>1, <1>3, <2>1, <2>2 DEF conflict, AppError, Raised
<1>6. CASE exc \in StorageErrors
    <2>1. PICK code : exc = AppError(code, {}) /\ code \in StorageCodes \cup {"UNKNOWN_ERROR"}
        BY <1>6 DEF StorageErrors, storage_unavailable, storage_timeout, unknown, StorageCodes
    <2>2. code \notin ByIdentifier /\ code \notin ByValue
        BY <2>1 DEF StorageCodes, ChartCodes
    <2>3. PlaceholdersOf(code) = {}
        BY <1>2, <1>3, <2>2
    <2> QED
        BY <1>1, <2>1, <2>3 DEF AppError, Raised
<1> QED
    BY <1>4, <1>5, <1>6

\* The texts of the details refer to nothing, but for the chart's codes.
LEMMA DetailsHaveTexts ==
    ASSUME NEW types \in Seq(PlainTypes)
    PROVE  /\ types \in Seq(PydanticTypes)
           /\ DetailsComplete([i \in DOMAIN types |-> Named(types[i])])
<1>1. types \in Seq(PydanticTypes) /\ \A i \in DOMAIN types : types[i] \in PlainTypes
    BY DEF PlainTypes
<1>2. ASSUME NEW t \in PlainTypes
      PROVE  EntryOf(Named(t)).placeholders = {}
    <2>1. /\ Named(t) \notin {"UNKNOWN_ACCOUNT", "UNKNOWN_JOURNAL_ENTRY"}
          /\ Named(t) \notin ChartCodes \cup {"DUPLICATE_JOURNAL_NUMBER", "JOURNAL_ALREADY_POSTED"}
        BY DEF Named, PlainTypes, PydanticTypes, PYDANTIC_CODES, RuleCodes, ChartCodes, ForeignType
    <2>2. PlaceholdersOf(Named(t)) = {}
        BY <2>1, Zenon DEF PlaceholdersOf
    <2> QED
        BY <2>2 DEF EntryOf, ERROR_CATALOG, DEFAULT_ERROR_ENTRY
<1> QED
    BY <1>1, <1>2 DEF DetailsComplete

\* What the handlers make of every failure a request may end in.
LEMMA FailuresAnswered ==
    ASSUME NEW exc \in Failures
    PROVE  LET answer == Handle(exc) IN
           /\ exc # UnreadableChart => answer.filled
           /\ exc.class = "ValidationAppError" =>
                 \A i \in DOMAIN answer.details :
                    answer.details[i] = "UNKNOWN_ERROR" => exc.errors[i].value = ForeignType
           /\ exc.class \in {"ValidationAppError", "ValidationError"} =>
                 answer.details = CodesShown(exc)
<1>1. CASE exc \in NotFounds \cup Conflicts \cup StorageErrors
    <2>1. exc.class = "AppError" /\ EntryOf(exc.code).placeholders \subseteq exc.context
        BY <1>1, ContextsSuffice
    <2>2. /\ exc.class # "ValidationAppError" /\ exc.class # "ValidationError"
          /\ exc.class # "RequestValidationError" /\ exc.class # "HTTPException"
        BY <2>1
    <2>3. Handle(exc) = _handle_app_error(exc)
        BY <2>1, <2>2, Zenon DEF Handle
    <2>4. Handle(exc).filled
        <3>1. PICK status, retry :
                 Handle(exc) = Response(status, exc.code, <<>>,
                                        _fill(EntryOf(exc.code).placeholders, exc.context), retry)
            BY <2>3, Zenon DEF _handle_app_error
        <3>2. _fill(EntryOf(exc.code).placeholders, exc.context) = TRUE
            BY <2>1, Zenon DEF _fill
        <3>3. Handle(exc) = Response(status, exc.code, <<>>, TRUE, retry)
            BY <3>1, <3>2, Zenon
        <3> QED
            BY <3>3 DEF Response
    <2> QED
        BY <2>2, <2>4
<1>2. CASE exc \in Validations
    <2>1. PICK types \in Seq(PlainTypes) : exc = validation(types)
        BY <1>2 DEF Validations
    <2> types \in Seq(PydanticTypes) /\ DetailsComplete([i \in DOMAIN types |-> Named(types[i])])
        BY DetailsHaveTexts
    <2>2. exc.class = "ValidationAppError" /\ exc.errors = get_field_violations(types)
        BY <2>1 DEF validation, Raised
    <2>3. Handle(exc) = _handle_validation_app_error(exc)
        BY <2>2, Zenon DEF Handle
    <2>4. /\ Handle(exc).details = _build_field_details(exc.errors)
          /\ Handle(exc).filled = DetailsComplete(_build_field_details(exc.errors))
        BY <2>3 DEF _handle_validation_app_error, Response
    <2>5. /\ Handle(exc).details = [i \in DOMAIN types |-> Named(types[i])]
          /\ CodesShown(exc) = [i \in DOMAIN types |-> Named(types[i])]
          /\ \A i \in DOMAIN types :
                Named(types[i]) = "UNKNOWN_ERROR" => exc.errors[i].value = ForeignType
        BY <2>1, <2>2, <2>4, DetailsAgree
    <2> HIDE DEF Named
    <2> QED
        BY <2>4, <2>5
<1>3. CASE exc \in ValidationErrors \cup {UnreadableChart}
    <2>1. PICK types \in Seq(PydanticTypes) :
             /\ exc = ValidationError(types)
             /\ exc # UnreadableChart => types \in Seq(PlainTypes)
        <3>1. <<"DUPLICATE_ACCOUNT_NAME">> \in Seq(PydanticTypes)
            BY DEF PydanticTypes, RuleCodes, ChartCodes
        <3>2. CASE exc = UnreadableChart
            BY <3>1, <3>2 DEF UnreadableChart
        <3>3. CASE exc \in ValidationErrors
            BY <3>3, DetailsHaveTexts DEF ValidationErrors
        <3> QED
            BY <1>3, <3>2, <3>3
    <2>2. exc.class = "ValidationError" /\ exc.errors = types
        BY <2>1 DEF ValidationError, Raised
    <2>3. exc.class # "ValidationAppError" /\ exc.class # "AppError"
        BY <2>2
    <2>4. Handle(exc) = _handle_pydantic_validation_error(exc)
        BY <2>2, <2>3, Zenon DEF Handle
    <2>5. /\ Handle(exc).details = _build_field_details(get_field_violations(exc.errors))
          /\ Handle(exc).filled = DetailsComplete(Handle(exc).details)
        BY <2>4 DEF _handle_pydantic_validation_error, Response
    <2>6. /\ Handle(exc).details = [i \in DOMAIN types |-> Named(types[i])]
          /\ CodesShown(exc) = [i \in DOMAIN types |-> Named(types[i])]
        BY <2>1, <2>2, <2>5, DetailsAgree
    <2>7. exc # UnreadableChart => Handle(exc).filled
        BY <2>1, <2>5, <2>6, DetailsHaveTexts
    <2> QED
        BY <2>3, <2>2, <2>6, <2>7
<1>4. CASE exc = NoSuchRoute \/ exc = Unexpected \/ \E types : exc = RequestValidationError(types)
    <2>1. exc.class \in {"HTTPException", "Exception", "RequestValidationError"}
        BY <1>4 DEF NoSuchRoute, Unexpected, RequestValidationError, Raised
    <2>2. /\ exc.class # "ValidationAppError" /\ exc.class # "AppError"
          /\ exc.class # "ValidationError"
        BY <2>1
    <2>3. Handle(exc) \in {BareNotFound, _handle_unexpected_error,
                           _handle_request_validation_error(exc)}
        BY <2>2, Zenon DEF Handle
    <2>4. Handle(exc).filled
        BY <2>3 DEF BareNotFound, _handle_unexpected_error, _handle_request_validation_error,
                    Response
    <2> QED
        BY <2>2, <2>4
<1> QED
    BY <1>1, <1>2, <1>3, <1>4, FailuresKnown DEF ServiceFailures

\* For every request that has failed, the details name the rules that the
\* CLI's panels show, and "UNKNOWN_ERROR" stands only for a type that is no
\* code.
THEOREM ServerDetailsNameTheRule == Spec => []DetailsNameTheRule
<1>1. IInv => DetailsNameTheRule
    <2> SUFFICES ASSUME IInv, NEW r \in Requests, Answered(r), raised[r] # None
                 PROVE  LET details == response[r].answer.details IN
                        /\ raised[r].class = "ValidationAppError" =>
                              \A i \in DOMAIN details :
                                 details[i] = "UNKNOWN_ERROR" =>
                                     raised[r].errors[i].value = ForeignType
                        /\ raised[r].class \in {"ValidationAppError", "ValidationError"} =>
                              details = CodesShown(raised[r])
        BY DEF DetailsNameTheRule
    <2>1. Story(r) /\ raised[r] \in Failures
        BY DEF IInv, Typed
    <2>2. response[r].answer = Handle(raised[r])
        BY <2>1 DEF Story, Answered, Sent
    <2> QED
        BY <2>1, <2>2, FailuresAnswered
<1> QED
    BY SpecIInv, <1>1, PTL

\* No response has an unfilled placeholder in it, but the one to a request that
\* met a chart with two accounts of one name.
THEOREM ServerMessagesComplete == Spec => []MessagesComplete
<1>1. IInv => MessagesComplete
    <2> SUFFICES ASSUME IInv, NEW r \in Requests, response[r] # None, raised[r] # UnreadableChart
                 PROVE  response[r].answer.filled
        BY DEF MessagesComplete
    <2>1. Sent(r) /\ raised[r] \in Failures \cup {None}
        BY ResponsesSent DEF IInv, Typed
    <2>2. CASE raised[r] = None
        BY <2>1, <2>2 DEF Sent
    <2>3. CASE raised[r] \in Failures /\ raised[r] # None
        BY <2>1, <2>3, FailuresAnswered DEF Sent
    <2> QED
        BY <2>1, <2>2, <2>3
<1> QED
    BY SpecIInv, <1>1, PTL
=============================================================================
