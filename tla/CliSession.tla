----------------------------- MODULE CliSession -----------------------------
(***************************************************************************)
(* One CLI process (apps/cli): the interactive shell or a single command,  *)
(* commands that fail, are declined or interrupted, and the cleanup at the *)
(* end.  The commands run on the main thread, the service calls on the one *)
(* event loop that the main thread waits for.                              *)
(***************************************************************************)
EXTENDS CliContext, CliCommands, SequencesExt

CONSTANT Lines  \* the lines that are typed, as sequences of words

VARIABLES
    asked,    \* by engine being checked: the service its handler is to get
    orphaned, \* engines whose connect() lost its caller before it ended
    mode,     \* "shell" or "one shot"
    stage,    \* what the main thread is doing
    line,     \* the line that named no command, if it did not (history)
    todo,     \* the steps left of the command
    depth,    \* the error_boundary blocks around the main thread
    raised,   \* the exception that is passing them, if any
    failure,  \* the first exception of the command, if any (history)
    panels,   \* what the boundaries have shown (history)
    logged,   \* the lines they have logged (history)
    scope,    \* whether a correlation id is bound
    status    \* the exit status, once it is known

commandVars == <<line, todo, depth, raised, failure, panels, logged, scope>>
handlerVars == <<asked, orphaned>>
vars == <<connectionVars, contextVars, handlerVars, mode, stage, commandVars, status>>

ASSUME SessionAssumption == None \notin Exceptions
ASSUME LinesAssumption == Lines \subseteq Seq(STRING)
ASSUME EnginesAssumption == IsFiniteSet(EngineIds)

NoService == "none"
NothingAsked == [e \in EngineIds |-> NoService]

\* What typer itself renders.
Usage(exc) == exc.class \in {"NoSuchCommand", "UsageError", "BadParameter"}

-----------------------------------------------------------------------------
(* What a line means *)

\* typer resolves the words after the program's name to a command or a group;
\* a help flag among them asks for the help of what the words before it name.
HelpFlags == {"--help"}
UpTo(words, n) == SubSeq(words, 1, n)
BeforeHelp(words) ==
    UpTo(words, Min({i \in DOMAIN words : words[i] \in HelpFlags}) - 1)
AsksForHelp(words) == \E i \in DOMAIN words : words[i] \in HelpFlags
IsGroup(words) == words = <<>> \/ (Len(words) = 1 /\ words[1] \in DOMAIN Groups)
IsCommand(words) ==
    /\ words # <<>>
    /\ \/ words[1] \in DOMAIN FlatCommands
       \/ /\ words[1] \in DOMAIN Groups
          /\ Len(words) > 1
          /\ words[2] \in DOMAIN Groups[words[1]]
ScriptsOf(words) ==
    IF words[1] \in DOMAIN FlatCommands THEN FlatCommands[words[1]]
    ELSE Groups[words[1]][words[2]]
Resolves(words) ==
    IF AsksForHelp(words)
    THEN IF IsGroup(BeforeHelp(words)) \/ IsCommand(BeforeHelp(words)) THEN "help" ELSE "nothing"
    ELSE IF IsCommand(words) THEN "command"
    ELSE IF IsGroup(words) THEN "group" ELSE "nothing"

\* The keywords of the shell; only "exit" ends it.
SHELL_BUILTINS == {"exit", "help"}
terminating_keywords == {"exit"}

\* Which words _DescribedCompleter offers after a path of words.
_build_tree == _known_commands \cup SHELL_BUILTINS
_complete_path(path, offer_trailing_help, include_builtins) ==
    CASE path = <<>> -> IF include_builtins THEN _build_tree ELSE _build_tree \ SHELL_BUILTINS
      [] Len(path) = 1 ->
            (IF path[1] \in DOMAIN Groups THEN DOMAIN Groups[path[1]] ELSE {})
            \cup (IF offer_trailing_help /\ path[1] \in _known_commands THEN {"help"} ELSE {})
      [] Len(path) = 2 /\ offer_trailing_help /\ path[1] \in DOMAIN Groups ->
            IF path[2] \in DOMAIN Groups[path[1]] THEN {"help"} ELSE {}
      [] OTHER -> {}

\* Faulty variant: the keywords are offered as targets of help.
CompletionsWithBuiltins(path) ==
    IF path # <<>> /\ path[1] = "help" THEN _complete_path(Tail(path), FALSE, TRUE)
    ELSE _complete_path(path, TRUE, TRUE)

get_completions(path) ==
    IF path # <<>> /\ path[1] = "help" THEN _complete_path(Tail(path), FALSE, FALSE)
    ELSE _complete_path(path, TRUE, TRUE)

Completed(words) == \A i \in DOMAIN words : words[i] \in get_completions(UpTo(words, i - 1))

\* _should_enter_shell: anything but a help flag or a known command.
_should_enter_shell(argv) ==
    argv # <<>> => argv[1] \notin HelpFlags \cup _known_commands

-----------------------------------------------------------------------------
(* Starting, reading lines, ending *)

Clear ==
    /\ line' = <<>> /\ todo' = <<>> /\ depth' = 0
    /\ raised' = None /\ failure' = None
    /\ panels' = <<>> /\ logged' = <<>>
    /\ scope' = FALSE

Init ==
    /\ ConnectionInit /\ ContextInit
    /\ asked = NothingAsked /\ orphaned = {}
    /\ mode = "none" /\ stage = "start" /\ status = "none"
    /\ line = <<>> /\ todo = <<>> /\ depth = 0
    /\ raised = None /\ failure = None
    /\ panels = <<>> /\ logged = <<>>
    /\ scope = FALSE

\* An exception is raised within n boundaries.
RaiseAt(n, exc) ==
    /\ stage' = "raised"
    /\ raised' = exc
    /\ depth' = n
    /\ failure' = IF failure = None THEN exc ELSE failure

\* What was typed as one line becomes app(words), in a correlation scope of its
\* own, up to the command's body.  The line is kept where nothing resolves.
App(typed, words) ==
    /\ scope' = TRUE
    /\ \/ /\ Resolves(words) \in {"command", "help"}
          /\ stage' = "command"
          /\ IF Resolves(words) = "command" THEN todo' \in ScriptsOf(words) ELSE todo' = <<>>
          /\ UNCHANGED <<line, raised, depth, failure>>
       \/ /\ Resolves(words) \in {"command", "group"}
          /\ RaiseAt(0, UsageError)
          /\ UNCHANGED <<line, todo>>
       \/ /\ Resolves(words) = "nothing"
          /\ RaiseAt(0, NoSuchCommand)
          /\ line' = typed
          /\ UNCHANGED todo
    /\ UNCHANGED <<connectionVars, contextVars, handlerVars, panels, logged, status>>

\* run(): the arguments of the process decide.
Start(argv) ==
    /\ stage = "start"
    /\ \/ /\ _should_enter_shell(argv)
          /\ mode' = "shell"
          /\ stage' = "prompt"
          /\ UNCHANGED <<connectionVars, contextVars, handlerVars, commandVars, status>>
       \/ /\ ~_should_enter_shell(argv)
          /\ mode' = "one shot"
          /\ App(argv, argv)

\* The shell reads a line that is not blank and can be split; a slash in front
\* is dropped, and a slash alone is no word at all.  "help" in front or at the
\* end stands for the help flag.
run_help(typed, target) == App(typed, Append(target, "--help"))
dispatch(args) == App(args, args)
ReadLine(words) ==
    /\ stage = "prompt"
    /\ words \notin {<<k>> : k \in terminating_keywords}
    /\ IF words # <<>> /\ words[1] = "help" THEN run_help(words, Tail(words))
       ELSE IF words # <<>> /\ Last(words) = "help" THEN run_help(words, Front(words))
       ELSE dispatch(words)
    /\ UNCHANGED mode

\* The loop ends by a keyword, by Ctrl-C or by the end of input.
LeaveShell ==
    /\ stage = "prompt"
    /\ stage' = "closing"
    /\ status' = "0"
    /\ UNCHANGED <<connectionVars, contextVars, handlerVars, mode, commandVars>>

-----------------------------------------------------------------------------
(* The steps of a command *)

Advance == todo' = Tail(todo)
Unraised == UNCHANGED <<raised, depth, failure>>
Do(does) == stage = "command" /\ todo # <<>> /\ Head(todo).does \in does

\* A step that stays on the main thread.
StepInMain ==
    /\ Do({"ask", "confirm", "parse", "refuse", "print"})
    /\ \/ /\ Head(todo).does # "refuse"
          /\ Advance /\ Unraised
          /\ UNCHANGED stage
       \/ /\ \E exc \in Head(todo).raises : RaiseAt(Head(todo).depth, exc)
          /\ UNCHANGED todo
    /\ UNCHANGED <<connectionVars, contextVars, handlerVars, mode, line, panels, logged, scope,
                   status>>

\* A handler on the event loop enters connect(), and leaves it.
Asks(e, s) == asked' = [asked EXCEPT ![e] = s]
Leaves(e) == asked' = [asked EXCEPT ![e] = NoService]

\* Faulty variant: the connection is cached before its check.
CallUnchecked(s) ==
    \/ /\ NeedsConnection(s)
       /\ \E e \in EngineIds : /\ BeginConnect(e) /\ Asks(e, s)
                              /\ connection' = e
                              /\ repo' = get_repo(e, ToBuild(s), {})
                              /\ service' = get_service(e, ToBuild(s), {})
       /\ stage' = "connecting"
    \/ /\ Assemble(s)
       /\ stage' = "calling"
       /\ UNCHANGED <<connectionVars, asked>>

\* CliState.call: the handler starts on the event loop.  Its accessor connects
\* first, or has all it needs.
call(s) ==
    \/ /\ NeedsConnection(s)
       /\ \E e \in EngineIds : BeginConnect(e) /\ Asks(e, s)
       /\ stage' = "connecting"
       /\ UNCHANGED contextVars
    \/ /\ Assemble(s)
       /\ stage' = "calling"
       /\ UNCHANGED <<connectionVars, asked>>

StartCall ==
    /\ Do({"call"})
    /\ call(Head(todo).service)
    /\ UNCHANGED <<orphaned, mode, commandVars, status>>

\* connect() returns to a handler: its accessor goes on.
ConnectReturns(e) == ConnectSucceeds(e) /\ AssembleConnected(asked[e], e) /\ Leaves(e)

Connected ==
    /\ stage = "connecting"
    /\ \E e \in connecting \ orphaned : ConnectReturns(e)
    /\ stage' = "calling"
    /\ UNCHANGED <<orphaned, mode, commandVars, status>>

\* connect() raises: nothing has been cached.
NotConnected ==
    /\ stage = "connecting"
    /\ \E e \in connecting \ orphaned :
          /\ Leaves(e)
          /\ \/ /\ ConnectFails(e)
                /\ \E exc \in ConnectErrors : RaiseAt(Head(todo).depth, exc)
             \/ /\ ConnectBreaks(e)
                /\ RaiseAt(Head(todo).depth, Unexpected)
    /\ UNCHANGED <<contextVars, orphaned, mode, line, todo, panels, logged, scope, status>>

\* The service returns or raises.
Return ==
    /\ stage = "calling"
    /\ \/ /\ stage' = "command"
          /\ Advance /\ Unraised
       \/ /\ \E exc \in Head(todo).raises : RaiseAt(Head(todo).depth, exc)
          /\ UNCHANGED todo
    /\ UNCHANGED <<connectionVars, contextVars, handlerVars, mode, line, panels, logged, scope,
                   status>>

\* A bound of the model: a connect() is only interrupted while there is an id left
\* for another engine.
IdsLeft == engines # EngineIds

\* Ctrl-C, or the end of input at a question.  A handler that was running goes
\* on running on the event loop, and nobody waits for it any more.
Interrupt ==
    /\ \/ /\ Do({"ask", "confirm"}) \/ stage = "calling" \/ (stage = "connecting" /\ IdsLeft)
          /\ RaiseAt(Head(todo).depth, KeyboardInterrupt)
       \/ /\ Do({"ask", "confirm"})
          /\ RaiseAt(Head(todo).depth, EndOfInput)
    /\ orphaned' = orphaned \cup connecting
    /\ UNCHANGED <<connectionVars, contextVars, asked, mode, line, todo, panels, logged, scope,
                   status>>

-----------------------------------------------------------------------------
(* The end of a command *)

\* Faulty variant: what was caught is raised again for the caller.
ReportAndRaise ==
    IF Caught(raised)
    THEN /\ panels' = Append(panels, CodesShown(raised))
         /\ logged' = Append(logged, [line |-> _log_failure(raised), scope |-> scope])
         /\ UNCHANGED raised
    ELSE UNCHANGED <<panels, logged, raised>>

\* A boundary renders what it catches and raises typer.Exit in its place.
error_boundary ==
    IF Caught(raised)
    THEN /\ panels' = Append(panels, CodesShown(raised))
         /\ logged' = Append(logged, [line |-> _log_failure(raised), scope |-> scope])
         /\ raised' = Exit("1")
    ELSE UNCHANGED <<panels, logged, raised>>

\* Faulty variant: a call that fails in the storage is tried again.
RetryStorage ==
    /\ stage = "raised" /\ depth > 0
    /\ IF raised \in StorageErrors
       THEN stage' = "command" /\ raised' = None /\ UNCHANGED <<depth, panels, logged>>
       ELSE depth' = depth - 1 /\ error_boundary /\ UNCHANGED stage
    /\ UNCHANGED <<connectionVars, contextVars, handlerVars, mode, line, todo, failure, scope,
                   status>>

\* The exception leaves the innermost boundary.
LeaveBoundary ==
    /\ stage = "raised" /\ depth > 0
    /\ depth' = depth - 1
    /\ error_boundary
    /\ UNCHANGED <<connectionVars, contextVars, handlerVars, mode, stage, line, todo, failure,
                   scope, status>>

\* typer turns Ctrl-C into typer.Exit.
EndsAsExit(exc) == exc.class \in {"Exit", "KeyboardInterrupt"}

\* Faulty variant: app() is called so that it returns the status, as in the
\* shell.
StatusDropped(exc) ==
    IF EndsAsExit(exc) THEN "0" ELSE IF Usage(exc) THEN "2" ELSE "1"

\* The status typer ends with: typer.Exit has one, Ctrl-C is 130, an error of
\* usage is 2, the end of input and what nobody catches are 1.
StatusOfRaised(exc) ==
    IF exc.class = "KeyboardInterrupt" THEN "130"
    ELSE IF exc.class = "Exit" THEN exc.code ELSE IF Usage(exc) THEN "2" ELSE "1"

\* In the shell app() returns after typer.Exit, hence after Ctrl-C, and dispatch
\* renders errors of usage; anything else, the end of input included, leaves the
\* loop.
StaysInShell(exc) == EndsAsExit(exc) \/ Usage(exc)

\* The command is over: the shell prompts again, one shot goes to its cleanup.
Over(code) ==
    \/ /\ mode = "shell"
       /\ stage' = "prompt"
       /\ Clear
       /\ UNCHANGED status
    \/ /\ mode = "one shot"
       /\ stage' = "closing"
       /\ status' = code
       /\ scope' = FALSE
       /\ UNCHANGED <<line, todo, depth, raised, failure, panels, logged>>

Complete ==
    /\ stage = "command" /\ todo = <<>>
    /\ Over("0")
    /\ UNCHANGED <<connectionVars, contextVars, handlerVars, mode>>

Fail ==
    /\ stage = "raised" /\ depth = 0
    /\ \/ /\ mode = "one shot" \/ StaysInShell(raised)
          /\ Over(StatusOfRaised(raised))
       \/ /\ mode = "shell" /\ ~StaysInShell(raised)
          /\ stage' = "closing"
          /\ status' = "1"
          /\ scope' = FALSE
          /\ UNCHANGED <<line, todo, depth, raised, failure, panels, logged>>
    /\ UNCHANGED <<connectionVars, contextVars, handlerVars, mode>>

-----------------------------------------------------------------------------
(* The end of the process *)

\* Faulty variant: the connection is only dropped.
CloseByDropping ==
    /\ stage = "closing"
    /\ Drop
    /\ stage' = "closed"
    /\ UNCHANGED <<connectionVars, handlerVars, mode, commandVars, status>>

\* The finally clause of run(): aclose().
Close ==
    /\ \/ stage = "closing" /\ BeginClose /\ stage' = "disposing"
       \/ /\ stage = "disposing" \/ (stage = "closing" /\ connection = None)
          /\ Drop /\ UNCHANGED connectionVars
          /\ stage' = "closed"
    /\ UNCHANGED <<handlerVars, mode, commandVars, status>>

\* run() ends by an exception but after a shell that was left at its prompt: a
\* single command ends by SystemExit.
EndsByException == mode = "one shot" \/ raised # None

\* The portal stops: after an exception it cancels what still waits for
\* connect(), otherwise it waits for it.
StopPortal ==
    /\ stage = "closed"
    /\ EndsByException \/ connecting = {}
    /\ Break(connecting)
    /\ asked' = NothingAsked
    /\ stage' = "exited"
    /\ UNCHANGED <<contextVars, orphaned, mode, commandVars, status>>

\* Meanwhile, whatever the main thread does, connect() may end in a handler that
\* nobody waits for any more.
OrphanConnects ==
    /\ \E e \in connecting \cap orphaned : ConnectReturns(e)
    /\ UNCHANGED <<orphaned, mode, stage, commandVars, status>>
OrphanFails ==
    /\ \E e \in connecting \cap orphaned :
          /\ Leaves(e)
          /\ \/ ConnectFails(e) /\ orphaned' = orphaned \ {e}
             \/ ConnectBreaks(e) /\ UNCHANGED orphaned
    /\ UNCHANGED <<contextVars, mode, stage, commandVars, status>>

\* Another process.
Restart ==
    /\ stage = "exited"
    /\ engines' = {} /\ connecting' = {} /\ abandoned' = {}
    /\ asked' = NothingAsked /\ orphaned' = {}
    /\ Drop /\ Clear
    /\ mode' = "none" /\ stage' = "start" /\ status' = "none"

MainStep == \/ StepInMain \/ StartCall \/ Connected \/ NotConnected \/ Return
            \/ LeaveBoundary \/ Complete \/ Fail \/ Close \/ StopPortal
Input == \/ \E words \in Lines : Start(words) \/ ReadLine(words)
         \/ LeaveShell \/ Interrupt \/ Restart
Orphan == OrphanConnects \/ OrphanFails
Next == MainStep \/ Input \/ Orphan

Spec == Init /\ [][Next]_vars

\* The main thread runs, questions are answered, statements return; a connect()
\* ends, whether or not somebody waits for it.
FairSpec == Spec /\ WF_vars(MainStep) /\ WF_vars(Orphan)

-----------------------------------------------------------------------------
(* Types *)

Stages == {"start", "prompt", "command", "connecting", "calling", "raised",
           "closing", "disposing", "closed", "exited"}

\* The process, its context and its command have the shape the code gives them.
TypeOK ==
    /\ engines \subseteq EngineIds /\ abandoned \subseteq engines
    /\ connecting \subseteq engines /\ orphaned \subseteq EngineIds
    /\ asked \in [EngineIds -> Kinds \cup {NoService}]
    /\ \A e \in EngineIds : asked[e] # NoService <=> e \in connecting
    /\ connection \in EngineIds \cup {None}
    /\ repo \in [Kinds -> EngineIds \cup {None, Supplied}]
    /\ service \in [Kinds -> SUBSET (EngineIds \cup {Supplied})]
    /\ mode \in {"none", "shell", "one shot"}
    /\ stage \in Stages
    /\ depth \in 0..2
    /\ scope \in BOOLEAN
    /\ status \in {"none", "0", "1", "2", "130"}
    /\ stage \in {"connecting", "calling"} => todo # <<>>

-----------------------------------------------------------------------------
(* The context *)

\* Engines that are checked and neither disposed nor left behind.
Open == engines \ (abandoned \cup connecting)

\* Whatever connects, fails to or is interrupted in between, the process holds
\* one engine at most beside those whose check broke and those whose connect()
\* lost its caller; as long as none did, it is the cached one or the one being
\* checked: a failed connect leaves nothing to be found.
OneEngine ==
    /\ \A e, f \in engines \ (abandoned \cup orphaned) : e = f
    /\ orphaned = {} /\ stage # "disposing" =>
          engines = ({connection} \ {None}) \cup connecting \cup abandoned

\* Nothing that is cached outlives its connection, also when a handler that
\* nobody waits for caches over what a later command has built: repositories and
\* services reach what is open or what the caller supplied, and only the cached
\* connection as long as no connect() lost its caller.
NothingOutlivesItsConnection ==
    stage # "disposing" =>
        LET current == IF orphaned = {} THEN {connection} \ {None} ELSE Open IN
        /\ connection \in Open \cup {None}
        /\ \A k \in Kinds : /\ repo[k] \in current \cup {Supplied, None}
                             /\ service[k] \subseteq current \cup {Supplied}

\* A call runs on a service that is there and on connections that are open.
CallsAreConnected ==
    stage = "calling" =>
        /\ service[Head(todo).service] # {}
        /\ service[Head(todo).service] \subseteq Open \cup {Supplied}

\* Whichever way the process ends, it leaves no more engines open than there were
\* connects that lost their caller, beside those whose check broke.
ClosedAtExit ==
    stage = "exited" =>
        Cardinality(engines \ abandoned) <= Cardinality(orphaned \ abandoned)

-----------------------------------------------------------------------------
(* Commands *)

\* However deep the boundaries are nested, a failure of a service or of a DTO
\* is shown once and logged once, in the command's correlation scope, and
\* nothing else is.
FailuresReportedOnce ==
    stage = "raised" /\ depth = 0 =>
        IF Caught(failure)
        THEN /\ panels = <<CodesShown(failure)>>
             /\ logged = <<[line |-> _log_failure(failure), scope |-> TRUE]>>
        ELSE panels = <<>> /\ logged = <<>>

\* A script that reads the status can rely on it: 0 means that the command did
\* what it was asked to or that the user declined, 2 that it was not called as
\* it is meant to be (which a command may notice after a call), 130 that it was
\* interrupted, 1 that anything else went wrong.
ExitStatusTruthful ==
    mode = "one shot" /\ stage \in {"closing", "disposing", "closed", "exited"} =>
        /\ status = "0" => failure \in {None, Exit("0")}
        /\ status = "2" => Usage(failure)
        /\ status = "130" => failure = KeyboardInterrupt
        /\ status = "1" => /\ failure \notin {None, KeyboardInterrupt, Exit("0")}
                           /\ ~Usage(failure)

\* A line made of completions alone is one that the shell understands.
CompletionsUnderstood ==
    mode = "shell" /\ failure = NoSuchCommand => ~Completed(line)

\* No failure that the boundaries translate ends an interactive session: it
\* goes on to the next prompt unless the user leaves, ends the input, or meets
\* something nobody translates; Ctrl-C ends the command only.
ShellSurvives ==
    [][mode = "shell" /\ stage # "closing" /\ stage' = "closing"
         => failure \in {None, EndOfInput, Unexpected}]_vars

\* Every command, and every process that is ending, comes to an end.
CommandsEnd ==
    stage \notin {"start", "prompt", "exited"} ~> stage \in {"prompt", "exited"}
=============================================================================
