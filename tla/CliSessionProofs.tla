-------------------------- MODULE CliSessionProofs --------------------------
(***************************************************************************)
(* Proofs about CliSession.  First the scripts of the commands: which      *)
(* steps they are made of, and at which depth they raise.  Then an         *)
(* inductive invariant in three parts: the types, what the process holds   *)
(* and what its handlers still wait for, and what has been reported.       *)
(***************************************************************************)
EXTENDS CliSession, SequenceTheorems, FiniteSetTheorems, TLAPS

-----------------------------------------------------------------------------
(* Exceptions *)

\* What the boundaries render is none of the exceptions that end a command in
\* other ways.
LEMMA RenderedClasses ==
    \A exc \in Rendered : Caught(exc) /\ ~Usage(exc) /\ exc.class \notin
        {"Exit", "KeyboardInterrupt", "EOFError", "Exception"}
    BY DEF Caught, Usage, Rendered

LEMMA OtherClasses ==
    /\ KeyboardInterrupt.class = "KeyboardInterrupt" /\ EndOfInput.class = "EOFError"
    /\ Unexpected.class = "Exception"
    /\ \A s : Exit(s).class = "Exit" /\ Exit(s).code = s
    /\ BadParameter.class = "BadParameter"
    /\ NoSuchCommand.class = "NoSuchCommand" /\ UsageError.class = "UsageError"
    BY DEF KeyboardInterrupt, EndOfInput, Unexpected, Exit, BadParameter, NoSuchCommand, UsageError,
           Raises, Raised

\* Any other exception passes the boundaries, and is of one of four kinds.
LEMMA OtherExceptions ==
    \A exc \in Exceptions :
        \/ exc \in Rendered
        \/ /\ ~Caught(exc)
           /\ \/ Usage(exc)
              \/ exc \in {Exit("0"), Exit("1")}
              \/ exc = KeyboardInterrupt /\ ~Usage(exc)
              \/ exc \in {EndOfInput, Unexpected} /\ ~StaysInShell(exc) /\ ~Usage(exc)
    BY OtherClasses DEF Exceptions, Caught, Usage, StaysInShell, EndsAsExit

\* A rendered exception, by its parts.
LEMMA RaisedRendered ==
    ASSUME NEW class \in {"AppError", "ValidationAppError", "ValidationError"},
           NEW code \in ErrorCode \cup {"none"},
           NEW context \in SUBSET {"resource", "identifier", "field", "value"},
           NEW errors \in Seq(PydanticTypes) \cup Seq(FieldViolations)
    PROVE  Raised(class, code, context, errors, NoDelay) \in Rendered
    BY DEF Raised, Rendered

\* The errors of the services and of the DTOs are rendered.
LEMMA FactoriesRendered ==
    /\ \A code \in ErrorCode : not_found(code) \in Rendered /\ conflict(code) \in Rendered
    /\ unknown \in Rendered /\ storage_unavailable \in Rendered /\ storage_timeout \in Rendered
    /\ \A types \in Seq(PydanticTypes) : ValidationError(types) \in Rendered
<1> USE DEF NoDelay
<1>1. \A code \in ErrorCode, context \in SUBSET {"resource", "identifier", "field", "value"} :
         AppError(code, context) \in Rendered
    <2>1. <<>> \in Seq(PydanticTypes)
        OBVIOUS
    <2> QED
        BY <2>1, RaisedRendered DEF AppError
<1>2. {"UNKNOWN_ERROR", "STORAGE_UNAVAILABLE", "STORAGE_TIMEOUT"} \subseteq ErrorCode
    BY DEF ErrorCode, GenericCodes, StorageCodes
<1>3. \A types \in Seq(PydanticTypes) : ValidationError(types) \in Rendered
    BY RaisedRendered DEF ValidationError
<1> QED
    BY <1>1, <1>2, <1>3 DEF not_found, conflict, unknown, storage_unavailable, storage_timeout

LEMMA ValidationRendered ==
    ASSUME NEW types \in Seq(PydanticTypes)
    PROVE  validation(types) \in Rendered
<1> DEFINE V == get_field_violations(types)
<1>1. /\ DOMAIN types = 1..Len(types) /\ Len(types) \in Nat
      /\ \A i \in DOMAIN types : types[i] \in PydanticTypes
    OBVIOUS
<1>2. DOMAIN V = DOMAIN types
    BY DEF get_field_violations
<1>3. ASSUME NEW i \in DOMAIN types
      PROVE  V[i] \in FieldViolations
    <2>1. types[i] \in PydanticTypes
        BY <1>1
    <2>2. PYDANTIC_CODES \subseteq ErrorCode /\ "UNKNOWN_ERROR" \in ErrorCode
        BY DEF ErrorCode, GenericCodes
    <2> QED
        BY <2>1, <2>2 DEF get_field_violations, FieldViolation, FieldViolations, RejectedInput
<1>4. V = [i \in 1..Len(types) |-> V[i]]
    BY <1>1 DEF get_field_violations
<1>5. V \in Seq(FieldViolations)
    BY <1>1, <1>3, <1>4, SeqDef
<1>6. "VALIDATION_ERROR" \in ErrorCode
    BY DEF ErrorCode, GenericCodes
<1> QED
    BY <1>5, <1>6, RaisedRendered DEF validation

-----------------------------------------------------------------------------
(* Scripts *)

\* What a step of a command may raise: only a line that is not understood names
\* no command.
StepErrors == Exceptions \ {NoSuchCommand}

LEMMA KnownStepErrors ==
    /\ Rendered \subseteq StepErrors
    /\ {Unexpected, BadParameter, KeyboardInterrupt, EndOfInput, Exit("0")} \subseteq StepErrors
    /\ StepErrors \subseteq Exceptions
<1>1. NoSuchCommand \notin Rendered
    BY RenderedClasses, OtherClasses DEF Usage
<1>2. /\ NoSuchCommand # Unexpected /\ NoSuchCommand # BadParameter
      /\ NoSuchCommand # KeyboardInterrupt /\ NoSuchCommand # EndOfInput
      /\ NoSuchCommand # Exit("0")
    BY OtherClasses
<1> QED
    BY <1>1, <1>2 DEF StepErrors, Exceptions

\* A step of a script: a call is made of a service there is, and what a
\* boundary renders is raised inside of one.
Steps ==
    {t \in [does : {"ask", "confirm", "parse", "refuse", "print", "call"}, depth : 0..2,
            service : Kinds \cup {"none"}, raises : SUBSET StepErrors] :
        /\ t.does = "call" => t.service \in Kinds /\ t.depth > 0
        /\ \A exc \in t.raises : exc \in Rendered => t.depth > 0}

LEMMA ServiceErrorsRendered ==
    /\ create_account \subseteq StepErrors /\ update_account \subseteq StepErrors
    /\ get_account \subseteq StepErrors /\ list_accounts \subseteq StepErrors
    /\ delete_account \subseteq StepErrors
    /\ create_journal_entry \subseteq StepErrors /\ get_journal_entry \subseteq StepErrors
    /\ list_journal_entries \subseteq StepErrors /\ post_journal_entry \subseteq StepErrors
    /\ get_postings \subseteq StepErrors /\ get_trial_balance \subseteq StepErrors
    /\ Always \subseteq StepErrors /\ UnreadableChart \in StepErrors
<1>1. LookupCodes \cup ConflictCodes \cup {"UNKNOWN_ERROR"} \subseteq ErrorCode
    BY DEF ErrorCode, GenericCodes
<1>2. /\ <<"INVALID_ACCOUNT_CODE", "INVALID_ACCOUNT_NAME">> \in Seq(PydanticTypes)
      /\ <<"INVALID_ACCOUNT_NAME">> \in Seq(PydanticTypes)
      /\ <<"INVALID_LINE_AMOUNTS", ForeignType>> \in Seq(PydanticTypes)
      /\ <<"FUTURE_DATE">> \in Seq(PydanticTypes) /\ <<"UNBALANCED_ENTRY">> \in Seq(PydanticTypes)
      /\ <<"DUPLICATE_ACCOUNT_NAME">> \in Seq(PydanticTypes)
    BY DEF PydanticTypes, RuleCodes, ChartCodes
<1>3. Rendered \subseteq StepErrors /\ Unexpected \in StepErrors
    BY KnownStepErrors
<1>4. Always \subseteq StepErrors
    BY <1>3, FactoriesRendered DEF Always, StorageErrors
<1>5. /\ create_account \subseteq StepErrors /\ update_account \subseteq StepErrors
      /\ get_account \subseteq StepErrors /\ list_accounts \subseteq StepErrors
      /\ delete_account \subseteq StepErrors
    BY <1>1, <1>2, <1>3, FactoriesRendered, ValidationRendered
    DEF create_account, update_account, get_account, list_accounts, delete_account, LookupCodes,
        ConflictCodes, ChartCodes
<1>6. /\ create_journal_entry \subseteq StepErrors /\ get_journal_entry \subseteq StepErrors
      /\ list_journal_entries \subseteq StepErrors /\ post_journal_entry \subseteq StepErrors
      /\ get_postings \subseteq StepErrors /\ get_trial_balance \subseteq StepErrors
    BY <1>1, <1>2, <1>3, FactoriesRendered, ValidationRendered
    DEF create_journal_entry, get_journal_entry, list_journal_entries, post_journal_entry,
        get_postings, get_trial_balance, Unreadable, UnreadableChart, LookupCodes, ConflictCodes
<1>7. UnreadableChart \in StepErrors
    BY <1>2, <1>3, FactoriesRendered DEF UnreadableChart
<1> QED
    BY <1>4, <1>5, <1>6, <1>7

LEMMA ParserErrors ==
    /\ parse_create_account(TRUE) \subseteq StepErrors
    /\ parse_create_account(FALSE) \subseteq StepErrors
    /\ parse_update_account(TRUE) \subseteq StepErrors
    /\ parse_update_account(FALSE) \subseteq StepErrors
    /\ parse_journal_line \subseteq StepErrors /\ parse_line_spec \subseteq StepErrors
    /\ parse_create_journal \subseteq StepErrors
    /\ parse_create_journal \cup {ValidationError(<<"TOO_SHORT">>)} \subseteq StepErrors
<1>1. /\ <<"STRING_TOO_SHORT">> \in Seq(PydanticTypes)
      /\ <<"STRING_TOO_LONG", "STRING_TOO_SHORT">> \in Seq(PydanticTypes)
      /\ <<"GREATER_THAN_EQUAL", ForeignType>> \in Seq(PydanticTypes)
      /\ <<"STRING_TOO_LONG">> \in Seq(PydanticTypes) /\ <<"TOO_SHORT">> \in Seq(PydanticTypes)
    BY DEF PydanticTypes, PYDANTIC_CODES
<1>2. Rendered \subseteq StepErrors /\ BadParameter \in StepErrors
    BY KnownStepErrors
<1> QED
    BY <1>1, <1>2, FactoriesRendered
    DEF parse_create_account, parse_update_account, parse_journal_line, parse_line_spec,
        parse_create_journal, parse_posting_date, _parse_amount, _get_category, TextErrors

LEMMA StepShapes ==
    /\ \A d \in 0..1 : Ask(d) \in Steps /\ Confirm(d) \in Steps
    /\ \A raises \in SUBSET StepErrors : Parse(1, raises) \in Steps
    /\ Parse(0, parse_as_of_date) \in Steps
    /\ Refuse(1) \in Steps /\ print_postings_list \in Steps
    /\ \A d \in 1..2, s \in Kinds, raises \in SUBSET StepErrors : Call(d, s, raises) \in Steps
<1>1. {Exit("0"), BadParameter, Unexpected} \subseteq StepErrors
    BY KnownStepErrors
<1>2. \A exc \in {Exit("0"), BadParameter, Unexpected} : exc \notin Rendered
    BY RenderedClasses, OtherClasses DEF Caught
<1>3. \A d \in 0..1 : Ask(d) \in Steps /\ Confirm(d) \in Steps
    BY <1>1, <1>2 DEF Steps, Ask, Confirm, Step
<1>4. \A raises \in SUBSET StepErrors : Parse(1, raises) \in Steps
    BY DEF Steps, Parse, Step
<1>5. /\ Parse(0, parse_as_of_date) \in Steps
      /\ Refuse(1) \in Steps /\ print_postings_list \in Steps
    BY <1>1, <1>2 DEF Steps, Parse, Refuse, print_postings_list, parse_as_of_date, Step
<1>6. ASSUME NEW d \in 1..2, NEW s \in Kinds, NEW raises \in SUBSET StepErrors
      PROVE  Call(d, s, raises) \in Steps
    <2>1. raises \cup Always \in SUBSET StepErrors
        BY ServiceErrorsRendered
    <2> QED
        BY <2>1 DEF Steps, Call, Step
<1> QED
    BY <1>3, <1>4, <1>5, <1>6

\* Scripts are put together from steps and from scripts.
LEMMA Together ==
    /\ <<>> \in Seq(Steps)
    /\ \A t \in Steps : <<t>> \in Seq(Steps)
    /\ \A t, u \in Steps : <<t, u>> \in Seq(Steps)
    /\ \A s, t \in Seq(Steps) : s \o t \in Seq(Steps)
    BY ConcatProperties

LEMMA AccountScripts ==
    /\ create_account_command \subseteq Seq(Steps) /\ get_account_command \subseteq Seq(Steps)
    /\ list_accounts_command \subseteq Seq(Steps) /\ update_account_command \subseteq Seq(Steps)
    /\ delete_account_command \subseteq Seq(Steps)
<1>1. "account" \in Kinds
    BY DEF Kinds
<1>2. /\ _fetch_account(0) \in Steps /\ _fetch_account(1) \in Steps
      /\ Call(1, "account", create_account) \in Steps
      /\ Call(1, "account", update_account) \in Steps
      /\ Call(1, "account", list_accounts) \in Steps
      /\ Call(1, "account", delete_account) \in Steps
    <2>1. get_account_handler \subseteq StepErrors
        BY ServiceErrorsRendered DEF get_account_handler
    <2> QED
        BY <1>1, <2>1, StepShapes, ServiceErrorsRendered DEF _fetch_account
<1>3. /\ Parse(1, parse_create_account(TRUE)) \in Steps
      /\ Parse(1, parse_create_account(FALSE)) \in Steps
      /\ Parse(1, parse_update_account(TRUE)) \in Steps
      /\ Parse(1, parse_update_account(FALSE)) \in Steps
      /\ Refuse(1) \in Steps /\ Ask(0) \in Steps /\ Ask(1) \in Steps /\ Confirm(0) \in Steps
    <2>1. {parse_create_account(TRUE), parse_create_account(FALSE), parse_update_account(TRUE),
           parse_update_account(FALSE)} \subseteq SUBSET StepErrors
        BY ParserErrors
    <2>2. \A raises \in SUBSET StepErrors : Parse(1, raises) \in Steps
        BY StepShapes
    <2>3. Refuse(1) \in Steps /\ Ask(0) \in Steps /\ Ask(1) \in Steps /\ Confirm(0) \in Steps
        BY StepShapes
    <2> QED
        BY <2>1, <2>2, <2>3
<1>4. /\ prompt_create_account \in Seq(Steps) /\ prompt_update_account \in Seq(Steps)
      /\ prompt_account_identifier \in Seq(Steps) /\ confirm_account_deletion \in Seq(Steps)
    BY <1>3, Together
    DEF prompt_create_account, prompt_update_account, prompt_account_identifier,
        confirm_account_deletion
<1>5. /\ create_account_command \subseteq Seq(Steps) /\ get_account_command \subseteq Seq(Steps)
      /\ list_accounts_command \subseteq Seq(Steps)
    <2>1. /\ <<Parse(1, parse_create_account(FALSE))>> \in Seq(Steps)
          /\ <<Call(1, "account", create_account)>> \in Seq(Steps)
          /\ <<Refuse(1)>> \in Seq(Steps) /\ <<_fetch_account(0)>> \in Seq(Steps)
          /\ <<Call(1, "account", list_accounts)>> \in Seq(Steps)
        BY <1>2, <1>3, Together
    <2> QED
        BY <2>1, <1>4, Together
        DEF create_account_command, get_account_command, list_accounts_command
<1>6. update_account_command \subseteq Seq(Steps)
    <2>1. /\ <<_fetch_account(1), Parse(1, parse_update_account(FALSE))>> \in Seq(Steps)
          /\ <<_fetch_account(1)>> \in Seq(Steps)
          /\ <<Call(1, "account", update_account)>> \in Seq(Steps)
        BY <1>2, <1>3, Together
    <2>2. <<_fetch_account(1)>> \o prompt_update_account \in Seq(Steps)
        BY <2>1, <1>4, Together
    <2> QED
        BY <2>1, <2>2, <1>4, Together DEF update_account_command
<1>7. delete_account_command \subseteq Seq(Steps)
    <2>1. <<_fetch_account(0)>> \in Seq(Steps) /\ <<Call(1, "account", delete_account)>> \in Seq(Steps)
        BY <1>2, Together
    <2> QED
        BY <2>1, <1>4, Together DEF delete_account_command
<1> QED
    BY <1>5, <1>6, <1>7

LEMMA JournalScripts ==
    /\ create_journal_command \subseteq Seq(Steps) /\ get_journal_command \subseteq Seq(Steps)
    /\ list_journal_command \subseteq Seq(Steps)
<1>1. "journal" \in Kinds
    BY DEF Kinds
<1>2. /\ <<Call(1, "journal", create_journal_entry)>> \in Seq(Steps)
      /\ <<Call(1, "journal", get_journal_entry)>> \in Seq(Steps)
      /\ <<Call(1, "journal", list_journal_entries)>> \in Seq(Steps)
    BY <1>1, StepShapes, ServiceErrorsRendered
<1>3. /\ <<Ask(1)>> \in Seq(Steps) /\ prompt_journal_number \in Seq(Steps)
      /\ _prompt_lines \in Seq(Steps) /\ <<Ask(1), Parse(1, parse_create_journal)>> \in Seq(Steps)
    BY StepShapes, ParserErrors DEF prompt_journal_number, _prompt_lines
<1>4. prompt_create_journal \in Seq(Steps)
    BY <1>3, Together DEF prompt_create_journal
<1>5. <<Parse(1, parse_line_spec),
        Parse(1, parse_create_journal \cup {ValidationError(<<"TOO_SHORT">>)})>> \in Seq(Steps)
    BY StepShapes, ParserErrors
<1>6. create_journal_command \subseteq Seq(Steps)
    BY <1>2, <1>4, <1>5, Together DEF create_journal_command
<1>7. get_journal_command \subseteq Seq(Steps) /\ list_journal_command \subseteq Seq(Steps)
    BY <1>2, <1>3, Together DEF get_journal_command, list_journal_command
<1> QED
    BY <1>6, <1>7

LEMMA ReportScripts ==
    /\ post_command \subseteq Seq(Steps) /\ get_by_account_command \subseteq Seq(Steps)
    /\ get_by_journal_command \subseteq Seq(Steps) /\ trial_balance_command \subseteq Seq(Steps)
<1>1. "posting" \in Kinds /\ "trial balance" \in Kinds
    BY DEF Kinds
<1>2. /\ <<Call(1, "posting", post_journal_entry)>> \in Seq(Steps)
      /\ <<Call(1, "posting", get_postings)>> \in Seq(Steps)
      /\ <<Call(1, "posting", get_postings), print_postings_list>> \in Seq(Steps)
      /\ <<Call(1, "trial balance", get_trial_balance)>> \in Seq(Steps)
    <2>1. {post_journal_entry, get_postings, get_trial_balance} \subseteq SUBSET StepErrors
        BY ServiceErrorsRendered
    <2>2. /\ Call(1, "posting", post_journal_entry) \in Steps
          /\ Call(1, "posting", get_postings) \in Steps
          /\ Call(1, "trial balance", get_trial_balance) \in Steps
        <3>1. \A s \in Kinds, raises \in SUBSET StepErrors : Call(1, s, raises) \in Steps
            BY StepShapes
        <3> QED
            BY <1>1, <2>1, <3>1
    <2>3. print_postings_list \in Steps
        BY StepShapes
    <2> QED
        BY <2>2, <2>3, Together
<1>3. /\ prompt_posting_journal_number \in Seq(Steps)
      /\ prompt_posting_account_identifier \in Seq(Steps)
      /\ <<Parse(0, parse_as_of_date)>> \in Seq(Steps)
    BY StepShapes DEF prompt_posting_journal_number, prompt_posting_account_identifier
<1> QED
    BY <1>2, <1>3, Together
    DEF post_command, get_by_account_command, get_by_journal_command, trial_balance_command

LEMMA Depths == \A d : d \in {0, 1, 2} => d \in 0..2
    OBVIOUS

\* Whatever words name a command, its scripts are made of such steps.
LEMMA AllScripts ==
    ASSUME NEW words, IsCommand(words)
    PROVE  ScriptsOf(words) \subseteq Seq(Steps)
<1>1. /\ DOMAIN FlatCommands = {"trial_balance"}
      /\ DOMAIN Groups = {"account", "journal", "posting"}
      /\ DOMAIN account_app = {"create", "get", "list", "update", "delete"}
      /\ DOMAIN journal_app = {"create", "get", "list"}
      /\ DOMAIN posting_app = {"post", "get_by_account", "get_by_journal"}
    BY DEF FlatCommands, Groups, account_app, journal_app, posting_app
<1>2. FlatCommands["trial_balance"] \subseteq Seq(Steps)
    BY ReportScripts DEF FlatCommands
<1>3. /\ \A name \in DOMAIN account_app : account_app[name] \subseteq Seq(Steps)
      /\ \A name \in DOMAIN journal_app : journal_app[name] \subseteq Seq(Steps)
      /\ \A name \in DOMAIN posting_app : posting_app[name] \subseteq Seq(Steps)
    BY <1>1, AccountScripts, JournalScripts, ReportScripts
    DEF account_app, journal_app, posting_app
<1>4. \A group \in DOMAIN Groups : Groups[group] \in {account_app, journal_app, posting_app}
    BY DEF Groups
<1> QED
    BY <1>1, <1>2, <1>3, <1>4 DEF IsCommand, ScriptsOf

-----------------------------------------------------------------------------
(* The inductive invariant *)

\* The types, of the variables that the properties leave alone too.
Typed ==
    /\ TypeOK
    /\ todo \in Seq(Steps)
    /\ stage \in {"connecting", "calling"} => todo # <<>> /\ Head(todo).does = "call"
    /\ raised \in Exceptions \cup {None} /\ failure \in Exceptions \cup {None}
    /\ stage = "raised" => raised \in Exceptions

\* No handler has connected that nobody waited for.
Settled == orphaned \subseteq connecting \cup abandoned

\* Repositories and services that reach the engines X, or what the caller
\* supplied.
Reaches(repos, services, X) ==
    \A k \in Kinds : repos[k] \in X \cup {Supplied, None} /\ services[k] \subseteq X \cup {Supplied}

\* The accessors of a service have a repository to wait for.
Waits(s) == s \in Kinds /\ \E i \in DOMAIN Order[s] : Order[s][i] \notin Injected

\* Engines are checked in behalf of a handler: at most one whose check or whose
\* use has not been interrupted.
Checking ==
    /\ connecting \cap abandoned = {}
    /\ \A e, f \in engines \ (abandoned \cup orphaned) : e = f
    /\ stage = "connecting" <=> connecting \ orphaned # {}
    /\ \A e \in connecting : Waits(asked[e])
    /\ \A e \in connecting \ orphaned : asked[e] = Head(todo).service

\* What is cached.  As long as no handler connected that nobody waited for, it is
\* on the cached connection, and nothing else is open.
Cached ==
    /\ \A k \in Injected : repo[k] = Supplied
    /\ stage # "disposing" => connection \in Open \cup {None} /\ Reaches(repo, service, Open)
    /\ Settled /\ stage = "disposing" => Open = {}
    /\ Settled /\ stage # "disposing" =>
          Open = {connection} \ {None} /\ Reaches(repo, service, {connection} \ {None})
    /\ CallsAreConnected

\* Once aclose() has begun, an engine is left open that no Ctrl-C explains only
\* where one that Ctrl-C does explain was disposed in its place.
Ended == stage \in {"disposing", "closed", "exited"}
Closing ==
    /\ ~Ended => orphaned \subseteq engines /\ (connection = None => Settled)
    /\ Ended => engines \subseteq abandoned \cup orphaned \/ orphaned \ engines # {}

Held == Checking /\ Cached /\ Closing

\* An exception that passes the boundaries is the command's first, still to be
\* reported, or stands for it once it is.
Fresh == /\ failure = raised
         /\ panels = <<>> /\ logged = <<>>
         /\ raised \in Rendered => depth > 0
Told == /\ raised = Exit("1")
        /\ failure \in Rendered
        /\ panels = <<CodesShown(failure)>>
        /\ logged = <<[line |-> _log_failure(failure), scope |-> TRUE]>>
Reported ==
    /\ stage \in {"start", "prompt", "command", "connecting", "calling"} =>
          failure = None /\ panels = <<>> /\ logged = <<>>
    /\ stage \in {"command", "connecting", "calling", "raised"} => scope = TRUE
    /\ stage = "raised" => Fresh \/ Told
    /\ ExitStatusTruthful

IInv == Typed /\ Held /\ Reported

\* The types of what the process holds.
ContextTyped ==
    /\ engines \subseteq EngineIds /\ abandoned \subseteq engines
    /\ connecting \subseteq engines /\ orphaned \subseteq EngineIds
    /\ asked \in [EngineIds -> Kinds \cup {NoService}]
    /\ \A e \in EngineIds : asked[e] # NoService <=> e \in connecting
    /\ connection \in EngineIds \cup {None}
    /\ repo \in [Kinds -> EngineIds \cup {None, Supplied}]
    /\ service \in [Kinds -> SUBSET (EngineIds \cup {Supplied})]

LEMMA IsContextTyped == Typed => ContextTyped
    BY DEF Typed, TypeOK, ContextTyped

LEMMA ContextKept ==
    ASSUME Typed, UNCHANGED <<connectionVars, contextVars, handlerVars>>
    PROVE  ContextTyped'
    BY DEF Typed, TypeOK, ContextTyped, connectionVars, contextVars, handlerVars

\* What the process holds is left alone, and nothing waits for it.
LEMMA HeldKept ==
    ASSUME Held, UNCHANGED <<connectionVars, contextVars, handlerVars>>,
           stage \notin {"connecting", "disposing", "closed", "exited"},
           stage' \notin {"connecting", "calling", "disposing", "closed", "exited"}
    PROVE  Held'
<1>1. UNCHANGED <<engines, connecting, abandoned, connection, repo, service, asked, orphaned>>
    BY DEF connectionVars, contextVars, handlerVars
<1>2. Checking'
    BY <1>1 DEF Held, Checking
<1>3. Cached' /\ Closing'
    BY <1>1 DEF Held, Cached, Closing, Settled, Open, Ended, CallsAreConnected
<1> QED
    BY <1>2, <1>3 DEF Held

LEMMA NotNone == None \notin EngineIds \cup {Supplied} /\ Supplied \notin EngineIds
    BY ConnectionAssumption, ContextAssumption

\* A process that has not connected yet.
Unused ==
    /\ engines = {} /\ connecting = {} /\ abandoned = {} /\ orphaned = {}
    /\ connection = None /\ asked = NothingAsked
    /\ repo = [k \in Kinds |-> IF k \in Injected THEN Supplied ELSE None]
    /\ service = [k \in Kinds |-> {}]
    /\ stage = "start"

LEMMA NothingHeld == Unused => ContextTyped /\ Held
<1> SUFFICES ASSUME Unused PROVE ContextTyped /\ Held
    OBVIOUS
<1> USE DEF Unused
<1>1. ContextTyped
    BY DEF ContextTyped, NothingAsked
<1>2. Open = {} /\ Reaches(repo, service, {}) /\ {connection} \ {None} = {}
    BY DEF Open, Reaches
<1>3. \A k \in Injected : repo[k] = Supplied
    BY ContextAssumption
<1> QED
    BY <1>1, <1>2, <1>3 DEF Held, Checking, Cached, Closing, Settled, Ended, CallsAreConnected

LEMMA Starts == Init => IInv
<1> SUFFICES ASSUME Init PROVE IInv
    OBVIOUS
<1>1. ContextTyped /\ Held
    BY NothingHeld DEF Unused, Init, ConnectionInit, ContextInit
<1>2. /\ mode = "none" /\ stage = "start" /\ status = "none"
      /\ line = <<>> /\ todo = <<>> /\ depth = 0
      /\ raised = None /\ failure = None
      /\ panels = <<>> /\ logged = <<>> /\ scope = FALSE
    BY DEF Init
<1>3. Typed
    <2>1. TypeOK
        <3>1. /\ mode \in {"none", "shell", "one shot"} /\ stage \in Stages /\ depth \in 0..2
              /\ status \in {"none", "0", "1", "2", "130"}
              /\ stage \notin {"connecting", "calling"}
            BY <1>2 DEF Stages
        <3>2. scope \in BOOLEAN
            BY <1>2
        <3> QED
            BY <1>1, <3>1, <3>2 DEF TypeOK, ContextTyped
    <2>2. todo \in Seq(Steps)
        BY <1>2
    <2> QED
        BY <1>2, <2>1, <2>2 DEF Typed
<1>4. Reported
    BY <1>2 DEF Reported, ExitStatusTruthful
<1> QED
    BY <1>1, <1>3, <1>4 DEF IInv

-----------------------------------------------------------------------------
(* What the accessors build *)

LEMMA KindsOfParts ==
    /\ \A k \in Kinds : /\ OwnRepos[k] \subseteq Kinds /\ k \in OwnRepos[k]
                        /\ Parts[k] \subseteq Kinds /\ k \in Parts[k]
    /\ \A k \in Kinds, m \in Kinds : m \in Parts[k] /\ m # k => k \notin Parts[m]
    BY DEF OwnRepos, Parts, Kinds, _make_has_postings_check

\* Whatever the accessors of the services ps cache reaches the engine they were
\* given or what was reached before, and those services are there.
LEMMA Wired ==
    ASSUME NEW X, None \notin X, NEW e \in X \cup {None},
           NEW ps \in SUBSET Kinds, NEW ks \in SUBSET Kinds,
           Reaches(repo, service, X),
           \A k \in ReposOf(ps) : repo[k] = None => e # None,
           ks # {} => e # None
    PROVE  /\ Reaches(get_repo(e, ps, ks), get_service(e, ps, ks), X)
           /\ \A p \in ps : get_service(e, ps, ks)[p] # {}
           /\ \A p \in Kinds \ ps : get_service(e, ps, ks)[p] = service[p]
           /\ \A k \in Kinds \ ks : repo[k] # None => get_repo(e, ps, ks)[k] = repo[k]
<1> DEFINE R == get_repo(e, ps, ks)
           V == get_service(e, ps, ks)
           Reached(p) == UNION {IF q \in ps THEN {R[k] : k \in OwnRepos[q]} ELSE service[q]
                                   : q \in BuiltOn(p, ps)}
<1>1. \A p \in ps : OwnRepos[p] \subseteq ReposOf(ps)
    BY DEF ReposOf
<1>2. \A k \in Kinds : /\ repo[k] \in X \cup {Supplied, None}
                       /\ service[k] \subseteq X \cup {Supplied}
    BY DEF Reaches
<1>3. \A k \in Kinds : R[k] \in X \cup {Supplied, None}
    BY <1>2 DEF get_repo
<1>4. \A k \in Kinds \cap ReposOf(ps) : R[k] \in X \cup {Supplied}
    BY <1>2, ContextAssumption DEF get_repo
<1>5. \A p \in Kinds : V[p] = IF p \in ps THEN Reached(p) ELSE service[p]
    BY DEF get_service
<1>6. \A k \in Kinds \ ks : repo[k] # None => R[k] = repo[k]
    BY DEF get_repo
<1> HIDE DEF R
<1>7. \A p \in ps : Reached(p) \subseteq X \cup {Supplied}
    <2> TAKE p \in ps
    <2>1. ASSUME NEW q \in BuiltOn(p, ps), q \in ps, NEW k \in OwnRepos[q]
          PROVE  R[k] \in X \cup {Supplied}
        BY <2>1, <1>1, <1>4, KindsOfParts
    <2>2. \A q \in BuiltOn(p, ps) : service[q] \subseteq X \cup {Supplied}
        BY <1>2, KindsOfParts DEF BuiltOn
    <2> QED
        BY <2>1, <2>2
<1>8. \A p \in ps : Reached(p) # {}
    <2> TAKE p \in ps
    <2>1. p \in BuiltOn(p, ps)
        BY KindsOfParts DEF BuiltOn
    <2>2. R[p] \in Reached(p)
        BY <2>1, KindsOfParts
    <2> QED
        BY <2>2
<1> HIDE DEF V, Reached
<1>9. \A p \in Kinds : V[p] \subseteq X \cup {Supplied}
    BY <1>2, <1>5, <1>7
<1> QED
    BY <1>3, <1>5, <1>6, <1>8, <1>9 DEF Reaches, R, V

\* The same of what they leave in the context; the types are those of any
\* functions that reach engines.
LEMMA WiredTypes ==
    ASSUME NEW e, NEW ps, NEW ks,
           Reaches(get_repo(e, ps, ks), get_service(e, ps, ks), EngineIds)
    PROVE  /\ get_repo(e, ps, ks) \in [Kinds -> EngineIds \cup {None, Supplied}]
           /\ get_service(e, ps, ks) \in [Kinds -> SUBSET (EngineIds \cup {Supplied})]
<1>1. get_repo(e, ps, ks) = [k \in Kinds |-> get_repo(e, ps, ks)[k]]
    BY DEF get_repo
<1>2. get_service(e, ps, ks) = [p \in Kinds |-> get_service(e, ps, ks)[p]]
    BY DEF get_service
<1> QED
    BY <1>1, <1>2 DEF Reaches

LEMMA TypedReaches == ContextTyped => Reaches(repo, service, EngineIds)
    BY DEF ContextTyped, Reaches

\* Without connecting.
LEMMA Assembled ==
    ASSUME ContextTyped, NEW s \in Kinds, Assemble(s),
           NEW X, None \notin X, connection \in X \cup {None}, Reaches(repo, service, X)
    PROVE  /\ Reaches(repo', service', X)
           /\ service'[s] # {}
           /\ \A k \in Injected : repo[k] = Supplied => repo'[k] = Supplied
           /\ repo' \in [Kinds -> EngineIds \cup {None, Supplied}]
           /\ service' \in [Kinds -> SUBSET (EngineIds \cup {Supplied})]
<1> DEFINE ps == ToBuild(s)
<1>1. /\ ps \in SUBSET Kinds /\ (service[s] = {} => s \in ps)
      /\ repo' = get_repo(connection, ps, {}) /\ service' = get_service(connection, ps, {})
      /\ \A k \in ReposOf(ps) : repo[k] = None => connection # None
    BY KindsOfParts DEF ToBuild, Assemble, NeedsConnection
<1>2. connection \in EngineIds \cup {None} /\ None \notin EngineIds
      /\ Reaches(repo, service, EngineIds)
    BY TypedReaches, NotNone DEF ContextTyped
<1> DEFINE none == {}
<1>a. none \in SUBSET Kinds /\ none = {}
    OBVIOUS
<1> HIDE DEF ps, none
<1>b. /\ Reaches(get_repo(connection, ps, none), get_service(connection, ps, none), X)
      /\ \A p \in ps : get_service(connection, ps, none)[p] # {}
      /\ \A p \in Kinds \ ps : get_service(connection, ps, none)[p] = service[p]
      /\ \A k \in Kinds \ none : repo[k] # None => get_repo(connection, ps, none)[k] = repo[k]
    BY <1>1, <1>a, Wired
<1>3. /\ Reaches(repo', service', X)
      /\ \A p \in ps : service'[p] # {}
      /\ \A p \in Kinds \ ps : service'[p] = service[p]
      /\ \A k \in Kinds : repo[k] # None => repo'[k] = repo[k]
    BY <1>1, <1>a, <1>b
<1>4. Reaches(repo', service', EngineIds)
    BY <1>1, <1>2, Wired
<1>5. /\ repo' \in [Kinds -> EngineIds \cup {None, Supplied}]
      /\ service' \in [Kinds -> SUBSET (EngineIds \cup {Supplied})]
    BY <1>1, <1>4, WiredTypes
<1> QED
    BY <1>1, <1>3, <1>5, NotNone, ContextAssumption

\* What the accessors wait for is not supplied.
LEMMA AwaitsOwn ==
    ASSUME NEW s, Waits(s)
    PROVE  Awaits(s) \in Kinds \ Injected
<1> DEFINE First(k) == \E i \in DOMAIN Order[s] :
                           /\ Order[s][i] = k
                           /\ \A j \in 1..(i - 1) : Order[s][j] \in Injected
<1>1. /\ Order[s] \in Seq(Kinds) /\ DOMAIN Order[s] = 1..Len(Order[s])
      /\ Len(Order[s]) \in 1..3
    <2>0. {"posting", "account", "journal", s} \subseteq Kinds /\ s \in Kinds
        BY DEF Waits, Kinds
    <2>1. /\ <<"posting", "account">> \in Seq(Kinds)
          /\ <<"journal", "posting", "account">> \in Seq(Kinds)
          /\ <<"posting", "journal", "account">> \in Seq(Kinds)
          /\ <<s>> \in Seq(Kinds)
        BY <2>0
    <2>2. \/ Order[s] = <<"posting", "account">>
          \/ Order[s] = <<"journal", "posting", "account">>
          \/ Order[s] = <<"posting", "journal", "account">>
          \/ Order[s] = <<s>>
        <3>1. Order[s] = CASE s = "account" -> <<"posting", "account">>
                           [] s = "journal" -> <<"journal", "posting", "account">>
                           [] s = "posting" -> <<"posting", "journal", "account">>
                           [] OTHER -> <<s>>
            BY <2>0 DEF Order
        <3>2. CASE s = "account"
            BY <3>1, <3>2
        <3>3. CASE s = "journal"
            BY <3>1, <3>3
        <3>4. CASE s = "posting"
            BY <3>1, <3>4
        <3>5. CASE s \notin {"account", "journal", "posting"}
            BY <3>1, <3>5
        <3> QED
            BY <3>2, <3>3, <3>4, <3>5
    <2>3. Order[s] \in Seq(Kinds)
        BY <2>1, <2>2
    <2>4. Len(Order[s]) \in 1..3
        <3>1. \A x, y, z : /\ Len(<<x>>) = 1 /\ Len(<<x, y>>) = 2 /\ Len(<<x, y, z>>) = 3
            OBVIOUS
        <3>2. Len(Order[s]) \in {1, 2, 3}
            BY <2>2, <3>1
        <3> QED
            BY <3>2
    <2>5. DOMAIN Order[s] = 1..Len(Order[s])
        BY <2>3
    <2> QED
        BY <2>3, <2>4, <2>5
<1>2. \E k \in Kinds \ Injected : First(k)
    <2>1. PICK i \in 1..3 : i \in DOMAIN Order[s] /\ Order[s][i] \notin Injected
        BY <1>1 DEF Waits
    <2>2. \A j \in DOMAIN Order[s] : Order[s][j] \in Kinds
        BY <1>1
    <2>3. CASE Order[s][1] \notin Injected
        <3>1. 1 \in DOMAIN Order[s]
            <4>1. \A n \in 1..3 : 1 \in 1..n
                OBVIOUS
            <4> QED
                BY <1>1, <4>1
        <3>2. \A j \in 1..(1 - 1) : Order[s][j] \in Injected
            OBVIOUS
        <3> QED
            BY <2>2, <2>3, <3>1, <3>2
    <2>4. CASE Order[s][1] \in Injected /\ 2 \in DOMAIN Order[s] /\ Order[s][2] \notin Injected
        <3>1. \A j \in 1..(2 - 1) : Order[s][j] \in Injected
            BY <2>4
        <3> QED
            BY <2>2, <2>4, <3>1
    <2>5. CASE /\ Order[s][1] \in Injected
               /\ 2 \in DOMAIN Order[s] => Order[s][2] \in Injected
        <3>1. i = 3 /\ 2 \in DOMAIN Order[s]
            BY <1>1, <2>1, <2>5
        <3>2. \A j \in 1..(3 - 1) : Order[s][j] \in Injected
            BY <2>5, <3>1
        <3> QED
            BY <2>1, <2>2, <3>1, <3>2
    <2> QED
        BY <2>3, <2>4, <2>5
<1> QED
    BY <1>2 DEF Awaits

\* After connecting: also what was there before is.
LEMMA AssembledConnected ==
    ASSUME ContextTyped, NEW s, Waits(s), NEW e \in EngineIds, AssembleConnected(s, e),
           NEW X, None \notin X, e \in X, Reaches(repo, service, X)
    PROVE  /\ connection' = e
           /\ Reaches(repo', service', X)
           /\ service'[s] # {}
           /\ \A p \in Kinds : service[p] # {} => service'[p] # {}
           /\ \A k \in Injected : repo[k] = Supplied => repo'[k] = Supplied
           /\ repo' \in [Kinds -> EngineIds \cup {None, Supplied}]
           /\ service' \in [Kinds -> SUBSET (EngineIds \cup {Supplied})]
<1> DEFINE ps == ToRebuild(s)
           ks == {Awaits(s)}
<1>1. /\ s \in Kinds /\ ps \in SUBSET Kinds /\ (service[s] = {} => s \in ps)
      /\ ks \in SUBSET Kinds /\ ks \cap Injected = {}
      /\ connection' = e
      /\ repo' = get_repo(e, ps, ks) /\ service' = get_service(e, ps, ks)
    BY KindsOfParts, AwaitsOwn DEF ToRebuild, Entered, AssembleConnected, Waits
<1>2. e # None /\ None \notin EngineIds /\ Reaches(repo, service, EngineIds)
    BY TypedReaches, NotNone
<1> HIDE DEF ps, ks
<1>a. /\ Reaches(get_repo(e, ps, ks), get_service(e, ps, ks), X)
      /\ \A p \in ps : get_service(e, ps, ks)[p] # {}
      /\ \A p \in Kinds \ ps : get_service(e, ps, ks)[p] = service[p]
      /\ \A k \in Kinds \ ks : repo[k] # None => get_repo(e, ps, ks)[k] = repo[k]
    <2>1. e \in X \cup {None} /\ \A k \in ReposOf(ps) : repo[k] = None => e # None
        BY <1>2
    <2> QED
        BY <1>1, <1>2, <2>1, Wired
<1>3. /\ Reaches(repo', service', X)
      /\ \A p \in ps : service'[p] # {}
      /\ \A p \in Kinds \ ps : service'[p] = service[p]
      /\ \A k \in Kinds \ ks : repo[k] # None => repo'[k] = repo[k]
    BY <1>1, <1>a
<1>4. Reaches(repo', service', EngineIds)
    BY <1>1, <1>2, Wired
<1>5. /\ repo' \in [Kinds -> EngineIds \cup {None, Supplied}]
      /\ service' \in [Kinds -> SUBSET (EngineIds \cup {Supplied})]
    BY <1>1, <1>4, WiredTypes
<1>6. \A k \in Injected : repo[k] = Supplied => repo'[k] = Supplied
    BY <1>1, <1>3, NotNone, ContextAssumption
<1> QED
    BY <1>1, <1>3, <1>5, <1>6

-----------------------------------------------------------------------------
(* The steps *)

\* app() with the words of a line.
LEMMA AppStep ==
    ASSUME IInv, stage \in {"start", "prompt"}, NEW typed, NEW words, App(typed, words),
           mode' \in {"none", "shell", "one shot"}
    PROVE  IInv'
<1>1. failure = None /\ panels = <<>> /\ logged = <<>>
    BY DEF IInv, Reported
<1>2. /\ UNCHANGED <<connectionVars, contextVars, handlerVars, panels, logged, status>>
      /\ scope' = TRUE
    BY DEF App
<1>3. {UsageError, NoSuchCommand} \subseteq Exceptions \ Rendered
    BY RenderedClasses, OtherClasses DEF Exceptions, Caught
<1>4. \/ /\ stage' = "command" /\ todo' \in Seq(Steps)
         /\ UNCHANGED <<raised, depth, failure>>
      \/ /\ stage' = "raised" /\ raised' \in {UsageError, NoSuchCommand}
         /\ depth' = 0 /\ failure' = raised' /\ UNCHANGED todo
    <2>1. CASE /\ Resolves(words) \in {"command", "help"} /\ stage' = "command"
               /\ IF Resolves(words) = "command" THEN todo' \in ScriptsOf(words) ELSE todo' = <<>>
               /\ UNCHANGED <<line, raised, depth, failure>>
        <3>1. CASE Resolves(words) = "command"
            <4>1. IsCommand(words)
                BY <3>1 DEF Resolves
            <4> QED
                BY <2>1, <3>1, <4>1, AllScripts
        <3>2. CASE Resolves(words) = "help"
            <4>1. todo' = <<>>
                BY <2>1, <3>2
            <4> QED
                BY <2>1, <4>1, Together
        <3> QED
            BY <2>1, <3>1, <3>2
    <2>2. CASE RaiseAt(0, UsageError) /\ UNCHANGED <<line, todo>>
        BY <1>1, <2>2 DEF RaiseAt
    <2>3. CASE RaiseAt(0, NoSuchCommand) /\ line' = typed /\ UNCHANGED todo
        BY <1>1, <2>3 DEF RaiseAt
    <2> QED
        BY <2>1, <2>2, <2>3 DEF App
<1>5. Typed'
    <2>1. raised \in Exceptions \cup {None} /\ failure \in Exceptions \cup {None}
          /\ todo \in Seq(Steps) /\ depth \in 0..2
        BY DEF IInv, Typed, TypeOK
    <2>2. /\ raised' \in Exceptions \cup {None} /\ failure' \in Exceptions \cup {None}
          /\ todo' \in Seq(Steps) /\ depth' \in 0..2
          /\ stage' = "raised" => raised' \in Exceptions
        <3>1. CASE /\ stage' = "command" /\ todo' \in Seq(Steps)
                   /\ UNCHANGED <<raised, depth, failure>>
            BY <2>1, <3>1
        <3>2. CASE /\ stage' = "raised" /\ raised' \in {UsageError, NoSuchCommand}
                   /\ depth' = 0 /\ failure' = raised' /\ UNCHANGED todo
            <4>1. raised' \in Exceptions /\ failure' \in Exceptions
                <5>1. raised' \in Exceptions
                    BY <1>3, <3>2
                <5> QED
                    BY <3>2, <5>1
            <4>2. todo' \in Seq(Steps)
                BY <2>1, <3>2
            <4>3. depth' \in 0..2
                BY <3>2, Depths
            <4> QED
                BY <4>1, <4>2, <4>3
        <3> QED
            BY <1>4, <3>1, <3>2
    <2>3. TypeOK'
        <3>1. ContextTyped'
            BY <1>2, ContextKept DEF IInv
        <3> QED
            BY <1>2, <1>4, <2>2, <3>1 DEF IInv, Typed, TypeOK, ContextTyped, Stages
    <2> QED
        BY <1>4, <2>2, <2>3 DEF Typed
<1>6. Held'
    BY <1>2, <1>4, HeldKept DEF IInv
<1>7. Reported'
    BY <1>1, <1>2, <1>3, <1>4 DEF IInv, Reported, Fresh, ExitStatusTruthful
<1> QED
    BY <1>5, <1>6, <1>7 DEF IInv

\* The head of a script is a step; what is left of it is a script.
LEMMA HeadStep ==
    ASSUME Typed, todo # <<>>
    PROVE  /\ Head(todo) \in Steps /\ Tail(todo) \in Seq(Steps)
           /\ Head(todo).depth \in 0..2 /\ Head(todo).raises \subseteq StepErrors
           /\ Head(todo).raises \subseteq Exceptions
           /\ Head(todo).does = "call" =>
                 Head(todo).service \in Kinds /\ Head(todo).depth > 0
           /\ \A exc \in Head(todo).raises : exc \in Rendered => Head(todo).depth > 0
<1>1. todo \in Seq(Steps)
    BY DEF Typed
<1>2. Head(todo) \in Steps /\ Tail(todo) \in Seq(Steps)
    BY <1>1, HeadTailProperties
<1> QED
    BY <1>2, KnownStepErrors DEF Steps

\* A step of a command, or of its call, that raises an exception.
LEMMA RaisingStep ==
    ASSUME IInv, stage \in {"command", "connecting", "calling"}, todo # <<>>,
           NEW exc \in Exceptions, exc \in Rendered => Head(todo).depth > 0,
           RaiseAt(Head(todo).depth, exc),
           UNCHANGED <<mode, line, todo, panels, logged, scope, status>>,
           ContextTyped'
    PROVE  /\ Typed' /\ Reported'
           /\ stage' = "raised" /\ failure' = exc
<1>1. Head(todo).depth \in 0..2
    BY HeadStep DEF IInv
<1>2. /\ stage' = "raised" /\ raised' = exc /\ depth' = Head(todo).depth /\ failure' = exc
      /\ panels = <<>> /\ logged = <<>> /\ scope = TRUE
    BY SessionAssumption DEF IInv, Reported, RaiseAt
<1>3. Typed'
    <2>1. mode' \in {"none", "shell", "one shot"} /\ status' \in {"none", "0", "1", "2", "130"}
          /\ scope' \in BOOLEAN
        BY DEF IInv, Typed, TypeOK
    <2>2. depth' \in 0..2
        BY <1>1, <1>2
    <2>3. TypeOK'
        BY <1>2, <2>1, <2>2 DEF TypeOK, ContextTyped, Stages
    <2>4. todo' \in Seq(Steps)
        BY DEF IInv, Typed
    <2> QED
        BY <1>2, <2>3, <2>4 DEF Typed
<1>4. Reported'
    <2>1. Fresh'
        BY <1>2 DEF Fresh
    <2> QED
        BY <1>2, <2>1 DEF Reported, ExitStatusTruthful
<1> QED
    BY <1>2, <1>3, <1>4

LEMMA StepInMainKeeps == IInv /\ StepInMain => IInv'
<1> SUFFICES ASSUME IInv, StepInMain PROVE IInv'
    OBVIOUS
<1>1. /\ stage = "command" /\ todo # <<>>
      /\ UNCHANGED <<connectionVars, contextVars, handlerVars, mode, line, panels, logged, scope,
                     status>>
    BY DEF StepInMain, Do
<1>2. ContextTyped'
    BY <1>1, ContextKept DEF IInv
<1>3. CASE Advance /\ Unraised /\ stage' = stage
    <2>1. Tail(todo) \in Seq(Steps)
        BY <1>1, HeadStep DEF IInv
    <2>2. Typed'
        <3>1. TypeOK'
            BY <1>1, <1>2, <1>3 DEF IInv, Typed, TypeOK, ContextTyped, Unraised
        <3> QED
            BY <1>1, <1>3, <2>1, <3>1 DEF IInv, Typed, Advance, Unraised
    <2>3. Held'
        BY <1>1, <1>3, HeldKept DEF IInv
    <2>4. Reported'
        BY <1>1, <1>3 DEF IInv, Reported, ExitStatusTruthful, Unraised
    <2> QED
        BY <2>2, <2>3, <2>4 DEF IInv
<1>4. ASSUME NEW exc \in Head(todo).raises, RaiseAt(Head(todo).depth, exc), UNCHANGED todo
      PROVE  IInv'
    <2>1. exc \in Exceptions /\ (exc \in Rendered => Head(todo).depth > 0)
        BY <1>1, HeadStep DEF IInv
    <2>2. Typed' /\ Reported' /\ stage' = "raised"
        BY <1>1, <1>2, <1>4, <2>1, RaisingStep
    <2>3. Held'
        BY <1>1, <2>2, HeldKept DEF IInv
    <2> QED
        BY <2>2, <2>3 DEF IInv
<1> QED
    BY <1>3, <1>4 DEF StepInMain

\* The service that a call is made of is known.
LEMMA CallHead ==
    ASSUME IInv, todo # <<>>, Head(todo).does = "call"
    PROVE  Head(todo).service \in Kinds /\ Head(todo).depth > 0
    BY HeadStep DEF IInv

\* What the main thread has reported is as it was.
LEMMA ReportedKept ==
    ASSUME Reported, stage' \in {"command", "connecting", "calling"},
           stage \in {"command", "connecting", "calling"},
           UNCHANGED <<failure, panels, logged, scope>>
    PROVE  Reported'
    BY DEF Reported, ExitStatusTruthful

\* A call goes on: only the stage changes and what the process holds.
LEMMA CallTyped ==
    ASSUME IInv, ContextTyped', stage' \in {"connecting", "calling"},
           todo # <<>>, Head(todo).does = "call", UNCHANGED <<mode, commandVars, status>>
    PROVE  Typed'
<1>1. TypeOK'
    BY DEF IInv, Typed, TypeOK, ContextTyped, Stages, commandVars
<1> QED
    BY <1>1 DEF IInv, Typed, commandVars

\* A service that has to connect has a repository to wait for.
LEMMA NeedsWaits ==
    ASSUME NEW s \in Kinds, NeedsConnection(s), \A k \in Injected : repo[k] = Supplied
    PROVE  Waits(s)
<1>1. PICK k \in ReposOf(ToBuild(s)) : repo[k] = None
    BY DEF NeedsConnection
<1>2. k \notin Injected
    BY <1>1, NotNone
<1>3. \E p \in Parts[s] : k \in OwnRepos[p]
    BY <1>1 DEF ReposOf, ToBuild
<1>4. \E i \in DOMAIN Order[s] : Order[s][i] = k
    <2>1. /\ \A x, y : \A z \in {x, y} : \E i \in DOMAIN <<x, y>> : <<x, y>>[i] = z
          /\ \A x, y, w : \A z \in {x, y, w} : \E i \in DOMAIN <<x, y, w>> : <<x, y, w>>[i] = z
          /\ \A x : \E i \in DOMAIN <<x>> : <<x>>[i] = x
        <3>1. ASSUME NEW x, NEW y, NEW z \in {x, y}
              PROVE  \E i \in DOMAIN <<x, y>> : <<x, y>>[i] = z
            <4>1. 1 \in DOMAIN <<x, y>> /\ 2 \in DOMAIN <<x, y>>
                  /\ <<x, y>>[1] = x /\ <<x, y>>[2] = y
                OBVIOUS
            <4> QED
                BY <4>1
        <3>2. ASSUME NEW x, NEW y, NEW w, NEW z \in {x, y, w}
              PROVE  \E i \in DOMAIN <<x, y, w>> : <<x, y, w>>[i] = z
            <4>1. /\ 1 \in DOMAIN <<x, y, w>> /\ 2 \in DOMAIN <<x, y, w>>
                  /\ 3 \in DOMAIN <<x, y, w>>
                  /\ <<x, y, w>>[1] = x /\ <<x, y, w>>[2] = y /\ <<x, y, w>>[3] = w
                OBVIOUS
            <4> QED
                BY <4>1
        <3>3. ASSUME NEW x PROVE \E i \in DOMAIN <<x>> : <<x>>[i] = x
            <4>1. 1 \in DOMAIN <<x>> /\ <<x>>[1] = x
                OBVIOUS
            <4> QED
                BY <4>1
        <3> QED
            BY <3>1, <3>2, <3>3
    <2>2. CASE s = "account"
        <3>1. Order[s] = <<"posting", "account">> /\ k \in {"posting", "account"}
            BY <1>3, <2>2 DEF Order, Parts, OwnRepos, Kinds, _make_has_postings_check
        <3> QED
            BY <2>1, <3>1
    <2>3. CASE s = "journal"
        <3>1. Order[s] = <<"journal", "posting", "account">> /\ k \in {"journal", "posting", "account"}
            BY <1>3, <2>3 DEF Order, Parts, OwnRepos, Kinds, _make_has_postings_check
        <3> QED
            BY <2>1, <3>1
    <2>4. CASE s = "posting"
        <3>1. Order[s] = <<"posting", "journal", "account">> /\ k \in {"posting", "journal", "account"}
            BY <1>3, <2>4 DEF Order, Parts, OwnRepos, Kinds, _make_has_postings_check
        <3> QED
            BY <2>1, <3>1
    <2>5. CASE s = "trial balance"
        <3>1. Order[s] = <<s>> /\ k = s
            BY <1>3, <2>5 DEF Order, Parts, OwnRepos, Kinds, _make_has_postings_check
        <3> QED
            BY <2>1, <3>1
    <2> QED
        BY <2>2, <2>3, <2>4, <2>5 DEF Kinds
<1> QED
    BY <1>2, <1>4 DEF Waits
LEMMA StartCallKeeps == IInv /\ StartCall => IInv'
<1> SUFFICES ASSUME IInv, StartCall PROVE IInv'
    OBVIOUS
<1> DEFINE s == Head(todo).service
<1>1. /\ stage = "command" /\ todo # <<>> /\ Head(todo).does = "call"
      /\ UNCHANGED <<orphaned, mode, commandVars, status>> /\ call(s)
    BY DEF StartCall, Do
<1>2. s \in Kinds
    BY <1>1, CallHead
<1>3. UNCHANGED <<todo, failure, panels, logged, scope>>
    BY <1>1 DEF commandVars
<1>4. ContextTyped /\ Held
    BY IsContextTyped DEF IInv
<1>5. ASSUME NeedsConnection(s), NEW e \in EngineIds, BeginConnect(e), Asks(e, s),
             stage' = "connecting", UNCHANGED contextVars
      PROVE  IInv'
    <2> HIDE DEF s
    <2>1. /\ e \notin engines /\ engines' = engines \cup {e} /\ connecting' = connecting \cup {e}
          /\ asked' = [asked EXCEPT ![e] = s] /\ s # NoService
          /\ UNCHANGED <<abandoned, orphaned, connection, repo, service>>
        BY <1>1, <1>2, <1>5 DEF BeginConnect, Asks, contextVars, Kinds, NoService
    <2>2. ContextTyped'
        BY <1>2, <1>4, <2>1 DEF ContextTyped
    <2>3. Waits(s)
        BY <1>2, <1>4, <1>5, NeedsWaits DEF Held, Cached
    <2>4. connecting \subseteq orphaned /\ orphaned \subseteq engines /\ Open = {} /\ Settled
        <3>1. connection = None
            BY <1>5 DEF NeedsConnection
        <3> QED
            BY <1>1, <1>4, <3>1 DEF Held, Checking, Closing, Ended, Cached
    <2>5. engines \subseteq abandoned \cup orphaned /\ e \notin abandoned /\ e \notin orphaned
        BY <1>4, <2>1, <2>4 DEF Open, ContextTyped
    <2>6. \A f \in EngineIds : asked'[f] = IF f = e THEN s ELSE asked[f]
        BY <1>4, <2>1 DEF ContextTyped
    <2>7. Checking'
        <3>1. connecting' \cap abandoned' = {} /\ connecting' \ orphaned' = {e}
            BY <1>4, <2>1, <2>4, <2>5 DEF Held, Checking
        <3>2. \A f, g \in engines' \ (abandoned' \cup orphaned') : f = g
            BY <2>1, <2>5
        <3>3. \A f \in connecting' : Waits(asked'[f])
            BY <1>4, <2>1, <2>3, <2>6 DEF Held, Checking, ContextTyped
        <3>4. asked'[e] = Head(todo').service
            BY <1>3, <2>6 DEF s
        <3> QED
            BY <1>5, <3>1, <3>2, <3>3, <3>4 DEF Checking
    <2>8. Open' = Open /\ Settled'
        BY <2>1, <2>4 DEF Open, Settled
    <2>9. Cached' /\ Closing'
        BY <1>1, <1>4, <1>5, <2>1, <2>4, <2>8
        DEF Held, Cached, Closing, Ended, CallsAreConnected
    <2>10. Held'
        BY <2>7, <2>9 DEF Held
    <2> QED
        BY <1>1, <1>3, <1>5, <2>2, <2>10, CallTyped, ReportedKept DEF IInv
<1>6. ASSUME Assemble(s), stage' = "calling", UNCHANGED <<connectionVars, asked>>
      PROVE  IInv'
    <2> HIDE DEF s
    <2>1. UNCHANGED <<engines, connecting, abandoned, asked, orphaned, connection>>
        BY <1>1, <1>6 DEF Assemble, connectionVars
    <2>2. /\ connection \in Open \cup {None} /\ None \notin Open
          /\ Reaches(repo, service, Open)
          /\ \A k \in Injected : repo[k] = Supplied
        BY <1>1, <1>4, NotNone DEF Held, Cached, Open, ContextTyped
    <2>3. /\ Reaches(repo', service', Open)
          /\ service'[s] # {}
          /\ \A k \in Injected : repo'[k] = Supplied
          /\ repo' \in [Kinds -> EngineIds \cup {None, Supplied}]
          /\ service' \in [Kinds -> SUBSET (EngineIds \cup {Supplied})]
        BY <1>2, <1>4, <1>6, <2>2, Assembled
    <2>4. Settled => Reaches(repo', service', {connection} \ {None})
        <3> SUFFICES ASSUME Settled PROVE Reaches(repo', service', {connection} \ {None})
            OBVIOUS
        <3> DEFINE X == {connection} \ {None}
        <3>1. None \notin X /\ connection \in X \cup {None}
            OBVIOUS
        <3>2. Reaches(repo, service, X)
            BY <1>1, <1>4 DEF Held, Cached
        <3> HIDE DEF X
        <3>3. Reaches(repo', service', X)
            BY <1>2, <1>4, <1>6, <3>1, <3>2, Assembled
        <3> QED
            BY <3>3 DEF X
    <2>5. ContextTyped'
        BY <1>4, <2>1, <2>3 DEF ContextTyped
    <2>6. Open' = Open /\ Settled' = Settled
        BY <2>1 DEF Open, Settled
    <2>7. Checking' /\ Closing'
        BY <1>1, <1>4, <1>6, <2>1, <2>6 DEF Held, Checking, Closing, Ended
    <2>8. CallsAreConnected'
        <3>1. service'[s] \subseteq Open \cup {Supplied}
            BY <1>2, <2>3 DEF Reaches
        <3> QED
            BY <1>3, <2>3, <2>6, <3>1 DEF CallsAreConnected, s
    <2>9. Cached'
        BY <1>1, <1>4, <1>6, <2>1, <2>2, <2>3, <2>4, <2>6, <2>8 DEF Held, Cached
    <2>10. Held'
        BY <2>7, <2>9 DEF Held
    <2> QED
        BY <1>1, <1>3, <1>6, <2>5, <2>10, CallTyped, ReportedKept DEF IInv
<1> QED
    BY <1>1, <1>5, <1>6 DEF call

\* connect() has returned, to the main thread or to a handler nobody waits for.
LEMMA Connecting ==
    ASSUME IInv, NEW e, ConnectReturns(e), UNCHANGED orphaned
    PROVE  /\ ContextTyped'
           /\ e \in connecting /\ connecting' = connecting \ {e} /\ connection' = e /\ e # None
           /\ UNCHANGED <<engines, abandoned>> /\ Open' = Open \cup {e}
           /\ \A f \in EngineIds \ {e} : asked'[f] = asked[f]
           /\ \A k \in Injected : repo'[k] = Supplied
           /\ stage # "disposing" => Reaches(repo', service', Open')
           /\ Settled' => e \notin orphaned /\ Settled
           /\ service'[asked[e]] # {} /\ asked[e] \in Kinds
           /\ \A p \in Kinds : service[p] # {} => service'[p] # {}
<1>1. ContextTyped /\ Held
    BY IsContextTyped DEF IInv
<1>2. /\ e \in connecting /\ connecting' = connecting \ {e}
      /\ UNCHANGED <<engines, abandoned, orphaned>>
      /\ AssembleConnected(asked[e], e) /\ asked' = [asked EXCEPT ![e] = NoService]
    BY DEF ConnectReturns, ConnectSucceeds, Leaves
<1>3. e \in EngineIds /\ e \in engines /\ e \notin abandoned /\ e # None /\ Waits(asked[e])
    BY <1>1, <1>2, NotNone DEF ContextTyped, Held, Checking
<1>4. Open' = Open \cup {e}
    BY <1>2, <1>3 DEF Open
<1>5. /\ connection' = e
      /\ service'[asked[e]] # {}
      /\ \A p \in Kinds : service[p] # {} => service'[p] # {}
      /\ \A k \in Injected : repo[k] = Supplied => repo'[k] = Supplied
      /\ repo' \in [Kinds -> EngineIds \cup {None, Supplied}]
      /\ service' \in [Kinds -> SUBSET (EngineIds \cup {Supplied})]
    BY <1>1, <1>2, <1>3, AssembledConnected, TypedReaches, NotNone
<1>6. stage # "disposing" => Reaches(repo', service', Open')
    <2> SUFFICES ASSUME stage # "disposing" PROVE Reaches(repo', service', Open')
        OBVIOUS
    <2> DEFINE X == Open \cup {e}
    <2>1. None \notin X /\ e \in X
        BY <1>1, <1>3, NotNone DEF ContextTyped, Open
    <2>2. Reaches(repo, service, X)
        BY <1>1 DEF Held, Cached, Reaches
    <2> HIDE DEF X
    <2>3. Reaches(repo', service', X)
        BY <1>1, <1>2, <1>3, <2>1, <2>2, AssembledConnected
    <2> QED
        BY <1>4, <2>3 DEF X
<1>7. Settled' => e \notin orphaned /\ Settled
    BY <1>2, <1>3 DEF Settled
<1>8. \A f \in EngineIds : asked'[f] = IF f = e THEN NoService ELSE asked[f]
    BY <1>1, <1>2 DEF ContextTyped
<1>9. ContextTyped'
    <2>1. asked' \in [EngineIds -> Kinds \cup {NoService}]
        BY <1>1, <1>2 DEF ContextTyped
    <2>2. \A f \in EngineIds : asked'[f] # NoService <=> f \in connecting'
        BY <1>1, <1>2, <1>8 DEF ContextTyped
    <2> QED
        BY <1>1, <1>2, <1>3, <1>5, <2>1, <2>2 DEF ContextTyped
<1> QED
    BY <1>1, <1>2, <1>3, <1>4, <1>5, <1>6, <1>7, <1>8, <1>9 DEF Held, Cached, Waits

LEMMA ConnectedKeeps == IInv /\ Connected => IInv'
<1> SUFFICES ASSUME IInv, Connected PROVE IInv'
    OBVIOUS
<1>1. /\ stage = "connecting" /\ stage' = "calling"
      /\ UNCHANGED <<orphaned, mode, commandVars, status>>
    BY DEF Connected
<1>2. PICK e \in connecting \ orphaned : ConnectReturns(e)
    BY DEF Connected
<1>3. todo # <<>> /\ Head(todo).does = "call"
    BY <1>1 DEF IInv, Typed
<1>4. UNCHANGED <<todo, failure, panels, logged, scope, orphaned>>
    BY <1>1 DEF commandVars
<1>5. ContextTyped /\ Held
    BY IsContextTyped DEF IInv
<1>6. /\ ContextTyped'
      /\ e \in connecting /\ connecting' = connecting \ {e} /\ connection' = e /\ e # None
      /\ UNCHANGED <<engines, abandoned>> /\ Open' = Open \cup {e}
      /\ \A f \in EngineIds \ {e} : asked'[f] = asked[f]
      /\ \A k \in Injected : repo'[k] = Supplied
      /\ stage # "disposing" => Reaches(repo', service', Open')
      /\ Settled' => e \notin orphaned /\ Settled
      /\ service'[asked[e]] # {} /\ asked[e] \in Kinds
    BY <1>2, <1>4, Connecting
<1>7. Typed' /\ Reported'
    BY <1>1, <1>3, <1>4, <1>6, CallTyped, ReportedKept DEF IInv
<1>8. \A f \in engines \ (abandoned \cup orphaned) : f = e
    BY <1>2, <1>5 DEF Held, Checking, ContextTyped
<1>9. Checking'
    <2>1. connecting' \ orphaned' = {}
        BY <1>4, <1>5, <1>6, <1>8 DEF Held, Checking, ContextTyped
    <2>2. \A f \in connecting' : Waits(asked'[f])
        BY <1>5, <1>6 DEF Held, Checking, ContextTyped
    <2> QED
        BY <1>1, <1>4, <1>5, <1>6, <2>1, <2>2 DEF Held, Checking
<1>10. CallsAreConnected'
    <2>1. asked[e] = Head(todo').service
        BY <1>2, <1>4, <1>5 DEF Held, Checking
    <2>2. service'[asked[e]] \subseteq Open' \cup {Supplied}
        BY <1>1, <1>6 DEF Reaches
    <2> QED
        BY <1>6, <2>1, <2>2 DEF CallsAreConnected
<1>11. Settled' => Open' = {e} /\ Reaches(repo', service', {e})
    <2> SUFFICES ASSUME Settled' PROVE Open' = {e} /\ Reaches(repo', service', {e})
        OBVIOUS
    <2>1. Open = {}
        BY <1>2, <1>5, <1>6, <1>8 DEF Settled, Open, Held, Checking
    <2>2. Open' = {e}
        BY <1>6, <2>1
    <2> QED
        BY <1>1, <1>6, <2>2
<1>12. Cached'
    <2>1. {connection'} \ {None} = {e}
        BY <1>6
    <2> QED
        BY <1>1, <1>6, <1>10, <1>11, <2>1 DEF Cached
<1>13. Closing'
    BY <1>1, <1>4, <1>5, <1>6 DEF Held, Closing, Ended
<1> QED
    BY <1>7, <1>9, <1>12, <1>13 DEF IInv, Held

\* connect() has raised: the engine was disposed, or left behind.
LEMMA Failing ==
    ASSUME IInv, NEW e, Leaves(e), UNCHANGED contextVars,
           \/ ConnectFails(e) /\ orphaned' = orphaned \ {e}
           \/ ConnectBreaks(e) /\ orphaned' = orphaned
    PROVE  /\ ContextTyped' /\ e \in connecting /\ connecting' = connecting \ {e}
           /\ connecting' \ orphaned' = (connecting \ orphaned) \ {e}
           /\ \A f \in connecting' : asked'[f] = asked[f] /\ Waits(asked'[f])
           /\ connecting' \cap abandoned' = {}
           /\ engines' \ (abandoned' \cup orphaned') = (engines \ (abandoned \cup orphaned)) \ {e}
           /\ Open' = Open /\ (Settled' <=> Settled)
           /\ orphaned \subseteq engines => orphaned' \subseteq engines'
           /\ orphaned \ engines # {} => orphaned' \ engines' # {}
           /\ engines \subseteq abandoned \cup orphaned => engines' \subseteq abandoned' \cup orphaned'
<1>1. ContextTyped /\ Held
    BY IsContextTyped DEF IInv
<1>2. /\ e \in connecting /\ connecting' = connecting \ {e}
      /\ \/ engines' = engines \ {e} /\ abandoned' = abandoned /\ orphaned' = orphaned \ {e}
         \/ engines' = engines /\ abandoned' = abandoned \cup {e} /\ orphaned' = orphaned
      /\ UNCHANGED <<connection, repo, service>> /\ asked' = [asked EXCEPT ![e] = NoService]
    BY DEF ConnectFails, ConnectBreaks, Break, Leaves, contextVars
<1>3. e \in EngineIds /\ e \in engines /\ e \notin abandoned /\ connecting \cap abandoned = {}
      /\ abandoned \subseteq engines
    BY <1>1, <1>2 DEF ContextTyped, Held, Checking
<1>4. \A f \in EngineIds : asked'[f] = IF f = e THEN NoService ELSE asked[f]
    BY <1>1, <1>2 DEF ContextTyped
<1>5. ContextTyped'
    <2>1. asked' \in [EngineIds -> Kinds \cup {NoService}]
        BY <1>1, <1>2 DEF ContextTyped
    <2>2. \A f \in EngineIds : asked'[f] # NoService <=> f \in connecting'
        BY <1>1, <1>2, <1>4 DEF ContextTyped
    <2> QED
        BY <1>1, <1>2, <1>3, <2>1, <2>2 DEF ContextTyped
<1>6. \A f \in connecting' : asked'[f] = asked[f] /\ Waits(asked'[f])
    BY <1>1, <1>2, <1>4 DEF ContextTyped, Held, Checking
<1>7. Open' = Open
    BY <1>2, <1>3 DEF Open
<1>8. Settled' <=> Settled
    BY <1>2, <1>3 DEF Settled
<1>9. engines' \ (abandoned' \cup orphaned') = (engines \ (abandoned \cup orphaned)) \ {e}
    BY <1>2, <1>3
<1> QED
    BY <1>2, <1>3, <1>5, <1>6, <1>7, <1>8, <1>9

LEMMA NotConnectedKeeps == IInv /\ NotConnected => IInv'
<1> SUFFICES ASSUME IInv, NotConnected PROVE IInv'
    OBVIOUS
<1>1. /\ stage = "connecting"
      /\ UNCHANGED <<contextVars, orphaned, mode, line, todo, panels, logged, scope, status>>
    BY DEF NotConnected
<1>2. todo # <<>> /\ Head(todo).depth > 0
    BY <1>1, CallHead DEF IInv, Typed
<1>3. ConnectErrors \cup {Unexpected} \subseteq Exceptions
    <2>1. storage_unavailable \in Exceptions /\ storage_timeout \in Exceptions
          /\ Unexpected \in Exceptions
        BY FactoriesRendered DEF Exceptions
    <2> QED
        BY <2>1 DEF ConnectErrors, ConnectError
<1>4. PICK e \in connecting \ orphaned :
        /\ Leaves(e) /\ (ConnectFails(e) \/ ConnectBreaks(e))
        /\ \E exc \in ConnectErrors \cup {Unexpected} : RaiseAt(Head(todo).depth, exc)
    BY DEF NotConnected
<1>5. /\ ContextTyped' /\ e \in connecting /\ connecting' = connecting \ {e}
      /\ connecting' \ orphaned' = (connecting \ orphaned) \ {e}
      /\ \A f \in connecting' : asked'[f] = asked[f] /\ Waits(asked'[f])
      /\ connecting' \cap abandoned' = {}
      /\ engines' \ (abandoned' \cup orphaned') = (engines \ (abandoned \cup orphaned)) \ {e}
      /\ Open' = Open /\ (Settled' <=> Settled)
      /\ orphaned \subseteq engines => orphaned' \subseteq engines'
    <2>1. orphaned' = orphaned \ {e} /\ orphaned' = orphaned
        BY <1>1, <1>4
    <2> QED
        BY <1>1, <1>4, <2>1, Failing
<1>6. Typed' /\ Reported' /\ stage' = "raised"
    <2>1. \E exc \in Exceptions : RaiseAt(Head(todo).depth, exc)
        BY <1>3, <1>4
    <2> QED
        BY <1>1, <1>2, <1>5, <2>1, RaisingStep
<1>7. ContextTyped /\ Held
    BY IsContextTyped DEF IInv
<1>8. Checking'
    <2>1. connecting' \ orphaned' = {}
        BY <1>4, <1>5, <1>7 DEF Held, Checking, ContextTyped
    <2> QED
        BY <1>5, <1>6, <1>7, <2>1 DEF Held, Checking
<1>9. Cached' /\ Closing'
    BY <1>1, <1>5, <1>6, <1>7 DEF Held, Cached, Closing, Ended, CallsAreConnected, contextVars
<1> QED
    BY <1>6, <1>8, <1>9 DEF IInv, Held

LEMMA ReturnKeeps == IInv /\ Return => IInv'
<1> SUFFICES ASSUME IInv, Return PROVE IInv'
    OBVIOUS
<1>1. /\ stage = "calling" /\ todo # <<>>
      /\ UNCHANGED <<connectionVars, contextVars, handlerVars, mode, line, panels, logged, scope,
                     status>>
    BY DEF Return, IInv, Typed
<1>2. ContextTyped'
    BY <1>1, ContextKept DEF IInv
<1>3. CASE stage' = "command" /\ Advance /\ Unraised
    <2>1. Tail(todo) \in Seq(Steps)
        BY <1>1, HeadStep DEF IInv
    <2>2. Typed'
        <3>1. TypeOK'
            BY <1>1, <1>2, <1>3 DEF IInv, Typed, TypeOK, ContextTyped, Unraised, Stages
        <3> QED
            BY <1>1, <1>3, <2>1, <3>1 DEF IInv, Typed, Advance, Unraised
    <2>3. Held'
        BY <1>1, <1>3, HeldKept DEF IInv
    <2>4. Reported'
        BY <1>1, <1>3, ReportedKept DEF IInv, Unraised
    <2> QED
        BY <2>2, <2>3, <2>4 DEF IInv
<1>4. ASSUME NEW exc \in Head(todo).raises, RaiseAt(Head(todo).depth, exc), UNCHANGED todo
      PROVE  IInv'
    <2>1. exc \in Exceptions /\ (exc \in Rendered => Head(todo).depth > 0)
        BY <1>1, HeadStep DEF IInv
    <2>2. Typed' /\ Reported' /\ stage' = "raised"
        BY <1>1, <1>2, <1>4, <2>1, RaisingStep
    <2>3. Held'
        BY <1>1, <2>2, HeldKept DEF IInv
    <2> QED
        BY <2>2, <2>3 DEF IInv
<1> QED
    BY <1>3, <1>4 DEF Return

LEMMA InterruptKeeps == IInv /\ Interrupt => IInv'
<1> SUFFICES ASSUME IInv, Interrupt PROVE IInv'
    OBVIOUS
<1>1. /\ stage \in {"command", "connecting", "calling"} /\ todo # <<>>
      /\ \E exc \in {KeyboardInterrupt, EndOfInput} : RaiseAt(Head(todo).depth, exc)
      /\ orphaned' = orphaned \cup connecting
      /\ UNCHANGED <<connectionVars, contextVars, asked, mode, line, todo, panels, logged, scope,
                     status>>
    BY DEF Interrupt, Do, IInv, Typed
<1>2. {KeyboardInterrupt, EndOfInput} \subseteq Exceptions \ Rendered
    BY RenderedClasses, OtherClasses DEF Exceptions
<1>3. ContextTyped /\ Held
    BY IsContextTyped DEF IInv
<1>4. /\ UNCHANGED <<engines, connecting, abandoned, connection, repo, service, asked>>
    BY <1>1 DEF connectionVars, contextVars
<1>5. ContextTyped'
    BY <1>1, <1>3, <1>4 DEF ContextTyped
<1>6. Typed' /\ Reported' /\ stage' = "raised"
    BY <1>1, <1>2, <1>5, RaisingStep
<1>7. Open' = Open /\ (Settled' <=> Settled) /\ orphaned' \cap engines \subseteq engines
    BY <1>1, <1>4 DEF Open, Settled
<1>8. Checking'
    BY <1>1, <1>3, <1>4, <1>6 DEF Held, Checking
<1>9. Cached'
    BY <1>1, <1>3, <1>4, <1>6, <1>7 DEF Held, Cached, CallsAreConnected
<1>10. Closing'
    BY <1>1, <1>3, <1>4, <1>6, <1>7 DEF Held, Closing, Ended, ContextTyped
<1> QED
    BY <1>6, <1>8, <1>9, <1>10 DEF IInv, Held
\* What a boundary catches of the exceptions that pass it is rendered.
LEMMA CaughtRendered == \A exc \in Exceptions : Caught(exc) <=> exc \in Rendered
    BY RenderedClasses, OtherExceptions

LEMMA ExitClasses ==
    /\ Exit("0") \in Exceptions /\ Exit("1") \in Exceptions
    /\ Exit("0") # Exit("1")
    /\ \A s : ~Caught(Exit(s)) /\ ~Usage(Exit(s)) /\ StaysInShell(Exit(s))
    BY OtherClasses DEF Exceptions, Caught, Usage, StaysInShell, EndsAsExit

LEMMA LeaveBoundaryKeeps == IInv /\ LeaveBoundary => IInv'
<1> SUFFICES ASSUME IInv, LeaveBoundary PROVE IInv'
    OBVIOUS
<1>1. /\ stage = "raised" /\ stage' = "raised" /\ depth \in 0..2 /\ depth' = depth - 1 /\ depth > 0
      /\ UNCHANGED <<connectionVars, contextVars, handlerVars, mode, line, todo, failure, scope,
                     status>>
      /\ error_boundary
    BY DEF LeaveBoundary, IInv, Typed, TypeOK
<1>2. scope = TRUE /\ raised \in Exceptions
    BY <1>1 DEF IInv, Reported, Typed
<1>3. raised' \in Exceptions
    BY <1>1, <1>2, ExitClasses DEF error_boundary
<1>4. Typed'
    <2>1. depth' \in 0..2
        BY <1>1
    <2>2. ContextTyped'
        BY <1>1, ContextKept DEF IInv
    <2>3. TypeOK'
        BY <1>1, <2>1, <2>2 DEF IInv, Typed, TypeOK, ContextTyped
    <2> QED
        BY <1>1, <1>3, <2>3 DEF IInv, Typed
<1>5. Held'
    BY <1>1, HeldKept DEF IInv
<1>6. Fresh' \/ Told'
    <2>1. CASE Fresh /\ Caught(raised)
        <3>1. raised' = Exit("1") /\ failure' = raised /\ failure' \in Rendered
            BY <1>1, <1>2, <2>1, CaughtRendered DEF Fresh, error_boundary
        <3>2. /\ panels' = Append(panels, CodesShown(raised)) /\ panels = <<>>
              /\ logged' = Append(logged, [line |-> _log_failure(raised), scope |-> scope])
              /\ logged = <<>>
            BY <1>1, <2>1 DEF Fresh, error_boundary
        <3>3. panels' = <<CodesShown(failure')>>
            BY <3>1, <3>2
        <3>4. logged' = <<[line |-> _log_failure(failure'), scope |-> TRUE]>>
            <4>1. logged' = Append(<<>>, [line |-> _log_failure(failure'), scope |-> TRUE])
                BY <1>2, <3>1, <3>2
            <4>2. \A x : Append(<<>>, x) = <<x>>
                OBVIOUS
            <4> QED
                BY <4>1, <4>2
        <3> QED
            BY <3>1, <3>3, <3>4 DEF Told
    <2>2. CASE Fresh /\ ~Caught(raised)
        <3>1. UNCHANGED <<panels, logged, raised>> /\ raised \notin Rendered
            BY <1>1, <2>2, RenderedClasses DEF error_boundary
        <3> QED
            BY <1>1, <2>2, <3>1 DEF Fresh
    <2>3. CASE Told
        <3>1. UNCHANGED <<panels, logged, raised>>
            BY <1>1, <2>3, ExitClasses DEF Told, error_boundary
        <3> QED
            BY <1>1, <2>3, <3>1 DEF Told
    <2> QED
        BY <1>1, <2>1, <2>2, <2>3 DEF IInv, Reported
<1>7. Reported'
    BY <1>1, <1>2, <1>6 DEF Reported, ExitStatusTruthful
<1> QED
    BY <1>4, <1>5, <1>7 DEF IInv

\* The process is about to close or goes back to its prompt.
LEMMA Ending ==
    ASSUME IInv, stage \in {"prompt", "command", "raised"},
           UNCHANGED <<connectionVars, contextVars, handlerVars>>,
           mode' = mode, status' \in {"none", "0", "1", "2", "130"}, scope' \in BOOLEAN,
           \/ stage' = "closing" /\ UNCHANGED <<line, todo, depth, raised, failure, panels, logged>>
           \/ stage' = "prompt" /\ Clear,
           ExitStatusTruthful'
    PROVE  IInv'
<1>1. ContextTyped'
    BY ContextKept DEF IInv
<1>2. CASE stage' = "closing" /\ UNCHANGED <<line, todo, depth, raised, failure, panels, logged>>
    <2>1. TypeOK'
        BY <1>1, <1>2 DEF IInv, Typed, TypeOK, ContextTyped, Stages
    <2>2. Typed'
        BY <1>1, <1>2, <2>1 DEF IInv, Typed
    <2>3. Held'
        BY <1>2, HeldKept DEF IInv
    <2>4. Reported'
        BY <1>2 DEF Reported
    <2> QED
        BY <2>2, <2>3, <2>4 DEF IInv
<1>3. CASE stage' = "prompt" /\ Clear
    <2>1. /\ todo' = <<>> /\ depth' = 0 /\ raised' = None /\ failure' = None
          /\ panels' = <<>> /\ logged' = <<>>
        BY <1>3 DEF Clear
    <2>2. todo' \in Seq(Steps) /\ depth' \in 0..2
        BY <2>1, Together, Depths
    <2>3. TypeOK'
        BY <1>1, <1>3, <2>2 DEF IInv, Typed, TypeOK, ContextTyped, Stages
    <2>4. Typed'
        BY <1>3, <2>1, <2>2, <2>3 DEF Typed
    <2>5. Held'
        BY <1>3, HeldKept DEF IInv
    <2>6. Reported'
        BY <1>3, <2>1 DEF Reported
    <2> QED
        BY <2>4, <2>5, <2>6 DEF IInv
<1> QED
    BY <1>2, <1>3

LEMMA LeaveShellKeeps == IInv /\ LeaveShell => IInv'
<1> SUFFICES ASSUME IInv, LeaveShell PROVE IInv'
    OBVIOUS
<1>1. /\ stage = "prompt" /\ stage' = "closing" /\ status' = "0"
      /\ UNCHANGED <<connectionVars, contextVars, handlerVars, mode, commandVars>>
      /\ failure = None /\ failure' = None
    BY DEF LeaveShell, IInv, Reported, commandVars
<1>2. ExitStatusTruthful'
    BY <1>1 DEF ExitStatusTruthful
<1>3. scope' \in BOOLEAN
    BY <1>1 DEF IInv, Typed, TypeOK, commandVars
<1> QED
    BY <1>1, <1>2, <1>3, Ending DEF commandVars

LEMMA CompleteKeeps == IInv /\ Complete => IInv'
<1> SUFFICES ASSUME IInv, Complete PROVE IInv'
    OBVIOUS
<1>1. /\ stage = "command" /\ failure = None /\ Over("0")
      /\ UNCHANGED <<connectionVars, contextVars, handlerVars, mode>>
      /\ status \in {"none", "0", "1", "2", "130"}
    BY DEF Complete, IInv, Reported, Typed, TypeOK
<1>2. CASE mode = "shell" /\ stage' = "prompt" /\ Clear /\ UNCHANGED status
    <2>1. ExitStatusTruthful' /\ scope' \in BOOLEAN
        BY <1>1, <1>2 DEF ExitStatusTruthful, Clear
    <2> QED
        BY <1>1, <1>2, <2>1, Ending
<1>3. CASE /\ mode = "one shot" /\ stage' = "closing" /\ status' = "0" /\ scope' = FALSE
           /\ UNCHANGED <<line, todo, depth, raised, failure, panels, logged>>
    <2>1. ExitStatusTruthful' /\ scope' \in BOOLEAN
        BY <1>1, <1>3 DEF ExitStatusTruthful
    <2> QED
        BY <1>1, <1>3, <2>1, Ending
<1> QED
    BY <1>1, <1>2, <1>3 DEF Over

\* The exception that is about to leave the command, and the first one.
LEMMA Leaving ==
    ASSUME IInv, stage = "raised", depth = 0
    PROVE  \/ /\ raised = failure /\ failure \in Exceptions /\ ~Caught(failure)
              /\ panels = <<>> /\ logged = <<>>
              /\ \/ Usage(failure)
                 \/ failure \in {Exit("0"), Exit("1")}
                 \/ failure = KeyboardInterrupt /\ ~Usage(failure)
                 \/ failure \in {EndOfInput, Unexpected} /\ ~StaysInShell(raised)
                    /\ ~Usage(failure)
           \/ Told
<1>1. ~(depth > 0) /\ raised \in Exceptions
    BY DEF IInv, Typed
<1>2. CASE Fresh
    BY <1>1, <1>2, OtherExceptions DEF Fresh
<1> QED
    BY <1>2 DEF IInv, Reported

LEMMA StatusTruthful ==
    ASSUME IInv, stage = "raised", depth = 0
    PROVE  LET status_ == StatusOfRaised(raised) IN
           /\ status_ \in {"0", "1", "2", "130"}
           /\ status_ = "0" => failure \in {None, Exit("0")}
           /\ status_ = "2" => Usage(failure)
           /\ status_ = "130" => failure = KeyboardInterrupt
           /\ status_ = "1" => failure \notin {None, KeyboardInterrupt, Exit("0")} /\ ~Usage(failure)
<1>1. CASE raised = failure /\ Usage(failure)
    <2>1. failure.class \notin {"Exit", "KeyboardInterrupt"}
        BY <1>1 DEF Usage
    <2> QED
        BY <1>1, <2>1 DEF StatusOfRaised
<1>2. CASE raised = failure /\ failure \in {Exit("0"), Exit("1")}
    BY <1>2, OtherClasses, ExitClasses, SessionAssumption DEF StatusOfRaised
<1>3. CASE raised = failure /\ failure = KeyboardInterrupt
    BY <1>3, OtherClasses DEF StatusOfRaised
<1>4. CASE raised = failure /\ failure \in {EndOfInput, Unexpected} /\ ~Usage(failure)
    <2>1. /\ failure.class \notin {"Exit", "KeyboardInterrupt"}
          /\ failure \notin {None, KeyboardInterrupt, Exit("0")}
        BY <1>4, OtherClasses, SessionAssumption DEF IInv, Typed, Exceptions
    <2> QED
        BY <1>4, <2>1 DEF StatusOfRaised
<1>5. CASE Told
    <2>1. StatusOfRaised(raised) = "1"
        BY <1>5, OtherClasses DEF Told, StatusOfRaised
    <2>2. ~Usage(failure) /\ failure # Exit("0") /\ failure # KeyboardInterrupt
        BY <1>5, RenderedClasses, OtherClasses DEF Told
    <2>3. failure # None
        BY <1>5, SessionAssumption DEF Told, Exceptions
    <2> QED
        BY <2>1, <2>2, <2>3
<1> QED
    BY <1>1, <1>2, <1>3, <1>4, <1>5, Leaving

LEMMA FailKeeps == IInv /\ Fail => IInv'
<1> SUFFICES ASSUME IInv, Fail PROVE IInv'
    OBVIOUS
<1>1. /\ stage = "raised" /\ depth = 0
      /\ UNCHANGED <<connectionVars, contextVars, handlerVars, mode>>
      /\ status \in {"none", "0", "1", "2", "130"}
    BY DEF Fail, IInv, Typed, TypeOK
<1>2. CASE mode = "shell" /\ stage' = "prompt" /\ Clear /\ UNCHANGED status
    <2>1. ExitStatusTruthful' /\ scope' \in BOOLEAN
        BY <1>1, <1>2 DEF ExitStatusTruthful, Clear
    <2> QED
        BY <1>1, <1>2, <2>1, Ending
<1>3. CASE /\ mode = "one shot" /\ stage' = "closing" /\ status' = StatusOfRaised(raised)
           /\ scope' = FALSE
           /\ UNCHANGED <<line, todo, depth, raised, failure, panels, logged>>
    <2>1. ExitStatusTruthful' /\ scope' \in BOOLEAN
        BY <1>1, <1>3, StatusTruthful DEF ExitStatusTruthful
    <2>2. status' \in {"none", "0", "1", "2", "130"}
        BY <1>1, <1>3, StatusTruthful
    <2> QED
        BY <1>1, <1>3, <2>1, <2>2, Ending
<1>4. CASE /\ mode = "shell" /\ stage' = "closing" /\ status' = "1" /\ scope' = FALSE
           /\ UNCHANGED <<line, todo, depth, raised, failure, panels, logged>>
    <2>1. ExitStatusTruthful' /\ scope' \in BOOLEAN
        BY <1>1, <1>4 DEF ExitStatusTruthful
    <2> QED
        BY <1>1, <1>4, <2>1, Ending
<1> QED
    BY <1>2, <1>3, <1>4 DEF Fail, Over

\* A step of the cleanup, or of a handler that nobody waits for: the main thread
\* has nothing more to report.
LEMMA Aside ==
    ASSUME IInv,
           \/ stage' = stage
           \/ /\ stage \in {"closing", "disposing", "closed"}
              /\ stage' \in {"disposing", "closed", "exited"},
           UNCHANGED <<mode, commandVars, status>>,
           ContextTyped'
    PROVE  Typed' /\ Reported'
<1>1. UNCHANGED <<line, todo, depth, raised, failure, panels, logged, scope>>
    BY DEF commandVars
<1>2. TypeOK'
    BY <1>1 DEF IInv, Typed, TypeOK, ContextTyped, Stages
<1>3. Typed'
    BY <1>1, <1>2 DEF IInv, Typed
<1>4. Reported'
    BY <1>1 DEF IInv, Reported, Fresh, Told, ExitStatusTruthful
<1> QED
    BY <1>3, <1>4

\* aclose() and the end of a process drop what the context has built.
LEMMA Dropping ==
    ASSUME Drop, IInv, NEW X
    PROVE  /\ connection' = None /\ Reaches(repo', service', X)
           /\ repo' = [k \in Kinds |-> IF k \in Injected THEN Supplied ELSE None]
           /\ service' = [k \in Kinds |-> {}]
           /\ \A k \in Injected : repo'[k] = Supplied
           /\ repo' \in [Kinds -> EngineIds \cup {None, Supplied}]
           /\ service' \in [Kinds -> SUBSET (EngineIds \cup {Supplied})]
<1>1. repo' = [k \in Kinds |-> IF k \in Injected THEN Supplied ELSE None]
    BY ContextAssumption DEF Drop, IInv, Held, Cached
<1>2. \A k \in Injected : repo'[k] = Supplied
    BY <1>1, ContextAssumption
<1> QED
    BY <1>1, <1>2 DEF Drop, Reaches

LEMMA CloseKeeps == IInv /\ Close => IInv'
<1> SUFFICES ASSUME IInv, Close PROVE IInv'
    OBVIOUS
<1>1. UNCHANGED <<handlerVars, mode, commandVars, status>> /\ UNCHANGED <<asked, orphaned, todo>>
    BY DEF Close, handlerVars, commandVars
<1>2. ContextTyped /\ Held
    BY IsContextTyped DEF IInv
<1>3. CASE stage = "closing" /\ BeginClose /\ stage' = "disposing"
    <2>1. /\ connection # None /\ engines' = engines \ {connection}
          /\ UNCHANGED <<connecting, abandoned, connection, repo, service>>
        BY <1>3 DEF BeginClose, Disconnect, contextVars
    <2>2. connection \in Open /\ connection \in engines /\ connection \notin abandoned
          /\ connection \notin connecting
        BY <1>2, <1>3, <2>1 DEF Held, Cached, Open
    <2>3. ContextTyped'
        BY <1>1, <1>2, <2>1, <2>2 DEF ContextTyped
    <2>4. Checking'
        BY <1>1, <1>2, <1>3, <2>1 DEF Held, Checking
    <2>5. Settled' => Open' = {}
        <3> SUFFICES ASSUME Settled' PROVE Open' = {}
            OBVIOUS
        <3>1. Open = {connection}
            BY <1>1, <1>2, <1>3, <2>1 DEF Held, Cached, Settled
        <3> QED
            BY <2>1, <3>1 DEF Open
    <2>6. Cached'
        BY <1>2, <1>3, <2>1, <2>5 DEF Held, Cached, CallsAreConnected
    <2>7. engines' \subseteq abandoned' \cup orphaned' \/ orphaned' \ engines' # {}
        <3>1. CASE connection \in orphaned
            BY <1>1, <2>1, <3>1
        <3>2. CASE connection \notin orphaned
            <4>1. \A f \in engines \ (abandoned \cup orphaned) : f = connection
                BY <1>2, <2>2, <3>2 DEF Held, Checking
            <4> QED
                BY <1>1, <2>1, <4>1
        <3> QED
            BY <3>1, <3>2
    <2>8. Closing'
        BY <1>3, <2>7 DEF Closing, Ended
    <2>9. Typed' /\ Reported'
        BY <1>1, <1>3, <2>3, Aside
    <2> QED
        BY <2>4, <2>6, <2>8, <2>9 DEF IInv, Held
<1>4. CASE /\ stage = "disposing" \/ (stage = "closing" /\ connection = None)
           /\ Drop /\ UNCHANGED connectionVars
           /\ stage' = "closed"
    <2>1. UNCHANGED <<engines, connecting, abandoned>>
        BY <1>4 DEF connectionVars
    <2>2. /\ connection' = None /\ Reaches(repo', service', {}) /\ Reaches(repo', service', Open')
          /\ \A k \in Injected : repo'[k] = Supplied
          /\ repo' \in [Kinds -> EngineIds \cup {None, Supplied}]
          /\ service' \in [Kinds -> SUBSET (EngineIds \cup {Supplied})]
        BY <1>4, Dropping
    <2>3. ContextTyped'
        BY <1>1, <1>2, <2>1, <2>2 DEF ContextTyped
    <2>4. Checking'
        BY <1>1, <1>2, <1>4, <2>1 DEF Held, Checking
    <2>5. Open' = Open /\ (Settled' <=> Settled)
        BY <1>1, <2>1 DEF Open, Settled
    <2>6. Settled => Open = {}
        BY <1>2, <1>4 DEF Held, Cached
    <2>7. Cached'
        <3>1. {connection'} \ {None} = {}
            BY <2>2
        <3> QED
            BY <1>4, <2>2, <2>5, <2>6, <3>1 DEF Cached, CallsAreConnected
    <2>8. engines \subseteq abandoned \cup orphaned \/ orphaned \ engines # {}
        <3>1. CASE stage = "disposing"
            BY <1>2, <3>1 DEF Held, Closing, Ended
        <3>2. CASE stage = "closing" /\ connection = None
            <4>1. Open = {} /\ connecting \subseteq orphaned
                BY <1>2, <2>6, <3>2 DEF Held, Closing, Ended, Checking
            <4> QED
                BY <4>1 DEF Open
        <3> QED
            BY <1>4, <3>1, <3>2
    <2>9. Closing'
        BY <1>1, <1>4, <2>1, <2>8 DEF Closing, Ended
    <2>10. Typed' /\ Reported'
        BY <1>1, <1>4, <2>3, Aside
    <2> QED
        BY <2>4, <2>7, <2>9, <2>10 DEF IInv, Held
<1> QED
    BY <1>3, <1>4 DEF Close

LEMMA StopPortalKeeps == IInv /\ StopPortal => IInv'
<1> SUFFICES ASSUME IInv, StopPortal PROVE IInv'
    OBVIOUS
<1>1. /\ stage = "closed" /\ stage' = "exited"
      /\ UNCHANGED <<orphaned, mode, commandVars, status>>
      /\ UNCHANGED <<engines, connection, repo, service, orphaned, todo>>
      /\ connecting' = {} /\ abandoned' = abandoned \cup connecting /\ asked' = NothingAsked
    BY DEF StopPortal, Break, contextVars, commandVars
<1>2. ContextTyped /\ Held
    BY IsContextTyped DEF IInv
<1>3. ContextTyped'
    <2>1. asked' \in [EngineIds -> Kinds \cup {NoService}]
          /\ \A e \in EngineIds : asked'[e] = NoService
        BY <1>1 DEF NothingAsked
    <2> QED
        BY <1>1, <1>2, <2>1 DEF ContextTyped
<1>4. Open' = Open /\ (Settled' <=> Settled)
    BY <1>1 DEF Open, Settled
<1>5. Checking'
    BY <1>1, <1>2 DEF Held, Checking
<1>6. Cached'
    BY <1>1, <1>2, <1>4 DEF Held, Cached, CallsAreConnected
<1>7. Closing'
    BY <1>1, <1>2 DEF Held, Closing, Ended
<1>8. Typed' /\ Reported'
    BY <1>1, <1>3, Aside
<1> QED
    BY <1>5, <1>6, <1>7, <1>8 DEF IInv, Held

LEMMA OrphanKeeps == IInv /\ Orphan => IInv'
<1> SUFFICES ASSUME IInv, Orphan PROVE IInv'
    OBVIOUS
<1>1. ContextTyped /\ Held
    BY IsContextTyped DEF IInv
<1>2. stage' = stage /\ UNCHANGED <<mode, commandVars, status>> /\ UNCHANGED todo
    BY DEF Orphan, OrphanConnects, OrphanFails, commandVars
<1>3. CASE OrphanConnects
    <2>1. PICK e \in connecting \cap orphaned : ConnectReturns(e)
        BY <1>3 DEF OrphanConnects
    <2>2. UNCHANGED orphaned
        BY <1>3 DEF OrphanConnects
    <2>3. /\ ContextTyped'
          /\ e \in connecting /\ connecting' = connecting \ {e} /\ connection' = e /\ e # None
          /\ UNCHANGED <<engines, abandoned>> /\ Open' = Open \cup {e}
          /\ \A f \in EngineIds \ {e} : asked'[f] = asked[f]
          /\ \A k \in Injected : repo'[k] = Supplied
          /\ stage # "disposing" => Reaches(repo', service', Open')
          /\ Settled' => e \notin orphaned /\ Settled
          /\ \A p \in Kinds : service[p] # {} => service'[p] # {}
        BY <2>1, <2>2, Connecting
    <2>4. Checking'
        <3>1. connecting' \ orphaned' = connecting \ orphaned
            BY <2>1, <2>2, <2>3
        <3>2. \A f \in connecting' : asked'[f] = asked[f]
            BY <1>1, <2>3 DEF ContextTyped
        <3> QED
            BY <1>1, <1>2, <2>2, <2>3, <3>1, <3>2 DEF Held, Checking
    <2>5. ~Settled'
        BY <2>1, <2>3
    <2>6. CallsAreConnected'
        <3> SUFFICES ASSUME stage = "calling"
                     PROVE  /\ service'[Head(todo).service] # {}
                            /\ service'[Head(todo).service] \subseteq Open' \cup {Supplied}
            BY <1>2 DEF CallsAreConnected
        <3>1. Head(todo).service \in Kinds
            BY CallHead DEF IInv, Typed
        <3>2. service[Head(todo).service] # {}
            BY <1>1 DEF Held, Cached, CallsAreConnected
        <3> QED
            BY <2>3, <3>1, <3>2 DEF Reaches
    <2>7. Cached'
        BY <1>2, <2>3, <2>5, <2>6 DEF Cached
    <2>8. Closing'
        BY <1>1, <1>2, <2>2, <2>3 DEF Held, Closing, Ended
    <2>9. Typed' /\ Reported'
        BY <1>2, <2>3, Aside
    <2> QED
        BY <2>4, <2>7, <2>8, <2>9 DEF IInv, Held
<1>4. CASE OrphanFails
    <2>1. UNCHANGED contextVars /\ UNCHANGED <<connection, repo, service>>
        BY <1>4 DEF OrphanFails, contextVars
    <2>2. PICK e \in connecting \cap orphaned :
            /\ Leaves(e)
            /\ \/ ConnectFails(e) /\ orphaned' = orphaned \ {e}
               \/ ConnectBreaks(e) /\ orphaned' = orphaned
        BY <1>4 DEF OrphanFails
    <2>3. /\ ContextTyped' /\ e \in connecting /\ connecting' = connecting \ {e}
          /\ connecting' \ orphaned' = (connecting \ orphaned) \ {e}
          /\ \A f \in connecting' : asked'[f] = asked[f] /\ Waits(asked'[f])
          /\ connecting' \cap abandoned' = {}
          /\ engines' \ (abandoned' \cup orphaned') = (engines \ (abandoned \cup orphaned)) \ {e}
          /\ Open' = Open /\ (Settled' <=> Settled)
          /\ orphaned \subseteq engines => orphaned' \subseteq engines'
          /\ orphaned \ engines # {} => orphaned' \ engines' # {}
          /\ engines \subseteq abandoned \cup orphaned => engines' \subseteq abandoned' \cup orphaned'
        BY <2>1, <2>2, Failing
    <2>4. Checking'
        <3>1. connecting' \ orphaned' = connecting \ orphaned
            BY <2>2, <2>3
        <3> QED
            BY <1>1, <1>2, <2>3, <3>1 DEF Held, Checking
    <2>5. Cached'
        BY <1>1, <1>2, <2>1, <2>3 DEF Held, Cached, CallsAreConnected
    <2>6. Closing'
        BY <1>1, <1>2, <2>1, <2>3 DEF Held, Closing, Ended
    <2>7. Typed' /\ Reported'
        BY <1>2, <2>3, Aside
    <2> QED
        BY <2>4, <2>5, <2>6, <2>7 DEF IInv, Held
<1> QED
    BY <1>3, <1>4 DEF Orphan

LEMMA RestartKeeps == IInv /\ Restart => IInv'
<1> SUFFICES ASSUME IInv, Restart PROVE IInv'
    OBVIOUS
<1>1. /\ Unused' /\ mode' = "none" /\ status' = "none"
    BY Dropping DEF Restart, Unused
<1>2. /\ todo' = <<>> /\ depth' = 0 /\ raised' = None /\ failure' = None
      /\ panels' = <<>> /\ logged' = <<>> /\ stage' = "start"
    BY DEF Restart, Clear
<1>3. todo' \in Seq(Steps) /\ depth' \in 0..2 /\ stage' \in Stages
    BY <1>1, <1>2, Together, Depths DEF Stages
<1>4. scope' \in BOOLEAN
    BY DEF Restart, Clear
<1>5. ContextTyped' /\ Held'
    BY <1>1, NothingHeld, PTL
<1>6. TypeOK'
    BY <1>1, <1>2, <1>3, <1>4, <1>5 DEF TypeOK, ContextTyped
<1>7. Typed'
    BY <1>1, <1>2, <1>3, <1>6 DEF Typed
<1>8. Reported'
    BY <1>1, <1>2 DEF Reported, ExitStatusTruthful
<1> QED
    BY <1>5, <1>7, <1>8 DEF IInv

LEMMA StartKeeps == ASSUME NEW argv PROVE IInv /\ Start(argv) => IInv'
<1> SUFFICES ASSUME IInv, Start(argv) PROVE IInv'
    OBVIOUS
<1>1. stage = "start"
    BY DEF Start
<1>2. CASE /\ mode' = "shell" /\ stage' = "prompt"
           /\ UNCHANGED <<connectionVars, contextVars, handlerVars, commandVars, status>>
    <2>1. UNCHANGED <<line, todo, depth, raised, failure, panels, logged, scope>>
        BY <1>2 DEF commandVars
    <2>2. ContextTyped'
        BY <1>2, ContextKept DEF IInv
    <2>3. TypeOK'
        BY <1>2, <2>1, <2>2 DEF IInv, Typed, TypeOK, ContextTyped, Stages
    <2>4. Typed'
        BY <1>2, <2>1, <2>3 DEF IInv, Typed
    <2>5. Held'
        BY <1>1, <1>2, HeldKept DEF IInv
    <2>6. Reported'
        BY <1>1, <1>2, <2>1 DEF IInv, Reported, ExitStatusTruthful
    <2> QED
        BY <2>4, <2>5, <2>6 DEF IInv
<1>3. CASE mode' = "one shot" /\ App(argv, argv)
    BY <1>1, <1>3, AppStep
<1> QED
    BY <1>2, <1>3 DEF Start

LEMMA ReadLineKeeps == ASSUME NEW words PROVE IInv /\ ReadLine(words) => IInv'
<1> SUFFICES ASSUME IInv, ReadLine(words) PROVE IInv'
    OBVIOUS
<1>1. stage = "prompt" /\ mode' \in {"none", "shell", "one shot"}
    BY DEF ReadLine, IInv, Typed, TypeOK
<1>2. \E typed, told : App(typed, told)
    BY DEF ReadLine, run_help, dispatch
<1> QED
    BY <1>1, <1>2, AppStep

LEMMA StutterKeeps == IInv /\ UNCHANGED vars => IInv'
<1> SUFFICES ASSUME IInv, UNCHANGED vars PROVE IInv'
    OBVIOUS
<1>1. /\ UNCHANGED <<connectionVars, contextVars, handlerVars, mode, commandVars, stage, status>>
      /\ UNCHANGED <<engines, connecting, abandoned, connection, repo, service, asked, orphaned,
                     todo>>
    BY DEF vars, commandVars, connectionVars, contextVars, handlerVars
<1>2. ContextTyped'
    BY <1>1, ContextKept DEF IInv
<1>3. Checking' /\ Closing'
    BY <1>1 DEF IInv, Held, Checking, Closing, Ended, Settled
<1>4. Cached'
    BY <1>1 DEF IInv, Held, Cached, Settled, Open, CallsAreConnected
<1> QED
    BY <1>1, <1>2, <1>3, <1>4, Aside DEF IInv, Held

LEMMA IInvInductive == IInv /\ [Next]_vars => IInv'
<1> SUFFICES ASSUME IInv, [Next]_vars PROVE IInv'
    OBVIOUS
<1>1. CASE MainStep
    BY <1>1, StepInMainKeeps, StartCallKeeps, ConnectedKeeps, NotConnectedKeeps, ReturnKeeps,
       LeaveBoundaryKeeps, CompleteKeeps, FailKeeps, CloseKeeps, StopPortalKeeps DEF MainStep
<1>2. CASE Input
    BY <1>2, StartKeeps, ReadLineKeeps, LeaveShellKeeps, InterruptKeeps, RestartKeeps DEF Input
<1>3. CASE Orphan
    BY <1>3, OrphanKeeps
<1>4. CASE UNCHANGED vars
    BY <1>4, StutterKeeps
<1> QED
    BY <1>1, <1>2, <1>3, <1>4 DEF Next

-----------------------------------------------------------------------------
(* Completions *)

\* The words of the command tree.
LEMMA TreeWords ==
    /\ _known_commands = {"account", "journal", "posting", "trial_balance"}
    /\ DOMAIN Groups = {"account", "journal", "posting"}
    /\ DOMAIN FlatCommands = {"trial_balance"}
    /\ \A g \in DOMAIN Groups :
          DOMAIN Groups[g] \subseteq {"create", "get", "list", "update", "delete", "post",
                                      "get_by_account", "get_by_journal"}
<1>1. /\ DOMAIN account_app = {"create", "get", "list", "update", "delete"}
      /\ DOMAIN journal_app = {"create", "get", "list"}
      /\ DOMAIN posting_app = {"post", "get_by_account", "get_by_journal"}
    BY DEF account_app, journal_app, posting_app
<1>2. /\ DOMAIN Groups = {"account", "journal", "posting"}
      /\ DOMAIN FlatCommands = {"trial_balance"}
      /\ Groups["account"] = account_app /\ Groups["journal"] = journal_app
      /\ Groups["posting"] = posting_app
    BY DEF Groups, FlatCommands
<1> QED
    BY <1>1, <1>2 DEF _known_commands

\* Words that name a group or a command.
Named(words) == IsGroup(words) \/ IsCommand(words)

\* Words that ask for no help mean something if they name something.
LEMMA NamedResolves ==
    ASSUME NEW words, Named(words), ~AsksForHelp(words)
    PROVE  Resolves(words) # "nothing"
    BY DEF Resolves, Named

\* So does a help flag that is put behind them.
LEMMA HelpResolves ==
    ASSUME NEW words \in Seq(STRING), Named(words), ~AsksForHelp(words)
    PROVE  Resolves(Append(words, "--help")) # "nothing"
<1> DEFINE line_ == Append(words, "--help")
           flags == {i \in DOMAIN line_ : line_[i] \in HelpFlags}
<1>1. Len(words) \in Nat /\ DOMAIN words = 1..Len(words)
    OBVIOUS
<1>2. /\ line_ \in Seq(STRING \cup {"--help"}) /\ Len(line_) = Len(words) + 1
      /\ line_[Len(words) + 1] = "--help"
      /\ \A i \in 1..Len(words) : line_[i] = words[i]
    <2>1. words \in Seq(STRING \cup {"--help"}) /\ "--help" \in STRING \cup {"--help"}
        OBVIOUS
    <2> QED
        BY <2>1, AppendProperties
<1>3. DOMAIN line_ = 1..(Len(words) + 1)
    BY <1>1, <1>2
<1>4. SubSeq(line_, 1, Len(words)) = words
    BY <1>1
<1> HIDE DEF line_
<1>5. flags = {Len(words) + 1}
    BY <1>1, <1>2, <1>3 DEF HelpFlags, AsksForHelp
<1> HIDE DEF flags
<1>6. Min(flags) - 1 = Len(words)
    <2> DEFINE m == Len(words) + 1
    <2>1. m \in Nat /\ m - 1 = Len(words)
        BY <1>1
    <2> HIDE DEF m
    <2>2. Min({m}) = m
        BY <2>1 DEF Min
    <2> QED
        BY <1>5, <2>1, <2>2 DEF m
<1>7. BeforeHelp(line_) = words
    BY <1>4, <1>6 DEF BeforeHelp, UpTo, flags
<1>8. AsksForHelp(line_)
    BY <1>1, <1>2, <1>3 DEF AsksForHelp, HelpFlags
<1>9. Resolves(line_) # "nothing"
    BY <1>7, <1>8 DEF Resolves, Named
<1> QED
    BY <1>9 DEF line_

\* The words before a place of a line.
LEMMA Prefix ==
    ASSUME NEW words \in Seq(STRING), NEW n \in 0..Len(words)
    PROVE  /\ UpTo(words, n) \in Seq(STRING) /\ Len(UpTo(words, n)) = n
           /\ n = 0 => UpTo(words, n) = <<>>
           /\ n > 0 => UpTo(words, n) # <<>>
           /\ \A i \in 1..n : UpTo(words, n)[i] = words[i]
<1>1. Len(words) \in Nat /\ \A i \in 1..Len(words) : words[i] \in STRING
    OBVIOUS
<1>2. UpTo(words, n) \in Seq(STRING) /\ Len(UpTo(words, n)) = n
    BY <1>1, SubSeqProperties DEF UpTo
<1>3. \A i \in 1..n : UpTo(words, n)[i] = words[i]
    BY <1>1 DEF UpTo
<1>4. (n = 0 => UpTo(words, n) = <<>>) /\ (n > 0 => UpTo(words, n) # <<>>)
    BY <1>2, EmptySeq
<1> QED
    BY <1>2, <1>3, <1>4

\* Nothing is offered behind two words, or behind three.
LEMMA NothingBehind ==
    ASSUME NEW path, path # <<>>, NEW trailing, NEW builtins,
           (Len(path) = 2 /\ ~trailing) \/ Len(path) = 3
    PROVE  _complete_path(path, trailing, builtins) = {}
<1>1. Len(path) # 1 /\ ~(Len(path) = 2 /\ trailing /\ path[1] \in DOMAIN Groups)
    OBVIOUS
<1> QED
    BY <1>1 DEF _complete_path

\* What is completed at a place depends on the words before it.
LEMMA CompletedPlace ==
    ASSUME NEW words \in Seq(STRING), Completed(words), NEW n \in 0..Len(words) - 1,
           NEW i, i = n + 1
    PROVE  words[i] \in get_completions(UpTo(words, n))
<1>1. i \in DOMAIN words /\ i - 1 = n
    OBVIOUS
<1> QED
    BY <1>1 DEF Completed

\* What is completed at each place of a line that does not begin with "help".
LEMMA CompletedWords ==
    ASSUME NEW words \in Seq(STRING), Completed(words), words # <<>>, words[1] # "help"
    PROVE  /\ words[1] \in _known_commands \cup {"exit"}
           /\ Len(words) > 1 =>
                 \/ words[2] = "help" /\ words[1] \in _known_commands
                 \/ words[1] \in DOMAIN Groups /\ words[2] \in DOMAIN Groups[words[1]]
           /\ Len(words) > 2 => /\ words[3] = "help" /\ words[1] \in DOMAIN Groups
                                /\ words[2] \in DOMAIN Groups[words[1]]
           /\ Len(words) <= 3
<1>1. Len(words) \in Nat /\ Len(words) > 0
    BY EmptySeq
<1>2. words[1] \in _known_commands \cup {"exit"}
    <2>1. 0 \in 0..Len(words) - 1 /\ 0 \in 0..Len(words) /\ 1 = 0 + 1
        BY <1>1
    <2>2. words[1] \in get_completions(<<>>)
        BY <2>1, CompletedPlace, Prefix
    <2> QED
        BY <2>2, TreeWords DEF get_completions, _complete_path, _build_tree, SHELL_BUILTINS
<1>3. ASSUME NEW n \in 1..Len(words) - 1, NEW i, i = n + 1
      PROVE  words[i] \in _complete_path(UpTo(words, n), TRUE, TRUE)
    <2>1. n \in 0..Len(words) - 1 /\ n \in 0..Len(words) /\ n > 0 /\ 1 \in 1..n
        BY <1>1
    <2>2. UpTo(words, n) # <<>> /\ UpTo(words, n)[1] = words[1]
        BY <2>1, Prefix
    <2>3. words[i] \in get_completions(UpTo(words, n))
        BY <1>3, <2>1, CompletedPlace
    <2> QED
        BY <2>2, <2>3 DEF get_completions
<1>4. ASSUME Len(words) > 1
      PROVE  \/ words[2] = "help" /\ words[1] \in _known_commands
             \/ words[1] \in DOMAIN Groups /\ words[2] \in DOMAIN Groups[words[1]]
    <2>1. 1 \in 1..Len(words) - 1 /\ 2 = 1 + 1 /\ 1 \in 0..Len(words) /\ 1 \in 1..1 /\ 1 > 0
        BY <1>1, <1>4
    <2>2. words[2] \in _complete_path(UpTo(words, 1), TRUE, TRUE)
        BY <1>3, <2>1
    <2>3. UpTo(words, 1) # <<>> /\ Len(UpTo(words, 1)) = 1 /\ UpTo(words, 1)[1] = words[1]
        BY <2>1, Prefix
    <2> QED
        BY <2>2, <2>3 DEF _complete_path
<1>5. ASSUME Len(words) > 2
      PROVE  /\ words[3] = "help" /\ words[1] \in DOMAIN Groups
             /\ words[2] \in DOMAIN Groups[words[1]]
    <2>1. 2 \in 1..Len(words) - 1 /\ 3 = 2 + 1 /\ 2 \in 0..Len(words)
          /\ 1 \in 1..2 /\ 2 \in 1..2 /\ 2 > 0
        BY <1>1, <1>5
    <2>2. words[3] \in _complete_path(UpTo(words, 2), TRUE, TRUE)
        BY <1>3, <2>1
    <2>3. /\ UpTo(words, 2) # <<>> /\ Len(UpTo(words, 2)) = 2 /\ UpTo(words, 2)[1] = words[1]
          /\ UpTo(words, 2)[2] = words[2]
        BY <2>1, Prefix
    <2> QED
        BY <2>2, <2>3 DEF _complete_path
<1>6. Len(words) <= 3
    <2> SUFFICES ASSUME Len(words) > 3 PROVE FALSE
        BY <1>1
    <2>1. 3 \in 1..Len(words) - 1 /\ 4 = 3 + 1 /\ 3 \in 0..Len(words) /\ 3 > 0
        BY <1>1
    <2>2. words[4] \in _complete_path(UpTo(words, 3), TRUE, TRUE)
        BY <1>3, <2>1
    <2>3. UpTo(words, 3) # <<>> /\ Len(UpTo(words, 3)) = 3
        BY <2>1, Prefix
    <2> QED
        BY <2>2, <2>3, NothingBehind
<1> QED
    BY <1>2, <1>4, <1>5, <1>6

\* Behind a "help" in front, what is completed names what help is asked for.
LEMMA CompletedTargets ==
    ASSUME NEW words \in Seq(STRING), Completed(words), words # <<>>, words[1] = "help"
    PROVE  /\ Tail(words) \in Seq(STRING)
           /\ Named(Tail(words)) /\ ~AsksForHelp(Tail(words))
<1> DEFINE target == Tail(words)
<1>1. /\ Len(words) \in Nat /\ Len(words) > 0
      /\ target \in Seq(STRING) /\ Len(target) = Len(words) - 1
      /\ \A i \in 1..Len(target) : target[i] = words[i + 1]
    BY EmptySeq, HeadTailProperties
<1>2. Len(target) \in Nat /\ DOMAIN target = 1..Len(target)
    BY <1>1
<1>3. ASSUME NEW n \in 0..Len(target) - 1, NEW i, i = n + 1
      PROVE  target[i] \in _complete_path(UpTo(target, n), FALSE, FALSE)
    <2>1. /\ i \in 1..Len(target) /\ i \in 0..Len(words) - 1 /\ i \in 0..Len(words)
          /\ i \in 1..Len(words) /\ 1 \in 1..i /\ i > 0 /\ 1 \in 1..Len(words)
        BY <1>1, <1>2, <1>3
    <2>2. UpTo(words, i) # <<>> /\ UpTo(words, i)[1] = "help"
        BY <2>1, Prefix
    <2>3. Tail(UpTo(words, i)) = UpTo(target, n)
        <3>1. Tail(UpTo(words, i)) = SubSeq(words, 2, i)
            BY <2>1, HeadTailOfSubSeq DEF UpTo
        <3>2. target = SubSeq(words, 2, Len(words))
            BY TailIsSubSeq
        <3>3. SubSeq(SubSeq(words, 2, Len(words)), 1, n) = SubSeq(words, 2, i)
            BY <1>1, <1>2, <1>3
        <3> QED
            BY <3>1, <3>2, <3>3 DEF UpTo
    <2>4. target[i] = words[i + 1] /\ words[i + 1] \in get_completions(UpTo(words, i))
        BY <1>1, <2>1, CompletedPlace
    <2> QED
        BY <2>2, <2>3, <2>4 DEF get_completions
<1> HIDE DEF target
<1>4. Len(target) > 0 => target[1] \in _known_commands
    <2> SUFFICES ASSUME Len(target) > 0 PROVE target[1] \in _known_commands
        OBVIOUS
    <2>1. 0 \in 0..Len(target) - 1 /\ 1 = 0 + 1 /\ 0 \in 0..Len(target)
        BY <1>2
    <2>2. target[1] \in _complete_path(<<>>, FALSE, FALSE)
        BY <1>1, <1>3, <2>1, Prefix
    <2> QED
        BY <2>2, TreeWords DEF _complete_path, _build_tree, SHELL_BUILTINS
<1>5. Len(target) > 1 => target[1] \in DOMAIN Groups /\ target[2] \in DOMAIN Groups[target[1]]
    <2> SUFFICES ASSUME Len(target) > 1
                 PROVE  target[1] \in DOMAIN Groups /\ target[2] \in DOMAIN Groups[target[1]]
        OBVIOUS
    <2>1. 1 \in 0..Len(target) - 1 /\ 2 = 1 + 1 /\ 1 \in 0..Len(target) /\ 1 \in 1..1 /\ 1 > 0
        BY <1>2
    <2>2. target[2] \in _complete_path(UpTo(target, 1), FALSE, FALSE)
        BY <1>3, <2>1
    <2>3. UpTo(target, 1) # <<>> /\ Len(UpTo(target, 1)) = 1 /\ UpTo(target, 1)[1] = target[1]
        BY <1>1, <2>1, Prefix
    <2> QED
        BY <2>2, <2>3 DEF _complete_path
<1>6. Len(target) <= 2
    <2> SUFFICES ASSUME Len(target) > 2 PROVE FALSE
        BY <1>2
    <2>1. 2 \in 0..Len(target) - 1 /\ 3 = 2 + 1 /\ 2 \in 0..Len(target) /\ 2 > 0
        BY <1>2
    <2>2. target[3] \in _complete_path(UpTo(target, 2), FALSE, FALSE)
        BY <1>3, <2>1
    <2>3. UpTo(target, 2) # <<>> /\ Len(UpTo(target, 2)) = 2
        BY <1>1, <2>1, Prefix
    <2> QED
        BY <2>2, <2>3, NothingBehind
<1>7. Named(target)
    <2>1. CASE Len(target) = 0
        BY <1>1, <2>1, EmptySeq DEF Named, IsGroup
    <2>2. CASE Len(target) = 1
        <3>1. Len(target) > 0 /\ target # <<>> /\ Len(target) = 1
            BY <2>2, EmptySeq
        <3>2. target[1] \in DOMAIN Groups \/ target[1] \in DOMAIN FlatCommands
            BY <1>4, <3>1 DEF _known_commands
        <3> QED
            BY <3>1, <3>2 DEF Named, IsGroup, IsCommand
    <2>3. CASE Len(target) = 2
        BY <1>1, <1>5, <2>3, EmptySeq DEF Named, IsCommand
    <2> QED
        BY <1>2, <1>6, <2>1, <2>2, <2>3
<1>8. ~AsksForHelp(target)
    <2> SUFFICES ASSUME NEW i \in 1..Len(target) PROVE target[i] # "--help"
        BY <1>2 DEF AsksForHelp, HelpFlags
    <2>1. (i = 1 /\ Len(target) > 0) \/ (i = 2 /\ Len(target) > 1)
        <3> DEFINE n == Len(target)
        <3>1. n \in Nat /\ n <= 2 /\ i \in 1..n
            BY <1>2, <1>6
        <3> HIDE DEF n
        <3>2. n \in Int /\ i \in Int /\ 1 <= i /\ i <= n /\ n <= 2
            BY <3>1
        <3>3. (i = 1 /\ n > 0) \/ (i = 2 /\ n > 1)
            BY <3>2
        <3> QED
            BY <3>3 DEF n
    <2>2. "--help" \notin _known_commands
          /\ \A g \in DOMAIN Groups : "--help" \notin DOMAIN Groups[g]
        BY TreeWords
    <2> QED
        BY <1>2, <1>4, <1>5, <2>1, <2>2
<1> QED
    BY <1>1, <1>7, <1>8 DEF target

\* Every line of completions that the shell dispatches means something.
LEMMA CompletedResolves ==
    ASSUME NEW words \in Seq(STRING), Completed(words), words # <<"exit">>,
           NEW told,
           told = IF words # <<>> /\ words[1] = "help" THEN Append(Tail(words), "--help")
                  ELSE IF words # <<>> /\ Last(words) = "help" THEN Append(Front(words), "--help")
                  ELSE words
    PROVE  Resolves(told) # "nothing"
<1>1. CASE words = <<>>
    <2>1. Named(words) /\ ~AsksForHelp(words) /\ told = words
        BY <1>1 DEF Named, IsGroup, AsksForHelp
    <2> QED
        BY <2>1, NamedResolves
<1>2. CASE words # <<>> /\ words[1] = "help"
    <2>1. told = Append(Tail(words), "--help")
        BY <1>2
    <2> QED
        BY <1>2, <2>1, CompletedTargets, HelpResolves
<1>3. CASE words # <<>> /\ words[1] # "help"
    <2> DEFINE n == Len(words)
    <2>1. /\ n \in 1..3 /\ n \in Nat /\ DOMAIN words = 1..n
          /\ words[1] \in _known_commands \cup {"exit"}
        <3>1. n \in Nat \ {0} /\ DOMAIN words = 1..n
            BY <1>3, EmptySeq
        <3>2. n <= 3 /\ words[1] \in _known_commands \cup {"exit"}
            BY <1>3, CompletedWords
        <3> QED
            BY <3>1, <3>2
    <2>2. /\ n > 1 => \/ words[2] = "help" /\ words[1] \in _known_commands
                      \/ words[1] \in DOMAIN Groups /\ words[2] \in DOMAIN Groups[words[1]]
          /\ n > 2 => /\ words[3] = "help" /\ words[1] \in DOMAIN Groups
                      /\ words[2] \in DOMAIN Groups[words[1]]
        BY <1>3, CompletedWords
    <2>3. /\ "help" \notin _known_commands /\ "--help" \notin _known_commands
          /\ "exit" \notin _known_commands /\ "--help" # "exit" /\ "--help" # "help"
          /\ \A g \in DOMAIN Groups : {"help", "--help"} \cap DOMAIN Groups[g] = {}
          /\ _known_commands = DOMAIN Groups \cup DOMAIN FlatCommands
        BY TreeWords DEF _known_commands
    <2>4. words[1] \in _known_commands
        <3>1. CASE n = 1
            BY <1>3, <2>1, <3>1
        <3>2. CASE n > 1
            BY <2>2, <2>3, <3>2
        <3> QED
            BY <2>1, <3>1, <3>2
    <2>5. CASE Last(words) # "help"
        <3>1. told = words
            BY <1>3, <2>5
        <3>2. CASE n = 1
            <4>1. ~AsksForHelp(words)
                BY <2>1, <2>3, <2>4, <3>2 DEF AsksForHelp, HelpFlags
            <4>2. Named(words)
                BY <1>3, <2>3, <2>4, <3>2 DEF Named, IsGroup, IsCommand
            <4> QED
                BY <3>1, <4>1, <4>2, NamedResolves
        <3>3. CASE n = 2
            <4>1. words[1] \in DOMAIN Groups /\ words[2] \in DOMAIN Groups[words[1]]
                BY <2>2, <2>5, <3>3 DEF Last
            <4>2. ~AsksForHelp(words)
                BY <2>1, <2>3, <2>4, <3>3, <4>1 DEF AsksForHelp, HelpFlags
            <4>3. Named(words)
                BY <1>3, <3>3, <4>1 DEF Named, IsCommand
            <4> QED
                BY <3>1, <4>2, <4>3, NamedResolves
        <3>4. n # 3
            BY <2>2, <2>5 DEF Last
        <3> QED
            BY <2>1, <3>2, <3>3, <3>4
    <2>6. CASE Last(words) = "help"
        <3> DEFINE target == Front(words)
        <3>1. told = Append(target, "--help")
            BY <1>3, <2>6
        <3>2. n > 1
            BY <2>1, <2>3, <2>4, <2>6 DEF Last
        <3>3. n - 1 \in 0..Len(words) /\ n - 1 > 0 /\ n - 1 \in {1, 2} /\ 1 \in 1..n - 1
            BY <2>1, <3>2
        <3>4. /\ target \in Seq(STRING) /\ Len(target) = n - 1 /\ target # <<>>
              /\ \A i \in 1..n - 1 : target[i] = words[i]
            BY <3>3, Prefix DEF Front, UpTo
        <3> HIDE DEF target
        <3>5. n = 3 => words[1] \in DOMAIN Groups /\ words[2] \in DOMAIN Groups[words[1]]
            BY <2>2
        <3>6. Named(target)
            <4>1. CASE n = 2
                <5>1. Len(target) = 1 /\ target[1] = words[1]
                    BY <3>3, <3>4, <4>1
                <5> QED
                    BY <2>3, <2>4, <3>4, <5>1 DEF Named, IsGroup, IsCommand
            <4>2. CASE n = 3
                <5>1. Len(target) = 2 /\ target[1] = words[1] /\ target[2] = words[2]
                    BY <3>3, <3>4, <4>2
                <5> QED
                    BY <3>4, <3>5, <4>2, <5>1 DEF Named, IsCommand
            <4> QED
                BY <2>1, <3>2, <4>1, <4>2
        <3>7. ~AsksForHelp(target)
            <4>1. DOMAIN target = 1..n - 1
                BY <3>4
            <4>2. CASE n = 2
                <5>1. DOMAIN target = {1} /\ target[1] = words[1]
                    BY <3>4, <4>1, <4>2
                <5> QED
                    BY <2>3, <2>4, <5>1 DEF AsksForHelp, HelpFlags
            <4>3. CASE n = 3
                <5>1. DOMAIN target = {1, 2} /\ target[1] = words[1] /\ target[2] = words[2]
                    BY <3>4, <4>1, <4>3
                <5> QED
                    BY <2>3, <2>4, <3>5, <4>3, <5>1 DEF AsksForHelp, HelpFlags
            <4> QED
                BY <2>1, <3>2, <4>2, <4>3
        <3> QED
            BY <3>1, <3>4, <3>6, <3>7, HelpResolves
    <2> QED
        BY <2>5, <2>6
<1> QED
    BY <1>1, <1>2, <1>3

\* A step leaves the line that named no command as it is, or there was none.
LineStands ==
    failure' = NoSuchCommand => failure = NoSuchCommand /\ UNCHANGED <<line, mode>>

\* An exception that is not NoSuchCommand, or none.
LEMMA NotOfTheLine ==
    ASSUME NEW n, NEW exc \in StepErrors, RaiseAt(n, exc), UNCHANGED <<line, mode>>
    PROVE  LineStands
    BY DEF RaiseAt, StepErrors, LineStands

\* No step of a command raises it.
LEMMA CommandsKeepLine == IInv /\ MainStep => LineStands
<1> SUFFICES ASSUME IInv, MainStep PROVE LineStands
    OBVIOUS
<1>1. None # NoSuchCommand
    BY SessionAssumption DEF Exceptions
<1>2. ASSUME todo # <<>>, NEW exc \in Head(todo).raises, RaiseAt(Head(todo).depth, exc),
             UNCHANGED <<line, mode>>
      PROVE  LineStands
    BY <1>2, HeadStep, NotOfTheLine DEF IInv
<1>3. CASE StepInMain
    BY <1>2, <1>3 DEF StepInMain, Do, Unraised, LineStands
<1>4. CASE Return
    <2>1. todo # <<>> /\ UNCHANGED <<line, mode>>
        BY <1>4 DEF Return, IInv, Typed
    <2> QED
        BY <1>2, <1>4, <2>1 DEF Return, Unraised, LineStands
<1>5. CASE StartCall \/ Connected \/ Close \/ StopPortal
    BY <1>5 DEF StartCall, Connected, Close, StopPortal, commandVars, LineStands
<1>6. CASE NotConnected
    <2>1. ConnectErrors \cup {Unexpected} \subseteq StepErrors
        BY FactoriesRendered, KnownStepErrors DEF ConnectErrors, ConnectError
    <2>2. \E exc \in ConnectErrors \cup {Unexpected} : RaiseAt(Head(todo).depth, exc)
        BY <1>6 DEF NotConnected
    <2>3. UNCHANGED <<line, mode>>
        BY <1>6 DEF NotConnected
    <2> QED
        BY <2>1, <2>2, <2>3, NotOfTheLine
<1>7. CASE LeaveBoundary
    BY <1>7 DEF LeaveBoundary, LineStands
<1>8. CASE Complete \/ Fail
    <2>1. mode' = mode /\ (Clear \/ UNCHANGED <<line, failure>>)
        BY <1>8 DEF Complete, Fail, Over
    <2> QED
        BY <1>1, <2>1 DEF Clear, LineStands
<1> QED
    BY <1>3, <1>4, <1>5, <1>6, <1>7, <1>8 DEF MainStep

\* A line that names no command is not made of completions.
LEMMA ReadLineUnderstood ==
    ASSUME IInv, NEW words \in Lines, ReadLine(words)
    PROVE  CompletionsUnderstood'
<1> DEFINE told == IF words # <<>> /\ words[1] = "help" THEN Append(Tail(words), "--help")
                   ELSE IF words # <<>> /\ Last(words) = "help"
                        THEN Append(Front(words), "--help") ELSE words
<1>1. words \in Seq(STRING) /\ words # <<"exit">>
    BY LinesAssumption DEF ReadLine, terminating_keywords
<1>2. stage = "prompt" /\ App(words, told)
    BY DEF ReadLine, run_help, dispatch
<1>3. failure = None /\ None # NoSuchCommand /\ UsageError # NoSuchCommand
    BY <1>2, SessionAssumption, OtherClasses DEF IInv, Reported, Exceptions
<1>4. failure' = NoSuchCommand => Resolves(told) = "nothing" /\ line' = words
    BY <1>2, <1>3 DEF App, RaiseAt
<1> HIDE DEF told
<1>5. Completed(words) => Resolves(told) # "nothing"
    BY <1>1, CompletedResolves DEF told
<1> QED
    BY <1>4, <1>5 DEF CompletionsUnderstood, Completed

LEMMA StepUnderstood ==
    ASSUME IInv, CompletionsUnderstood, [Next]_vars
    PROVE  CompletionsUnderstood'
<1>1. None # NoSuchCommand /\ {KeyboardInterrupt, EndOfInput} \subseteq StepErrors
    BY SessionAssumption, KnownStepErrors DEF Exceptions
<1>2. ASSUME LineStands PROVE CompletionsUnderstood'
    BY <1>2 DEF LineStands, CompletionsUnderstood, Completed
<1>3. CASE MainStep
    BY <1>2, <1>3, CommandsKeepLine
<1>4. ASSUME NEW words \in Lines, Start(words)
      PROVE  CompletionsUnderstood'
    <2>1. CASE mode' = "shell" /\ UNCHANGED commandVars
        <3>1. failure' = None
            BY <1>4, <2>1 DEF Start, IInv, Reported, commandVars
        <3> QED
            BY <1>1, <3>1 DEF CompletionsUnderstood
    <2>2. CASE mode' = "one shot"
        BY <2>2 DEF CompletionsUnderstood
    <2> QED
        BY <1>4, <2>1, <2>2 DEF Start
<1>5. ASSUME NEW words \in Lines, ReadLine(words)
      PROVE  CompletionsUnderstood'
    BY <1>5, ReadLineUnderstood
<1>6. CASE LeaveShell
    BY <1>2, <1>6 DEF LeaveShell, commandVars, LineStands
<1>7. CASE Interrupt
    BY <1>1, <1>2, <1>7, NotOfTheLine DEF Interrupt
<1>8. CASE Restart
    BY <1>1, <1>8 DEF Restart, Clear, CompletionsUnderstood
<1>9. CASE Orphan \/ UNCHANGED vars
    BY <1>2, <1>9 DEF Orphan, OrphanConnects, OrphanFails, vars, commandVars, LineStands
<1> QED
    BY <1>3, <1>4, <1>5, <1>6, <1>7, <1>8, <1>9 DEF Next, Input

-----------------------------------------------------------------------------
(* The theorems *)

LEMMA SpecIInv == Spec => []IInv
    BY Starts, IInvInductive, PTL DEF Spec

\* Whatever is typed and whatever fails, the process, its context and its
\* command have the shape the code gives them.
THEOREM SessionTypes == Spec => []TypeOK
<1>1. IInv => TypeOK
    BY DEF IInv, Typed
<1> QED
    BY SpecIInv, <1>1, PTL

\* However connecting, failing and interrupting follow one another, also over
\* several commands of the shell, the process holds one engine at most beside
\* those whose check broke and those whose connect() lost its caller; as long as
\* there are none of the latter, it is the cached one or the one being checked.
THEOREM SessionHoldsOneEngine == Spec => []OneEngine
<1>1. IInv => OneEngine
    <2> SUFFICES ASSUME IInv PROVE OneEngine
        OBVIOUS
    <2>1. ContextTyped /\ Held
        BY IsContextTyped DEF IInv
    <2>2. ASSUME orphaned = {}, stage # "disposing"
          PROVE  engines = ({connection} \ {None}) \cup connecting \cup abandoned
        <3>1. Open = {connection} \ {None}
            BY <2>1, <2>2 DEF Held, Cached, Settled
        <3> QED
            BY <2>1, <3>1 DEF Open, ContextTyped
    <2> QED
        BY <2>1, <2>2 DEF OneEngine, Held, Checking
<1> QED
    BY SpecIInv, <1>1, PTL

\* No cached repository and no cached service reaches a connection that is gone,
\* whichever handler cached it last; and as long as no connect() lost its caller
\* they reach no other than the cached one.
THEOREM SessionCachesAreCurrent == Spec => []NothingOutlivesItsConnection
<1>1. IInv => NothingOutlivesItsConnection
    <2> SUFFICES ASSUME IInv, stage # "disposing"
                 PROVE  NothingOutlivesItsConnection
        BY DEF NothingOutlivesItsConnection
    <2>1. connection \in Open \cup {None} /\ Reaches(repo, service, Open)
        BY DEF IInv, Held, Cached
    <2>2. orphaned = {} => Reaches(repo, service, {connection} \ {None})
        BY DEF IInv, Held, Cached, Settled
    <2> QED
        BY <2>1, <2>2 DEF NothingOutlivesItsConnection, Reaches
<1> QED
    BY SpecIInv, <1>1, PTL

\* A service is called only when all that it reaches is open.
THEOREM SessionCallsAreConnected == Spec => []CallsAreConnected
<1>1. IInv => CallsAreConnected
    BY DEF IInv, Held, Cached
<1> QED
    BY SpecIInv, <1>1, PTL

\* A process that ends leaves no more engines open than there were connects that
\* lost their caller, beside those whose check broke: none, if nobody pressed
\* Ctrl-C while it was connecting.
THEOREM SessionClosesAtExit == Spec => []ClosedAtExit
<1>1. IInv => ClosedAtExit
    <2> SUFFICES ASSUME IInv, stage = "exited"
                 PROVE  Cardinality(engines \ abandoned) <= Cardinality(orphaned \ abandoned)
        BY DEF ClosedAtExit
    <2> DEFINE left == engines \ abandoned
               lost == orphaned \ abandoned
    <2>1. ContextTyped /\ Held
        BY IsContextTyped DEF IInv
    <2>2. IsFiniteSet(left) /\ IsFiniteSet(lost)
        BY <2>1, EnginesAssumption, FS_Subset DEF ContextTyped
    <2>3. Cardinality(left) \in Nat /\ Cardinality(lost) \in Nat
        BY <2>2, FS_CardinalityType
    <2>4. CASE left \subseteq lost
        BY <2>2, <2>4, FS_Subset
    <2>5. CASE ~(left \subseteq lost)
        <3>1. PICK f \in left : f \notin orphaned
            BY <2>5
        <3>2. \A g \in left : g = f \/ g \in orphaned
            BY <2>1, <3>1 DEF Held, Checking
        <3>3. PICK d \in orphaned : d \notin engines
            BY <2>1, <3>1 DEF Held, Closing, Ended
        <3>4. d \in lost /\ d \notin left
            BY <2>1, <3>3 DEF ContextTyped
        <3> DEFINE rest == lost \ {d}
        <3>5. /\ IsFiniteSet(rest) /\ Cardinality(rest) = Cardinality(lost) - 1
            BY <2>2, <3>4, FS_RemoveElement
        <3>6. f \notin rest /\ left \subseteq rest \cup {f}
            BY <3>1, <3>2, <3>4
        <3> HIDE DEF left, lost, rest
        <3>7. IsFiniteSet(rest \cup {f}) /\ Cardinality(rest \cup {f}) = Cardinality(rest) + 1
            BY <3>5, <3>6, FS_AddElement
        <3>8. Cardinality(left) <= Cardinality(rest \cup {f})
            BY <3>6, <3>7, FS_Subset
        <3>9. Cardinality(rest \cup {f}) = Cardinality(lost)
            BY <2>3, <3>5, <3>7
        <3>10. Cardinality(left) <= Cardinality(lost)
            BY <3>8, <3>9
        <3> QED
            BY <3>10 DEF left, lost
    <2> QED
        BY <2>4, <2>5
<1> QED
    BY SpecIInv, <1>1, PTL

\* However deep the boundaries of a command are nested, a failure is shown and
\* logged once, and only what the boundaries catch is.
THEOREM SessionReportsOnce == Spec => []FailuresReportedOnce
<1>1. IInv => FailuresReportedOnce
    <2> SUFFICES ASSUME IInv, stage = "raised", depth = 0
                 PROVE  IF Caught(failure)
                        THEN /\ panels = <<CodesShown(failure)>>
                             /\ logged = <<[line |-> _log_failure(failure), scope |-> TRUE]>>
                        ELSE panels = <<>> /\ logged = <<>>
        BY DEF FailuresReportedOnce
    <2>1. CASE ~Caught(failure) /\ panels = <<>> /\ logged = <<>>
        BY <2>1
    <2>2. CASE Told
        BY <2>2, RenderedClasses DEF Told
    <2> QED
        BY <2>1, <2>2, Leaving
<1> QED
    BY SpecIInv, <1>1, PTL

\* The status a single command ends with says whether it did what it was asked
\* to, whether it was called wrongly, whether it was interrupted, or whether it
\* failed.
THEOREM SessionStatusTruthful == Spec => []ExitStatusTruthful
<1>1. IInv => ExitStatusTruthful
    BY DEF IInv, Reported
<1> QED
    BY SpecIInv, <1>1, PTL

\* The shell ends only when the user leaves it or ends the input, or by an
\* exception that nothing translates: Ctrl-C ends the command only.
THEOREM SessionSurvives == Spec => ShellSurvives
<1> DEFINE Survives ==
        mode = "shell" /\ stage # "closing" /\ stage' = "closing"
            => failure \in {None, EndOfInput, Unexpected}
<1>1. IInv /\ [Next]_vars => Survives
    <2> SUFFICES ASSUME IInv, [Next]_vars, mode = "shell", stage # "closing", stage' = "closing"
                 PROVE  failure \in {None, EndOfInput, Unexpected}
        OBVIOUS
    <2>1. \/ LeaveShell \/ Complete \/ Fail
          \/ stage' \in {stage, "prompt", "command", "connecting", "calling", "raised",
                         "disposing", "closed", "exited", "start"}
        BY DEF Next, MainStep, Input, StepInMain, StartCall, call, Connected, NotConnected, Return,
               LeaveBoundary, Close, StopPortal, Start, App, ReadLine, run_help, dispatch,
               Interrupt, Restart, Orphan, OrphanConnects, OrphanFails, RaiseAt, vars
    <2>2. CASE LeaveShell
        BY <2>2 DEF LeaveShell, IInv, Reported
    <2>3. CASE Complete
        BY <2>3 DEF Complete, Over
    <2>4. CASE Fail
        <3>1. stage = "raised" /\ depth = 0 /\ ~StaysInShell(raised)
            BY <2>4 DEF Fail, Over
        <3>2. \A s : StaysInShell(Exit(s))
            BY ExitClasses
        <3>3. ~Usage(raised) /\ raised \notin {Exit("0"), Exit("1"), KeyboardInterrupt}
            BY <3>1, <3>2, OtherClasses DEF StaysInShell, EndsAsExit
        <3> QED
            BY <3>1, <3>3, Leaving DEF Told
    <2> QED
        BY <2>1, <2>2, <2>3, <2>4
<1> QED
    BY SpecIInv, <1>1, PTL DEF Spec, ShellSurvives

\* In the shell, a line made of completions alone is one that the shell
\* understands: whatever is typed, and whatever was typed before, the error that
\* no command has that name answers a line with a word that was not offered.
THEOREM SessionUnderstandsCompletions == Spec => []CompletionsUnderstood
<1>1. Init => CompletionsUnderstood
    BY DEF Init, CompletionsUnderstood
<1> QED
    BY <1>1, SpecIInv, StepUnderstood, PTL DEF Spec
=============================================================================
