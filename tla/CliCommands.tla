---------------------------- MODULE CliCommands -----------------------------
(***************************************************************************)
(* The commands of the CLI (apps/cli, features): the steps each takes      *)
(* between prompting, parsing and calling a service, and how deep each     *)
(* step lies in error_boundary blocks.                                     *)
(***************************************************************************)
EXTENDS ServiceErrors, ErrorPanels

\* What a command may raise beside the exceptions of the services: an error of
\* usage, which typer renders itself; typer.Exit with a status; Ctrl-C or the
\* end of input.
Raises(class) == Raised(class, "none", {}, <<>>, NoDelay)
BadParameter == Raises("BadParameter")
Exit(status) == Raised("Exit", status, {}, <<>>, NoDelay)
KeyboardInterrupt == Raises("KeyboardInterrupt")
EndOfInput == Raises("EOFError")
NoSuchCommand == Raises("NoSuchCommand")
UsageError == Raises("UsageError")

\* Whatever a command may raise: what a boundary renders, and the rest.
Rendered ==
    [class : {"AppError", "ValidationAppError", "ValidationError"},
     code : ErrorCode \cup {"none"},
     context : SUBSET {"resource", "identifier", "field", "value"},
     errors : Seq(PydanticTypes) \cup Seq(FieldViolations), delay : {NoDelay}]
Exceptions == Rendered \cup {BadParameter, NoSuchCommand, UsageError, Exit("0"), Exit("1"),
                             KeyboardInterrupt, EndOfInput, Unexpected}

-----------------------------------------------------------------------------
(* Steps *)

\* A step: what it does, at which depth, on which service, what it may raise.
Step(does, depth, service, raises) ==
    [does |-> does, depth |-> depth, service |-> service, raises |-> raises]

\* The user is asked until the answer can be taken.
Ask(depth) == Step("ask", depth, "none", {})
\* A yes or no: "no" raises, "yes" goes on.
Confirm(depth) == Step("confirm", depth, "none", {Exit("0")})
\* Arguments or answers become a DTO or a value.
Parse(depth, raises) == Step("parse", depth, "none", raises)
\* Options that exclude each other.
Refuse(depth) == Step("refuse", depth, "none", {BadParameter})
\* A handler runs on the event loop: it gets its service and calls it.
Call(depth, service, raises) == Step("call", depth, service, raises \cup Always)

-----------------------------------------------------------------------------
(* Accounts *)

TextErrors == {ValidationError(<<"STRING_TOO_SHORT">>),
               ValidationError(<<"STRING_TOO_LONG", "STRING_TOO_SHORT">>)}

\* A category is resolved before the DTO is built; one that was selected from
\* the panel always resolves.
_get_category(selected) == IF selected THEN {} ELSE {BadParameter}
parse_create_account(selected) == _get_category(selected) \cup TextErrors
parse_update_account(selected) == _get_category(selected) \cup TextErrors
prompt_create_account == <<Ask(1), Parse(1, parse_create_account(TRUE))>>
prompt_update_account == <<Ask(1), Parse(1, parse_update_account(TRUE))>>
prompt_account_identifier == <<Ask(0)>>
confirm_account_deletion == <<Confirm(0)>>

\* A code that matches no account is looked up as a name, in the chart.
get_account_handler == get_account \cup {UnreadableChart}

\* Faulty variant: one boundary more.
FetchAccountTwiceBounded(depth) == Call(depth + 2, "account", get_account_handler)

\* The account is fetched in a boundary of its own.
_fetch_account(depth) == Call(depth + 1, "account", get_account_handler)

create_account_command ==
    LET create == <<Call(1, "account", create_account)>> IN
    {<<Parse(1, parse_create_account(FALSE))>> \o create,
     prompt_create_account \o create,
     <<Refuse(1)>>}
get_account_command == {<<_fetch_account(0)>>, prompt_account_identifier \o <<_fetch_account(0)>>}

list_accounts_command == {<<Call(1, "account", list_accounts)>>}
update_account_command ==
    LET update == <<Call(1, "account", update_account)>> IN
    {<<_fetch_account(1), Parse(1, parse_update_account(FALSE))>> \o update,
     <<_fetch_account(1)>> \o prompt_update_account \o update}
delete_account_command ==
    LET delete == <<Call(1, "account", delete_account)>> IN
    {<<_fetch_account(0)>> \o confirm_account_deletion \o delete,
     <<_fetch_account(0)>> \o delete}

-----------------------------------------------------------------------------
(* The journal *)

\* An amount of the wrong form is an error of usage, as is a line spec or a
\* date; an amount may be a decimal that the DTO does not take, as "NaN".
_parse_amount == {BadParameter}
parse_journal_line == _parse_amount \cup TextErrors
                        \cup {ValidationError(<<"GREATER_THAN_EQUAL", ForeignType>>)}
parse_line_spec == {BadParameter} \cup parse_journal_line
parse_posting_date == {BadParameter}
parse_create_journal == parse_posting_date \cup {ValidationError(<<"STRING_TOO_LONG">>)}

\* Two lines or more are asked for; one stands for all of them.
_prompt_lines == <<Ask(1), Parse(1, parse_journal_line)>>
prompt_create_journal == <<Ask(1)>> \o _prompt_lines \o <<Ask(1), Parse(1, parse_create_journal)>>

\* Anything but an integer is asked for again.
prompt_journal_number == <<Ask(0)>>

create_journal_command ==
    LET create == <<Call(1, "journal", create_journal_entry)>> IN
    {<<Parse(1, parse_line_spec),
       Parse(1, parse_create_journal \cup {ValidationError(<<"TOO_SHORT">>)})>> \o create,
     prompt_create_journal \o create}
get_journal_command ==
    LET get == <<Call(1, "journal", get_journal_entry)>> IN {get, prompt_journal_number \o get}
list_journal_command == {<<Call(1, "journal", list_journal_entries)>>}

-----------------------------------------------------------------------------
(* Postings and the trial balance *)

prompt_posting_journal_number == <<Ask(0)>>
prompt_posting_account_identifier == <<Ask(0)>>

post_command ==
    LET post == <<Call(1, "posting", post_journal_entry)>> IN
    {post, prompt_posting_journal_number \o post}
\* The panel's title holds the account as it was typed, and rich reads it as
\* markup: a closing tag without its opening tag cannot be printed.
print_postings_list == Step("print", 0, "none", {Unexpected})
get_by_account_command ==
    LET get == <<Call(1, "posting", get_postings), print_postings_list>> IN
    {get, prompt_posting_account_identifier \o get}
get_by_journal_command ==
    LET get == <<Call(1, "posting", get_postings)>> IN
    {get, prompt_posting_journal_number \o get}

\* The date is parsed outside of the boundary: it is an error of usage only.
parse_as_of_date == {BadParameter}
trial_balance_command ==
    LET report == <<Call(1, "trial balance", get_trial_balance)>> IN
    {report, <<Parse(0, parse_as_of_date)>> \o report}

-----------------------------------------------------------------------------
(* The command tree *)

\* By name, for each group; a flat command has the single name "".
account_app == [create |-> create_account_command, get |-> get_account_command,
                list |-> list_accounts_command, update |-> update_account_command,
                delete |-> delete_account_command]
journal_app == [create |-> create_journal_command, get |-> get_journal_command,
                list |-> list_journal_command]
posting_app == [post |-> post_command, get_by_account |-> get_by_account_command,
                get_by_journal |-> get_by_journal_command]

Groups == [account |-> account_app, journal |-> journal_app, posting |-> posting_app]
FlatCommands == [trial_balance |-> trial_balance_command]

_known_commands == DOMAIN Groups \cup DOMAIN FlatCommands
=============================================================================
