----------------------------- MODULE ApiRoutes ------------------------------
(***************************************************************************)
(* The routes of the API (apps/api, features): what each takes, what its   *)
(* mapper builds, which service it calls and what that call may raise.     *)
(***************************************************************************)
EXTENDS ErrorResponses, ServiceErrors

\* A route: the errors its schema can find in a request, those its mapper can
\* find in a request that fits the schema, the service, what the service may
\* raise, and the status of success.
Route(schema, mapper, service, raises, status) ==
    [schema |-> schema, mapper |-> mapper, service |-> service,
     raises |-> raises, status |-> status]

-----------------------------------------------------------------------------
(* Accounts *)

\* The types of the request bodies' constraints.
CreateAccountRequest == {"REQUIRED_FIELD", "STRING_TOO_SHORT", "STRING_TOO_LONG"}
UpdateAccountRequest == {"STRING_TOO_SHORT", "STRING_TOO_LONG"}

\* CreateAccountInput repeats the constraints of the body, so building it from
\* a body that fits cannot fail; the code of an update comes from the path,
\* which has none, and only UpdateAccountInput limits its length.
to_create_account_input == {}
to_update_account_input == {"STRING_TOO_LONG"}

AccountRoutes ==
    [create_account |-> Route(CreateAccountRequest, to_create_account_input, "account",
                              create_account, 201),
     list_accounts |-> Route({}, {}, "account", list_accounts, 200),
     get_account |-> Route({}, {}, "account", get_account, 200),
     update_account |-> Route(UpdateAccountRequest, to_update_account_input, "account",
                              update_account, 200),
     delete_account |-> Route({}, {}, "account", delete_account, 200)]

-----------------------------------------------------------------------------
(* The journal *)

CreateJournalEntryRequest == {"REQUIRED_FIELD", "TOO_SHORT", "GREATER_THAN_EQUAL"}
JournalNumberPath == {"INVALID_NUMBER"}
to_create_journal_input == {}

JournalRoutes ==
    [create_journal_entry |-> Route(CreateJournalEntryRequest, to_create_journal_input,
                                    "journal", create_journal_entry, 201),
     list_journal_entries |-> Route({}, {}, "journal", list_journal_entries, 200),
     get_journal_entry |-> Route(JournalNumberPath, {}, "journal", get_journal_entry, 200)]

-----------------------------------------------------------------------------
(* Postings, the trial balance and the system *)

PositiveNumberPath == {"INVALID_NUMBER", "GREATER_THAN"}
AccountPath == {"STRING_TOO_SHORT", "STRING_TOO_LONG"}
PostingRoutes ==
    [post_journal_entry |-> Route(PositiveNumberPath, {}, "posting", post_journal_entry, 201),
     get_postings_by_account |-> Route(AccountPath, {}, "posting", get_postings, 200),
     get_postings_by_journal_number |->
         Route(PositiveNumberPath, {}, "posting", get_postings, 200)]

AsOfQuery == {ForeignType}
TrialBalanceRoutes ==
    [get_trial_balance |-> Route(AsOfQuery, {}, "trial balance", get_trial_balance, 200)]

\* Root and health call no service.
NoService == "no service"
SystemRoutes == [root |-> Route({}, {}, NoService, {}, 200),
                 health |-> Route({}, {}, NoService, {}, 200)]

Routers == {AccountRoutes, JournalRoutes, PostingRoutes, TrialBalanceRoutes, SystemRoutes}
Routes == UNION {DOMAIN router : router \in Routers}
RouteTable == [to \in Routes |-> (CHOOSE router \in Routers : to \in DOMAIN router)[to]]

\* A successful answer: the standard envelope around the presented result.
Success(status) == [status |-> status, envelope |-> TRUE, error_code |-> "none",
                    details |-> <<>>, filled |-> TRUE, retry |-> "none"]
=============================================================================
