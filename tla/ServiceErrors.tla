---------------------------- MODULE ServiceErrors ---------------------------
(***************************************************************************)
(* What the calls of the bookkeeping services may raise (packages/core), a *)
(* set of exceptions by call.  The actor that the adapters pass is fixed,  *)
(* so it is never rejected as blank.                                       *)
(***************************************************************************)
EXTENDS Errors

\* Any service call may end in these: a storage failure, or an exception
\* nobody translates.
Always == StorageErrors \cup {Unexpected}

create_account ==
    {conflict("DUPLICATE_ACCOUNT_CODE"), conflict("DUPLICATE_ACCOUNT_NAME"),
     validation(<<"INVALID_ACCOUNT_CODE", "INVALID_ACCOUNT_NAME">>)}
update_account ==
    {not_found("UNKNOWN_ACCOUNT"), conflict("DUPLICATE_ACCOUNT_NAME"),
     validation(<<"INVALID_ACCOUNT_NAME">>)}
get_account == {not_found("UNKNOWN_ACCOUNT")}
list_accounts == {}
delete_account == {not_found("UNKNOWN_ACCOUNT"), conflict("ACCOUNT_HAS_POSTINGS")}

\* An entry that no longer passes the validators cannot be read back, and the
\* repository lets the ValidationError through.
Unreadable == ValidationError(<<"UNBALANCED_ENTRY">>)

\* Two accounts of one name make no chart: the ValidationError of get_chart()
\* passes its callers as it is.
UnreadableChart == ValidationError(<<"DUPLICATE_ACCOUNT_NAME">>)

\* PostgresJournalRepo has no code for a taken journal number: it raises
\* UNKNOWN_ERROR with the context of a conflict.
create_journal_entry ==
    {not_found("UNKNOWN_ACCOUNT"), conflict("UNKNOWN_ERROR"),
     validation(<<"INVALID_LINE_AMOUNTS", ForeignType>>), validation(<<"FUTURE_DATE">>),
     UnreadableChart}
get_journal_entry == {not_found("UNKNOWN_JOURNAL_ENTRY"), Unreadable}
list_journal_entries == {Unreadable}

post_journal_entry ==
    {not_found("UNKNOWN_JOURNAL_ENTRY"), conflict("JOURNAL_ALREADY_POSTED"), Unreadable}
get_postings == {}
get_trial_balance == {}
=============================================================================
