------------------------------- MODULE Errors -------------------------------
(***************************************************************************)
(* The error contract of the services (packages/shared, shared/errors):    *)
(* the codes, the exceptions that cross a service boundary, and the        *)
(* translation of a pydantic ValidationError into field violations.        *)
(* Texts are left out; what an adapter can tell apart is kept.             *)
(***************************************************************************)
EXTENDS Naturals, Sequences

\* The types of pydantic's own validators that the translation keeps.
PYDANTIC_CODES ==
    {"REQUIRED_FIELD", "INVALID_NUMBER", "INVALID_DECIMAL", "STRING_TYPE",
     "STRING_TOO_SHORT", "STRING_TOO_LONG", "TOO_SHORT", "TOO_LONG",
     "GREATER_THAN", "GREATER_THAN_EQUAL", "LESS_THAN_EQUAL"}

\* The codes that the domain validators raise as pydantic error types; those of
\* the chart are raised by the repositories too, as conflicts.
ChartCodes == {"DUPLICATE_ACCOUNT_CODE", "DUPLICATE_ACCOUNT_NAME"}
RuleCodes ==
    {"FUTURE_DATE", "PAST_DATE", "INVALID_ACCOUNT_NAME", "INVALID_ACCOUNT_CODE",
     "INVALID_LINE_AMOUNTS", "UNBALANCED_ENTRY", "INVALID_EMAIL"} \cup ChartCodes

LookupCodes == {"UNKNOWN_ACCOUNT", "UNKNOWN_JOURNAL_ENTRY", "UNKNOWN_USER"}
ConflictCodes == {"ACCOUNT_HAS_POSTINGS", "JOURNAL_ALREADY_POSTED", "DUPLICATE_JOURNAL_NUMBER",
                  "DUPLICATE_USER_EMAIL"} \cup ChartCodes
StorageCodes == {"STORAGE_UNAVAILABLE", "STORAGE_TIMEOUT"}
AuthCodes == {"AUTH_INVALID_CREDENTIALS", "AUTH_THROTTLED"}
GenericCodes == {"UNKNOWN_ERROR", "VALIDATION_ERROR", "REQUEST_VALIDATION_ERROR"}

ErrorCode == GenericCodes \cup PYDANTIC_CODES \cup RuleCodes \cup LookupCodes
                \cup ConflictCodes \cup StorageCodes \cup AuthCodes

\* The type of a pydantic error: a code, or a type that is no code at all
\* ("value_error", "finite_number", ...).
ForeignType == "value_error"
PydanticTypes == PYDANTIC_CODES \cup RuleCodes \cup {ForeignType}

\* What a field violation carries beside its code: the rejected input as text,
\* or the pydantic type of the error.
RejectedInput == "rejected input"

FieldViolation(code, value) == [code |-> code, value |-> value]
FieldViolations == [code : ErrorCode, value : PydanticTypes \cup {RejectedInput}]

\* One violation per pydantic error, in order.  The types of PYDANTIC_CODES
\* keep their code; any other becomes UNKNOWN_ERROR with the type as value.
get_field_violations(types) ==
    [i \in DOMAIN types |->
        IF types[i] \in PYDANTIC_CODES
        THEN FieldViolation(types[i], RejectedInput)
        ELSE FieldViolation("UNKNOWN_ERROR", types[i])]

-----------------------------------------------------------------------------
(* Exceptions *)

\* An exception: its class, and of its contents the code, the keys of its
\* context, the violations or pydantic types, and the delay.
Raised(class, code, context, errors, delay) ==
    [class |-> class, code |-> code, context |-> context, errors |-> errors, delay |-> delay]

NoDelay == "none"
AppError(code, context) == Raised("AppError", code, context, <<>>, NoDelay)

not_found(code) == AppError(code, {"resource", "identifier"})

\* Faulty variant: a conflict does not name the value.
ConflictWithoutValue(code) == AppError(code, {"resource", "field"})

conflict(code) == AppError(code, {"resource", "field", "value"})
unknown == AppError("UNKNOWN_ERROR", {})
storage_unavailable == AppError("STORAGE_UNAVAILABLE", {})
storage_timeout == AppError("STORAGE_TIMEOUT", {})

\* The delay is digits, clamped at zero: never malformed.
throttled(seconds) ==
    Raised("AppError", "AUTH_THROTTLED", {"retry_after_seconds"}, <<>>,
           IF seconds < 0 THEN "0" ELSE "digits")

validation(types) ==
    Raised("ValidationAppError", "VALIDATION_ERROR", {}, get_field_violations(types), NoDelay)

\* A pydantic ValidationError carries types, not codes; any other exception
\* carries nothing an adapter may show.
ValidationError(types) == Raised("ValidationError", "none", {}, types, NoDelay)
Unexpected == Raised("Exception", "none", {}, <<>>, NoDelay)

IsAppError(exc) == exc.class \in {"AppError", "ValidationAppError"}

\* Storage failures that any call may end in.
StorageErrors == {storage_unavailable, storage_timeout, unknown}
=============================================================================
