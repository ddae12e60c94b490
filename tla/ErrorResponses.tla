--------------------------- MODULE ErrorResponses ---------------------------
(***************************************************************************)
(* The API's exception handlers: which response and which log line each    *)
(* exception ends in (apps/api, shared/errors).                            *)
(***************************************************************************)
EXTENDS Errors, FiniteSets

\* Failures of FastAPI itself, raised before any router body runs: the
\* request does not fit its schema, or no route takes its path and method.
RequestValidationError(types) == Raised("RequestValidationError", "none", {}, types, NoDelay)
NoSuchRoute == Raised("HTTPException", "none", {}, <<>>, NoDelay)

-----------------------------------------------------------------------------
(* The catalog *)

CatalogCodes == ErrorCode \ {"REQUEST_VALIDATION_ERROR"}

StatusOf(code) ==
    CASE code \in {"VALIDATION_ERROR"} \cup PYDANTIC_CODES \cup (RuleCodes \ ChartCodes) -> 422
      [] code \in LookupCodes -> 404
      [] code \in ConflictCodes -> 409
      [] code = "AUTH_INVALID_CREDENTIALS" -> 401
      [] code = "AUTH_THROTTLED" -> 429
      [] code = "STORAGE_UNAVAILABLE" -> 503
      [] code = "STORAGE_TIMEOUT" -> 504
      [] OTHER -> 500

\* The context keys that the message or the hint of a code refers to.
PlaceholdersOf(code) ==
    CASE code \in {"UNKNOWN_ACCOUNT", "UNKNOWN_JOURNAL_ENTRY"} -> {"identifier"}
      [] code \in ChartCodes \cup {"DUPLICATE_JOURNAL_NUMBER", "JOURNAL_ALREADY_POSTED"} -> {"value"}
      [] OTHER -> {}

DEFAULT_ERROR_ENTRY == [status |-> 500, placeholders |-> {}]
ERROR_CATALOG == [code \in CatalogCodes |->
                    [status |-> StatusOf(code), placeholders |-> PlaceholdersOf(code)]]
EntryOf(code) == IF code \in CatalogCodes THEN ERROR_CATALOG[code] ELSE DEFAULT_ERROR_ENTRY

-----------------------------------------------------------------------------
(* Helpers of the handlers *)

\* A template is filled when the context has every key it refers to, and is
\* left as it is otherwise.
_fill(placeholders, context) == placeholders \subseteq context

\* Faulty variant: the downgraded code is shown.
DowngradedCode(v) == v.code

\* A downgraded violation regains the code its value names.
_resolve_violation_code(v) ==
    IF v.code = "UNKNOWN_ERROR" /\ v.value \in ErrorCode THEN v.value ELSE v.code

_build_field_details(violations) ==
    [i \in DOMAIN violations |-> _resolve_violation_code(violations[i])]

\* A detail takes the texts of its code as they are in the catalog: no context
\* belongs to it, and nothing is filled.
DetailsComplete(details) == \A i \in DOMAIN details : EntryOf(details[i]).placeholders = {}

_throttle_retry_after(exc) ==
    IF "retry_after_seconds" \in exc.context /\ exc.delay \in {"0", "digits"}
    THEN exc.delay ELSE "none"

\* The value of Retry-After, or "none".
_response_headers(exc) ==
    IF exc.code \in StorageCodes THEN "5"
    ELSE IF exc.code = "AUTH_THROTTLED" THEN _throttle_retry_after(exc) ELSE "none"

-----------------------------------------------------------------------------
(* The handlers *)

\* What a client receives: status, whether the body is the standard envelope,
\* the top-level code, the codes of the details, whether every placeholder
\* of the text was filled, and the Retry-After header.
Response(status, code, details, filled, retry) ==
    [status |-> status, envelope |-> TRUE, error_code |-> code, details |-> details,
     filled |-> filled, retry |-> retry]

\* Domain validation, in a service or while a mapper builds a DTO.
_handle_validation_app_error(exc) ==
    LET details == _build_field_details(exc.errors) IN
    Response(EntryOf(exc.code).status, exc.code, details, DetailsComplete(details), "none")
_handle_pydantic_validation_error(exc) ==
    LET details == _build_field_details(get_field_violations(exc.errors)) IN
    Response(EntryOf("VALIDATION_ERROR").status, "REQUEST_VALIDATION_ERROR", details,
             DetailsComplete(details), "none")

\* Any other AppError: the entry of its code, filled from its context.
_handle_app_error(exc) ==
    LET entry == EntryOf(exc.code) IN
    Response(entry.status, exc.code, <<>>, _fill(entry.placeholders, exc.context),
             _response_headers(exc))

\* The request does not fit its schema: FastAPI's own types are passed on.
_handle_request_validation_error(exc) ==
    Response(EntryOf("VALIDATION_ERROR").status, "REQUEST_VALIDATION_ERROR", exc.errors,
             TRUE, "none")

_handle_unexpected_error ==
    Response(DEFAULT_ERROR_ENTRY.status, "UNKNOWN_ERROR", <<>>, TRUE, "none")

\* No handler is registered for HTTPException: FastAPI's own answers, with a
\* body of its own shape, and logs nothing.
BareNotFound == [status |-> 404, envelope |-> FALSE, error_code |-> "none", details |-> <<>>,
                 filled |-> TRUE, retry |-> "none"]

\* The handler is found along the MRO of the exception's class.
Handle(exc) ==
    CASE exc.class = "ValidationAppError" -> _handle_validation_app_error(exc)
      [] exc.class = "AppError" -> _handle_app_error(exc)
      [] exc.class = "ValidationError" -> _handle_pydantic_validation_error(exc)
      [] exc.class = "RequestValidationError" -> _handle_request_validation_error(exc)
      [] exc.class = "HTTPException" -> BareNotFound
      [] OTHER -> _handle_unexpected_error

\* The handlers for particular classes run inside the middleware; the one for
\* Exception runs outside of it.
RunsInside(exc) == exc.class # "Exception"

\* Every handler of this package logs one line; incidents are errors.
Logs(exc) == exc.class # "HTTPException"
LevelOf(status) == IF status >= 500 THEN "ERROR" ELSE "INFO"
=============================================================================
