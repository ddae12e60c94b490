---------------------------- MODULE ErrorPanels -----------------------------
(***************************************************************************)
(* The CLI's rendering of the same exceptions: which codes its panels show *)
(* and which line it logs (apps/cli, shared/errors, formatters, boundary). *)
(***************************************************************************)
EXTENDS Errors, FiniteSets

\* The keys of the tables of messages and hints: every code but that of the
\* API's request validation.
ERRORS == ErrorCode \ {"REQUEST_VALIDATION_ERROR"}
HINTS == ErrorCode \ {"REQUEST_VALIDATION_ERROR"}

\* A panel shows a code with its message and its hint.
Panel(code) == [code |-> IF code \in ERRORS THEN code ELSE "UNKNOWN_ERROR",
                hint |-> IF code \in HINTS THEN code ELSE "UNKNOWN_ERROR"]

\* One panel per pydantic error, of the table entry its type is a key of.
format_validation_errors(types) == [i \in DOMAIN types |-> Panel(types[i])]

\* One panel for the code of any other service error.
format_app_error(exc) == <<Panel(exc.code)>>

\* A downgraded violation regains the code its value names.
PanelCode(v) == IF v.code = "UNKNOWN_ERROR" /\ v.value \in ERRORS THEN v.value ELSE v.code
format_validation_app_error(exc) ==
    [i \in DOMAIN exc.errors |-> Panel(PanelCode(exc.errors[i]))]

\* The panels of an exception that the boundary catches.
PanelsOf(exc) ==
    CASE exc.class = "ValidationAppError" -> format_validation_app_error(exc)
      [] exc.class = "AppError" -> format_app_error(exc)
      [] OTHER -> format_validation_errors(exc.errors)

\* The code of the one line that is logged, and its level.
LoggedCode(exc) == IF exc.class = "ValidationError" THEN "VALIDATION_ERROR" ELSE exc.code
_ERROR_LEVEL_CODES == StorageCodes \cup {"UNKNOWN_ERROR"}
_log_failure(exc) ==
    [code |-> LoggedCode(exc),
     level |-> IF LoggedCode(exc) \in _ERROR_LEVEL_CODES THEN "ERROR" ELSE "INFO"]

\* Faulty variant: only the service layer's own exceptions are caught.
CaughtServiceErrors(exc) == exc.class \in {"ValidationAppError", "AppError"}

\* What error_boundary renders.
Caught(exc) == exc.class \in {"ValidationAppError", "AppError", "ValidationError"}

CodesShown(exc) == [i \in DOMAIN PanelsOf(exc) |-> PanelsOf(exc)[i].code]
=============================================================================
