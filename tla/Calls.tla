------------------------------- MODULE Calls -------------------------------
(***************************************************************************)
(* The callers of the services: API requests and CLI commands, each        *)
(* running one service call at a time.  A service method is a coroutine;   *)
(* every repository call it awaits opens its own session, so the steps of  *)
(* concurrent calls interleave between any two awaits.  pc[c] names the    *)
(* repository statement caller c is about to execute.                      *)
(***************************************************************************)
EXTENDS Naturals

CONSTANT Callers

VARIABLES
    pc,        \* the statement each caller is about to execute
    outcome    \* what the last call of each caller ended with

callVars == <<pc, outcome>>

NoOutcome == [code |-> "NONE", number |-> 0]

\* Caller c makes a call, whose first statement is first.
Begin(c, first) ==
    /\ pc[c] = "idle"
    /\ pc' = [pc EXCEPT ![c] = first]
    /\ outcome' = [outcome EXCEPT ![c] = NoOutcome]

\* The call of c goes on with the statement next.
Continue(c, next) ==
    /\ pc' = [pc EXCEPT ![c] = next]
    /\ UNCHANGED outcome

\* The call of c ends: with "OK", or by raising the error code.
Finish(c, code, number) ==
    /\ pc' = [pc EXCEPT ![c] = "idle"]
    /\ outcome' = [outcome EXCEPT ![c] = [code |-> code, number |-> number]]

\* What the caller learns of a commit: its result, or, when the connection
\* fails or times out after the server has committed, a storage failure.
CommitReports == {"OK", "STORAGE_FAILURE"}

CallsInit ==
    /\ pc = [c \in Callers |-> "idle"]
    /\ outcome = [c \in Callers |-> NoOutcome]
=============================================================================
