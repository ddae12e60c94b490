----------------------------- MODULE Connection -----------------------------
(***************************************************************************)
(* The connection of one process to PostgreSQL (packages/storage-postgres, *)
(* shared/connection): an engine is created, checked with SELECT 1, handed *)
(* out, and disposed.  Only engines that a process still holds are told    *)
(* apart, so that ids may be used again.                                   *)
(***************************************************************************)
EXTENDS Errors

CONSTANTS EngineIds,  \* ids of engines
          None        \* no engine

ASSUME ConnectionAssumption == None \notin EngineIds

VARIABLES
    engines,    \* engines created and not disposed
    connecting, \* those of them whose check is in progress
    abandoned   \* engines left behind by a check that broke (history)

connectionVars == <<engines, connecting, abandoned>>

ConnectionInit == /\ engines = {}
                  /\ connecting = {}
                  /\ abandoned = {}

\* connect() up to its first await: create_async_engine does no I/O.
BeginConnect(e) ==
    /\ e \in EngineIds \ engines
    /\ engines' = engines \cup {e}
    /\ connecting' = connecting \cup {e}
    /\ UNCHANGED abandoned

\* SELECT 1 succeeds: the caller gets the engine.
ConnectSucceeds(e) ==
    /\ e \in connecting
    /\ connecting' = connecting \ {e}
    /\ UNCHANGED <<engines, abandoned>>

\* SELECT 1 ends in an OperationalError: the engine is disposed, and a timeout
\* anywhere in the chain of causes tells the two codes apart.
_is_timeout(causes) == "timeout" \in causes
ConnectError(causes) == IF _is_timeout(causes) THEN storage_timeout ELSE storage_unavailable
Causes == {{}, {"refused"}, {"timeout"}, {"driver", "timeout"}}
ConnectErrors == {ConnectError(c) : c \in Causes}

\* Faulty variant: the engine of a failed check is left open.
FailWithoutDispose(e) ==
    /\ e \in connecting
    /\ connecting' = connecting \ {e}
    /\ UNCHANGED <<engines, abandoned>>

\* The check fails: the engine is disposed before the error is raised.
ConnectFails(e) ==
    /\ e \in connecting
    /\ engines' = engines \ {e}
    /\ connecting' = connecting \ {e}
    /\ UNCHANGED abandoned

\* SELECT 1 ends in any other exception, cancellation included: it passes
\* connect() as it is, and the engine stays.
Break(es) ==
    /\ connecting' = connecting \ es
    /\ abandoned' = abandoned \cup es
    /\ UNCHANGED engines
ConnectBreaks(e) == e \in connecting /\ Break({e})

\* disconnect(): the engine is disposed.
Disconnect(e) == /\ engines' = engines \ {e}
                 /\ UNCHANGED <<connecting, abandoned>>
=============================================================================
