\* One process after the other: shell sessions and single commands.
CONSTANTS
    None = None
    EngineIds = {e1, e2}
    Injected = {}
    Supplied = Supplied
    Lines <- MCLines
SPECIFICATION FairSpec
INVARIANTS TypeOK OneEngine NothingOutlivesItsConnection CallsAreConnected ClosedAtExit FailuresReportedOnce ExitStatusTruthful CompletionsUnderstood
PROPERTIES ShellSurvives CommandsEnd
