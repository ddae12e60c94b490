\* Two requests in flight while one process starts, serves and stops.
CONSTANTS
    None = None
    EngineIds = {e1}
    Requests = {r1, r2}
SPECIFICATION FairSpec
INVARIANTS TypeOK LogTellsWhatWasSent IdsMatch DetailsNameTheRule MessagesComplete CallsAreConnected ClosedAtExit
PROPERTIES EveryRequestAnswered StopsWhenAsked
