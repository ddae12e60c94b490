\* Two callers of one client that keeps signing in to an account that may get registered, under fairness.
CONSTANTS
    Ann = Ann
    Bob = Bob
    Nobody = Nobody
    TooLong = TooLong
    Right = Right
    Wrong = Wrong
    Short = Short
    Home = Home
    Away = Away
    Unknown = Unknown
    None = None
    Blank = Blank
    Callers = {c1, c2}
    EmailKeys = {Bob}
    LongEmails = {}
    IllFormedEmails = {}
    Secrets = {Right, Wrong, Short, Blank}
    LongSecrets = {}
    UnacceptableSecrets = {Blank, Short}
    Ips = {Away, Unknown}
    UnknownIp = Unknown
    AttemptIds = {1, 2, 3, 4}
    Window = 1
    MaxDelay = 1
    MaxFailures = 1
    MaxConcurrency = 1
    SeededUsers <- NoUsers
    LoginInputs <- Impatient
    RegisterInputs <- BobOnce
    Switchable = {}
SPECIFICATION FairSpec
PROPERTIES EveryCallEnds ThrottleLifts
