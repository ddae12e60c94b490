\* Two callers: Ann signing in at home, failed and successful logins to her account from elsewhere.
CONSTANTS
    Ann = Ann
    Bob = Bob
    Nobody = Nobody
    TooLong = TooLong
    Right = Right
    Wrong = Wrong
    Short = Short
    Home = Home
    Away = Away
    Unknown = Unknown
    None = None
    Blank = Blank
    Callers = {c1, c2}
    EmailKeys = {Ann, Bob, Nobody, TooLong}
    LongEmails = {TooLong}
    IllFormedEmails = {TooLong}
    Secrets = {Right, Wrong, Short, Blank}
    LongSecrets = {}
    UnacceptableSecrets = {Blank, Short}
    Ips = {Home, Away, Unknown}
    UnknownIp = Unknown
    AttemptIds = {1, 2, 3, 4}
    Window = 2
    MaxDelay = 1
    MaxFailures = 2
    MaxConcurrency = 1
    SeededUsers <- AnnCurrent
    LoginInputs <- HomeAndAway
    RegisterInputs <- NoRegistrations
    Switchable = {}
SPECIFICATION Spec
INVARIANTS ThrottleBound OthersUnaffected
PROPERTIES ForgetsOnlyItsOwn
SYMMETRY Symmetry
