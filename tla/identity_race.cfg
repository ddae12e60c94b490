\* Registrations and logins racing on one account while users are disabled and enabled.
CONSTANTS
    Ann = Ann
    Bob = Bob
    Nobody = Nobody
    TooLong = TooLong
    Right = Right
    Wrong = Wrong
    Short = Short
    Home = Home
    Away = Away
    Unknown = Unknown
    None = None
    Blank = Blank
    Callers = {c1, c2}
    EmailKeys = {Ann, Bob, Nobody, TooLong}
    LongEmails = {TooLong}
    IllFormedEmails = {TooLong}
    Secrets = {Right, Wrong, Short, Blank}
    LongSecrets = {}
    UnacceptableSecrets = {Blank, Short}
    Ips = {Home, Away, Unknown}
    UnknownIp = Unknown
    AttemptIds = {1, 2, 3}
    Window = 1
    MaxDelay = 1
    MaxFailures = 1
    MaxConcurrency = 1
    SeededUsers <- AnnOutdated
    LoginInputs <- AnnAtHome
    RegisterInputs <- BobTwice
    Switchable = {Ann}
SPECIFICATION Spec
INVARIANTS TypeOK SlotsAccounted RegistrationsTruthful
PROPERTIES LoginsGenuine PasswordsStand
SYMMETRY Symmetry
