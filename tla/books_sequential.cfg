\* One caller and every operation, one call at a time.
CONSTANTS
    Cash = Cash
    Sales = Sales
    Bank = Bank
    Bogus = Bogus
    None = None
    Callers = {c1}
    Keys = {Cash, Sales, Bank, Bogus}
    BadKeys = {Bogus}
    Forms = {"title", "upper"}
    Codes = {"1000", "4000"}
    Categories = {"ASSET", "EXPENSE"}
    SubUnits = 4
    Today = 2
    DbToday = 2
    Seeded <- OneAccount
    NameInputs <- Spellings
    MaxAccounts = 3
    MaxUpdates = 2
    EntryInputs <- OneEntry
    MaxJournals = 1
SPECIFICATION Spec
INVARIANTS TypeOK NameKeysCurrent
PROPERTIES OmittedFieldsRetained
