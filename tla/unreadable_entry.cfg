\* One caller records an entry whose half cents round up.
CONSTANTS
    Cash = Cash
    Sales = Sales
    Bank = Bank
    Bogus = Bogus
    None = None
    Callers = {c1}
    Keys = {Cash, Sales, Bank, Bogus}
    BadKeys = {Bogus}
    Forms = {"title"}
    Codes = {"1000", "4000"}
    Categories = {"ASSET"}
    SubUnits = 4
    Today = 2
    DbToday = 2
    Seeded <- TwoAccounts
    NameInputs <- NoNames
    MaxAccounts = 0
    MaxUpdates = 0
    EntryInputs <- AnyEntries
    MaxJournals = 2
SPECIFICATION Spec
INVARIANTS OnlyAppErrors
