\* Two callers deleting accounts while entries against them are recorded and posted.
CONSTANTS
    Cash = Cash
    Sales = Sales
    Bank = Bank
    Bogus = Bogus
    None = None
    Callers = {c1, c2}
    Keys = {Cash, Sales, Bank}
    BadKeys = {}
    Forms = {"title"}
    Codes = {"1000", "4000"}
    Categories = {"ASSET"}
    SubUnits = 4
    Today = 2
    DbToday = 2
    Seeded <- TwoAccounts
    NameInputs <- NoNames
    MaxAccounts = 1
    MaxUpdates = 0
    EntryInputs <- OneEntry
    MaxJournals = 2
SPECIFICATION Spec
SYMMETRY Symmetry
INVARIANTS OnlyAppErrors
