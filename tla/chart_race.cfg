\* Two callers whose renames leave a lookup key stale.
CONSTANTS
    Cash = Cash
    Sales = Sales
    Bank = Bank
    Bogus = Bogus
    None = None
    Callers = {c1, c2}
    Keys = {Cash, Sales, Bank}
    BadKeys = {}
    Forms = {"title", "upper"}
    Codes = {"1000", "4000"}
    Categories = {"ASSET"}
    SubUnits = 4
    Today = 2
    DbToday = 2
    Seeded <- OneAccount
    NameInputs <- PaddedAndBank
    MaxAccounts = 2
    MaxUpdates = 1
    EntryInputs <- OneEntry
    MaxJournals = 1
SPECIFICATION Spec
SYMMETRY Symmetry
INVARIANTS AuditExplainsChart ChartKeysUnique
