\* Two concurrent renames of one account.
CONSTANTS
    Cash = Cash
    Sales = Sales
    Bank = Bank
    Bogus = Bogus
    None = None
    Callers = {c1, c2}
    Keys = {Cash, Sales, Bank, Bogus}
    BadKeys = {Bogus}
    Forms = {"title", "upper"}
    Codes = {"1000", "4000"}
    Categories = {"ASSET"}
    SubUnits = 4
    Today = 2
    DbToday = 2
    Seeded <- OneAccount
    NameInputs <- Spellings
    MaxAccounts = 0
    MaxUpdates = 2
    EntryInputs <- OneEntry
    MaxJournals = 0
SPECIFICATION Spec
SYMMETRY Symmetry
INVARIANTS NameKeysCurrent
