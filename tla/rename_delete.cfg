\* One caller posts against an account, renames it and deletes it.
CONSTANTS
    Cash = Cash
    Sales = Sales
    Bank = Bank
    Bogus = Bogus
    None = None
    Callers = {c1}
    Keys = {Cash, Sales, Bank, Bogus}
    BadKeys = {Bogus}
    Forms = {"title"}
    Codes = {"1000", "4000"}
    Categories = {"ASSET"}
    SubUnits = 4
    Today = 2
    DbToday = 2
    Seeded <- TwoAccounts
    NameInputs <- Renames
    MaxAccounts = 2
    MaxUpdates = 1
    EntryInputs <- OneEntry
    MaxJournals = 1
SPECIFICATION Spec
INVARIANTS PostedAccountsKept
