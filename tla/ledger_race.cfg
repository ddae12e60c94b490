\* Two callers recording, listing and posting against a fixed chart: amounts
\* finer than a cent, in a time zone ahead of the database's.
CONSTANTS
    Cash = Cash
    Sales = Sales
    Bank = Bank
    Bogus = Bogus
    None = None
    Callers = {c1, c2}
    Keys = {Cash, Sales, Bank, Bogus}
    BadKeys = {Bogus}
    Forms = {"title"}
    Codes = {"1000", "4000"}
    Categories = {"ASSET"}
    SubUnits = 4
    Today = 2
    DbToday = 1
    Seeded <- TwoAccounts
    NameInputs <- NoNames
    MaxAccounts = 0
    MaxUpdates = 0
    EntryInputs <- SkewedEntries
    MaxJournals = 2
SPECIFICATION Spec
INVARIANTS PostedWholeAndOnce OutcomesTruthful DrawnNumbersFresh TrialBalanceBalances
PROPERTIES ImplementsLedger
