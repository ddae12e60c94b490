------------------------------- MODULE Books -------------------------------
(***************************************************************************)
(* The bookkeeping core as the API and the CLI run it: account, journal    *)
(* and posting calls of several callers, interleaved over one database.    *)
(***************************************************************************)
EXTENDS AccountService, PostingService

vars == <<tables, callVars, accountCallVars, journalCallVars, postingCallVars>>

Init ==
    /\ StorageInit
    /\ CallsInit
    /\ AccountInit
    /\ JournalInit
    /\ PostingInit

\* Every write method checks the actor before any repository access.
RejectBlankActor(c) ==
    /\ pc[c] = "idle"
    /\ Finish(c, "REQUIRED_FIELD", 0)
    /\ UNCHANGED tables

AccountStep(c) == /\ AccountNext(c)
                  /\ UNCHANGED <<journalCallVars, postingCallVars>>
JournalStep(c) == /\ JournalNext(c)
                  /\ UNCHANGED <<accountCallVars, postingCallVars>>
PostingStep(c) == /\ PostingNext(c)
                  /\ UNCHANGED <<accountCallVars, journalCallVars>>
BlankActorStep(c) == /\ RejectBlankActor(c)
                     /\ UNCHANGED <<accountCallVars, journalCallVars, postingCallVars>>

Next == \E c \in Callers : \/ AccountStep(c)
                           \/ JournalStep(c)
                           \/ PostingStep(c)
                           \/ BlankActorStep(c)

Spec == Init /\ [][Next]_vars

-----------------------------------------------------------------------------
(* Types *)

OutcomeCodes ==
    {"NONE", "OK", "RECORDED", "POSTED", "LISTED", "REQUIRED_FIELD",
     "STORAGE_FAILURE", "VALIDATION_ERROR", "ValidationError", "UNKNOWN_ERROR",
     "UNKNOWN_ACCOUNT", "DUPLICATE_ACCOUNT_CODE", "DUPLICATE_ACCOUNT_NAME",
     "ACCOUNT_HAS_POSTINGS", "JOURNAL_NUMBER_CONFLICT",
     "UNKNOWN_JOURNAL_ENTRY", "JOURNAL_ALREADY_POSTED"}

PostingRows ==
    [journal_number : Nat, line_index : Nat, account : CleanNames,
     account_key : LookupKeys, debit : Nat, credit : Nat,
     posting_date : Nat, created_by : Callers]

ExistingAccounts == [code : Codes, name : CleanNames, category : Categories]
ReadEntries == [date : Nat, lines : Seq(Lines)]

TablesOK ==
    /\ accounts \subseteq AccountRows
    /\ account_id \in Nat
    /\ audit_events \in [Codes -> [AuditActions -> Nat]]
    /\ journal_seq \in Nat
    /\ DOMAIN journal_entries \subseteq Nat
    /\ \A n \in DOMAIN journal_entries : journal_entries[n] \in Nat
    /\ DOMAIN journal_lines \subseteq Nat
    /\ \A n \in DOMAIN journal_lines : journal_lines[n] \in Seq(Lines)
    /\ postings \subseteq PostingRows

CallsOK ==
    /\ pc \in [Callers -> {"idle"} \cup AccountPcs \cup JournalPcs \cup PostingPcs]
    /\ outcome \in [Callers -> [code : OutcomeCodes, number : Nat]]

AccountCallsOK ==
    /\ dto \in [Callers -> AccountDtos \cup {None}]
    /\ existing \in [Callers -> ExistingAccounts \cup {None}]
    /\ loaded \in [Callers -> AccountRows \cup {None}]

JournalCallsOK ==
    /\ request \in [Callers -> EntryInputs \cup {None}]
    /\ drawn \in [Callers -> Nat]
    /\ entryRows \in [Callers -> SUBSET Nat]

PostingCallsOK ==
    /\ target \in [Callers -> Nat]
    /\ entry \in [Callers -> ReadEntries \cup {None}]

\* The tables and the calls in progress have the shape the code gives them;
\* in particular no stored name is padded and no stored row is half built.
TypeOK == /\ TablesOK
          /\ CallsOK
          /\ AccountCallsOK
          /\ JournalCallsOK
          /\ PostingCallsOK

-----------------------------------------------------------------------------
(* The ledger *)

\* A journal entry is posted whole and once, whatever calls race to post it:
\* its postings are none, or one per stored line, all by one caller
\* (PostingService.post_journal_entry, PostgresPostingRepo.save_many).
PostedWholeAndOnce ==
    \A n \in {p.journal_number : p \in postings} :
        /\ n \in DOMAIN journal_entries
        /\ \E c \in Callers :
              PostingsOf(n) = DerivedPostings(n, journal_entries[n], LinesOf(n), c)

\* The trial balance balances at every cut-off date, even though callers may
\* submit amounts the NUMERIC(18,2) columns round: an entry that rounding
\* unbalanced is refused when posting reads it back.
TrialBalanceBalances ==
    \A asOf \in {None} \cup 0 .. Today : TrialBalanceIsBalanced(asOf)

\* What a caller was told of its last call is so: "posted" means every
\* posting of the entry is its own, "already posted" is never a false alarm,
\* "recorded" means the entry is stored and nobody else was given its number.
OutcomesTruthful ==
    \A c \in Callers :
        LET n == outcome[c].number
        IN  /\ outcome[c].code = "POSTED" =>
                  /\ PostingsOf(n) # {}
                  /\ \A p \in PostingsOf(n) : p.created_by = c
            /\ outcome[c].code = "JOURNAL_ALREADY_POSTED" => PostingsOf(n) # {}
            /\ outcome[c].code = "RECORDED" =>
                  /\ n \in DOMAIN journal_entries
                  /\ \A d \in Callers \ {c} : outcome[d] # outcome[c]

\* A drawn journal number is fresh until its entry is saved, so the primary
\* key conflict of PostgresJournalRepo.save is unreachable.
DrawnNumbersFresh ==
    \A c \in Callers : pc[c] = "journal.save" =>
        /\ drawn[c] \notin DOMAIN journal_entries
        /\ drawn[c] \in 1 .. journal_seq
        /\ \A d \in Callers \ {c} : pc[d] = "journal.save" => drawn[d] # drawn[c]

\* No pydantic ValidationError crosses the service boundary: what was
\* accepted can be read back, and the chart can always be built.
OnlyAppErrors == \A c \in Callers : outcome[c].code # "ValidationError"

\* The ledger as an observer sees it: recorded entries and whole postings.
RecordedEntries == [n \in DOMAIN journal_entries |-> <<journal_entries[n], LinesOf(n)>>]
PostedEntries == [n \in {p.journal_number : p \in postings} |-> PostingsOf(n)]

Ledger == INSTANCE AbstractLedger WITH recorded <- RecordedEntries,
                                       posted <- PostedEntries

\* Races, failures and retries never show in the ledger: every step of the
\* services records one fresh entry, posts one recorded entry whole, or
\* leaves both as they are.
ImplementsLedger == Ledger!Spec

-----------------------------------------------------------------------------
(* The chart of accounts *)

\* The two UNIQUE constraints, under every interleaving of partial UPDATEs.
ChartKeysUnique ==
    \A a, b \in accounts :
        a.id = b.id \/ a.code = b.code \/ a.name_key = b.name_key => a = b

\* name_key is the lookup key of the name it stands beside.
NameKeysCurrent ==
    \A row \in accounts : row.name_key = account_lookup_key(row.name)

\* The audit trail explains the chart: an account in it was created, and one
\* that is gone was deleted, by an audited call.
AuditExplainsChart ==
    \A code \in Codes :
        LET rows == audit_events[code]
        IN  IF RowsByCode(code) # {} THEN rows["CREATE"] >= 1
                                     ELSE rows["DELETE"] >= rows["CREATE"]

\* An account that a posted entry was recorded against is not deleted.
PostedAccountsKept ==
    \A n \in DOMAIN resolved :
        PostingsOf(n) # {} => \A id \in resolved[n] : \E row \in accounts : row.id = id

\* A field the update input omits keeps its persisted value.
OmittedFieldsRetained ==
    [][\A c \in Callers :
          pc[c] = "update.commit" /\ pc'[c] = "idle" =>
             \A row \in accounts, new \in accounts' :
                row.id = new.id =>
                   /\ dto[c].name = None => new.name = row.name
                   /\ dto[c].category = None => new.category = row.category]_vars
=============================================================================
