------------------------------ MODULE Storage ------------------------------
(***************************************************************************)
(* The PostgreSQL schema of trutina.storage_postgres: the tables the       *)
(* repositories read and write, the conversions their columns perform and  *)
(* the constraints the database enforces.                                  *)
(*                                                                         *)
(* Names are abstracted to what the program compares.  A name is a record: *)
(* "key" is what str.casefold() leaves of it, "form" the spelling that     *)
(* casefold() erases, "padded" whether white space surrounds it.  Names    *)
(* over BadKeys do not match ACCOUNT_NAME_PATTERN.                         *)
(*                                                                         *)
(* Amounts are natural numbers of sub-units, SubUnits of them to the cent: *)
(* the DTOs accept a Decimal of any precision, the columns keep cents.     *)
(***************************************************************************)
EXTENDS Naturals, Sequences, FiniteSets, Functions

CONSTANTS
    Keys, BadKeys, Forms,   \* what account names are made of
    Codes, Categories,      \* account codes, account categories
    SubUnits,               \* sub-units of one cent
    Seeded,                 \* the accounts in the database at the start
    Today,                  \* datetime.now(), in days since 2020-01-01
    DbToday,                \* now() in the time zone of the database session
    None                    \* Python's None

VARIABLES
    accounts,          \* set of account rows
    account_id,        \* last value of the accounts.id identity
    audit_events,      \* number of audit rows per account code and action
    journal_entries,   \* journal_number -> posting_date
    journal_lines,     \* journal_number -> sequence of lines
    journal_seq,       \* last value drawn from the journal_number sequence
    postings           \* set of posting rows

accountTables == <<accounts, account_id, audit_events>>
journalTables == <<journal_entries, journal_lines, journal_seq>>
tables == <<accountTables, journalTables, postings>>

-----------------------------------------------------------------------------
(* Names *)

Names == [key : Keys, form : Forms, padded : BOOLEAN]

\* str.casefold() folds the case; it does not strip.
account_lookup_key(name) == [key |-> name.key, padded |-> name.padded]
LookupKeys == [key : Keys, padded : BOOLEAN]

\* Faulty variant: no strip().
UnstrippedName(name) == IF name.key \in BadKeys THEN None ELSE name

\* value.strip(), then the pattern: None when the name is not acceptable.
clean_account_name(name) ==
    IF name.key \in BadKeys THEN None ELSE [name EXCEPT !.padded = FALSE]

CleanNames == [key : Keys \ BadKeys, form : Forms, padded : {FALSE}]

-----------------------------------------------------------------------------
(* Amounts *)

\* What a NUMERIC(18,2) column keeps of a Decimal: the nearest cent, ties
\* away from zero.
Numeric18_2(amount) == SubUnits * ((2 * amount + SubUnits) \div (2 * SubUnits))

is_valid_line_amounts(debit, credit) == (debit > 0) # (credit > 0)

Lines == [account : CleanNames, debit : Nat, credit : Nat]

StoredLine(line) ==
    [line EXCEPT !.debit = Numeric18_2(@), !.credit = Numeric18_2(@)]
StoredLines(lines) == [i \in DOMAIN lines |-> StoredLine(lines[i])]

TotalDebits(lines) == SumFunction([i \in DOMAIN lines |-> lines[i].debit])
TotalCredits(lines) == SumFunction([i \in DOMAIN lines |-> lines[i].credit])
IsBalanced(lines) == TotalDebits(lines) = TotalCredits(lines)

\* ck_..._exactly_one_side, on a stored line.
ExactlyOneSide(line) ==
    \/ line.debit > 0 /\ line.credit = 0
    \/ line.credit > 0 /\ line.debit = 0

\* ck_..._posting_date_range, on a date the application took for its own.
InDateRange(date) == date > 0 /\ date <= DbToday

\* Faulty variant: the totals are not compared.
OneSidedEntry(date, lines) ==
    /\ date > 0 /\ date <= Today
    /\ Len(lines) >= 2
    /\ \A i \in DOMAIN lines : is_valid_line_amounts(lines[i].debit, lines[i].credit)

\* The validators of JournalEntry and JournalLine: run when an entry is
\* created and again by _to_domain() on every read.
ValidEntry(date, lines) ==
    /\ date > 0 /\ date <= Today
    /\ Len(lines) >= 2
    /\ \A i \in DOMAIN lines : is_valid_line_amounts(lines[i].debit, lines[i].credit)
    /\ IsBalanced(lines)

-----------------------------------------------------------------------------
(* Rows *)

AccountRows ==
    [id : Nat, code : Codes, name : CleanNames, name_key : LookupKeys,
     category : Categories]

AuditActions == {"CREATE", "UPDATE", "DELETE"}

\* Faulty variant: deletions leave no audit row.
UnauditedDelete(action, code) ==
    IF action = "DELETE" THEN audit_events
    ELSE [audit_events EXCEPT ![code][action] = @ + 1]

\* One more audit row, added to the transaction of the account write.
Audited(action, code) ==
    [audit_events EXCEPT ![code][action] = @ + 1]

\* SELECT ... FROM accounts WHERE code = ...
RowsByCode(code) == {row \in accounts : row.code = code}
RowByCode(code) == IF RowsByCode(code) = {} THEN None
                   ELSE CHOOSE row \in RowsByCode(code) : TRUE
exists_by_code(code) == RowsByCode(code) # {}
exists_by_name(name) ==
    \E row \in accounts : row.name_key = account_lookup_key(name)

\* Row-by-row table update with one more key.
Put(f, k, v) == [x \in DOMAIN f \cup {k} |-> IF x = k THEN v ELSE f[x]]

PostingsOf(number) == {p \in postings : p.journal_number = number}
has_postings(name) == \E p \in postings : p.account_key = account_lookup_key(name)

-----------------------------------------------------------------------------
(* The database at the start: migrated, with a well-formed chart *)

ASSUME StorageAssumption ==
    /\ SubUnits \in Nat \ {0}
    /\ Today \in Nat
    /\ DbToday \in Nat
    /\ BadKeys \subseteq Keys
    /\ None \notin Codes \cup Categories \cup Names
    /\ Seeded \subseteq AccountRows
    /\ IsFiniteSet(Seeded)
    /\ \A row \in Seeded :
          /\ row.id \in 1 .. Cardinality(Seeded)
          /\ row.name_key = account_lookup_key(row.name)
    /\ \A a, b \in Seeded :
          a.id = b.id \/ a.code = b.code \/ a.name_key = b.name_key => a = b

StorageInit ==
    /\ accounts = Seeded
    /\ account_id = Cardinality(Seeded)
    /\ audit_events = [code \in Codes |-> [action \in AuditActions |->
          IF action = "CREATE" /\ \E row \in Seeded : row.code = code THEN 1 ELSE 0]]
    /\ journal_entries = [n \in {} |-> Today]
    /\ journal_lines = [n \in {} |-> <<>>]
    /\ journal_seq = 0
    /\ postings = {}
=============================================================================
