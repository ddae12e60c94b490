--------------------------- MODULE JournalService ---------------------------
(***************************************************************************)
(* JournalService over PostgresJournalRepo: recording a journal entry and  *)
(* listing the entries.  (get_journal_entry is the first half of posting:  *)
(* module PostingService.)                                                 *)
(***************************************************************************)
EXTENDS Storage, Calls

CONSTANTS
    EntryInputs,   \* the CreateJournalInput values callers submit
    MaxJournals    \* bound on the journal numbers drawn

LineInputs == [account : Names, debit : Nat, credit : Nat]

ASSUME JournalAssumption ==
    /\ \A input \in EntryInputs :
          /\ input.date \in Nat
          /\ input.lines \in Seq(LineInputs)
    /\ MaxJournals \in Nat

VARIABLES
    request,    \* the CreateJournalInput of the call in progress
    drawn,      \* the journal number the call has drawn
    entryRows,  \* the journal_entries rows list_entries() has read
    resolved    \* history: per entry, ids of the accounts its lines named when saved

journalCallVars == <<request, drawn, entryRows, resolved>>

ForgetJournalCall(c) ==
    /\ request' = [request EXCEPT ![c] = None]
    /\ drawn' = [drawn EXCEPT ![c] = 0]
    /\ entryRows' = [entryRows EXCEPT ![c] = {}]

-----------------------------------------------------------------------------
(* create_journal_entry *)

BeginJournal(c) ==
    /\ Begin(c, "journal.chart")
    /\ journal_seq < MaxJournals
    /\ \E i \in EntryInputs : request' = [request EXCEPT ![c] = i]
    /\ UNCHANGED <<tables, drawn, entryRows, resolved>>

\* ChartOfAccounts refuses two accounts with one code or one canonical name.
ChartIsValid(chart) ==
    \A a, b \in chart :
        \/ a = b
        \/ /\ a.code # b.code
           /\ account_lookup_key(a.name) # account_lookup_key(b.name)

\* chart.get_by_name(), on the raw account reference of a line.
ResolvesIn(chart, name) ==
    \E row \in chart : account_lookup_key(row.name) = account_lookup_key(name)

\* _validate_accounts(): every reference against one snapshot of the chart.
JournalValidateAccounts(c) ==
    LET lines == request[c].lines
        known == \A i \in DOMAIN lines : ResolvesIn(accounts, lines[i].account)
    IN  /\ pc[c] = "journal.chart"
        /\ \/ /\ ~ChartIsValid(accounts)
              /\ Finish(c, "ValidationError", 0)
              /\ ForgetJournalCall(c)
           \/ /\ ChartIsValid(accounts) /\ ~known
              /\ Finish(c, "UNKNOWN_ACCOUNT", 0)
              /\ ForgetJournalCall(c)
           \/ /\ ChartIsValid(accounts) /\ known
              /\ Continue(c, "journal.number")
              /\ UNCHANGED <<request, drawn, entryRows>>
        /\ UNCHANGED <<tables, resolved>>

\* _build_lines(): each JournalLine strips its account name.
BuildLines(lines) ==
    [i \in DOMAIN lines |-> [lines[i] EXCEPT !.account = clean_account_name(@)]]

BuildsEntry(i) ==
    /\ \A k \in DOMAIN i.lines : clean_account_name(i.lines[k].account) # None
    /\ ValidEntry(i.date, i.lines)

\* nextval(): no two calls get one number, and nothing gives a number back.
\* Faulty variant: MAX + 1 over the saved entries, not a sequence.
UnusedNumber == Cardinality(DOMAIN journal_entries) + 1

next_journal_number == journal_seq + 1

\* The number is drawn first, and lost when its answer is; the entry is
\* validated after it.
JournalNumber(c) ==
    /\ pc[c] = "journal.number"
    /\ journal_seq' = next_journal_number
    /\ \/ /\ Finish(c, "STORAGE_FAILURE", 0)
          /\ ForgetJournalCall(c)
       \/ /\ ~BuildsEntry(request[c])
          /\ Finish(c, "VALIDATION_ERROR", 0)
          /\ ForgetJournalCall(c)
       \/ /\ BuildsEntry(request[c])
          /\ drawn' = [drawn EXCEPT ![c] = next_journal_number]
          /\ Continue(c, "journal.save")
          /\ UNCHANGED <<request, entryRows>>
    /\ UNCHANGED <<accountTables, journal_entries, journal_lines, postings, resolved>>

\* The primary key, the CHECK on the date, or the one on a line as its
\* columns will hold it.
SaveViolatesConstraint(n, date, lines) ==
    \/ n \in DOMAIN journal_entries
    \/ ~InDateRange(date)
    \/ \E i \in DOMAIN lines : ~ExactlyOneSide(lines[i])

\* One transaction for the entry and its lines; any IntegrityError is
\* reported as a conflict on journal_number.
JournalSave(c) ==
    LET lines == StoredLines(BuildLines(request[c].lines))
        charged == {row.id : row \in {r \in accounts : \E i \in DOMAIN lines :
                       account_lookup_key(r.name) = account_lookup_key(lines[i].account)}}
    IN  /\ pc[c] = "journal.save"
        /\ \/ /\ SaveViolatesConstraint(drawn[c], request[c].date, lines)
              /\ Finish(c, "JOURNAL_NUMBER_CONFLICT", drawn[c])
              /\ UNCHANGED <<journal_entries, journal_lines, resolved>>
           \/ /\ ~SaveViolatesConstraint(drawn[c], request[c].date, lines)
              /\ journal_entries' = Put(journal_entries, drawn[c], request[c].date)
              /\ journal_lines' = Put(journal_lines, drawn[c], lines)
              /\ resolved' = Put(resolved, drawn[c], charged)
              /\ \E report \in CommitReports :
                    Finish(c, IF report = "OK" THEN "RECORDED" ELSE report, drawn[c])
        /\ ForgetJournalCall(c)
        /\ UNCHANGED <<accountTables, journal_seq, postings>>

-----------------------------------------------------------------------------
(* list_journal_entries: two SELECTs of one READ COMMITTED session *)

BeginListEntries(c) ==
    /\ Begin(c, "list.entries")
    /\ UNCHANGED <<tables, journalCallVars>>

ListSelectEntries(c) ==
    /\ pc[c] = "list.entries"
    /\ entryRows' = [entryRows EXCEPT ![c] = DOMAIN journal_entries]
    /\ Continue(c, "list.lines")
    /\ UNCHANGED <<tables, request, drawn, resolved>>

\* Faulty variant: lines joined with the accounts table.
LinesOfLiveAccounts(n) ==
    LET live(line) == \E row \in accounts : row.name = line.account
    IN  IF n \in DOMAIN journal_lines THEN SelectSeq(journal_lines[n], live) ELSE <<>>

\* The stored lines of an entry; an entry without lines gets the empty list.
LinesOf(n) == IF n \in DOMAIN journal_lines THEN journal_lines[n] ELSE <<>>

\* _to_domain() validates every entry anew; a ValidationError leaves the
\* repository and the service untranslated.
ListSelectLines(c) ==
    /\ pc[c] = "list.lines"
    /\ IF \A n \in entryRows[c] : ValidEntry(journal_entries[n], LinesOf(n))
       THEN Finish(c, "LISTED", 0)
       ELSE Finish(c, "ValidationError", 0)
    /\ ForgetJournalCall(c)
    /\ UNCHANGED <<tables, resolved>>

-----------------------------------------------------------------------------

JournalPcs == {"journal.chart", "journal.number", "journal.save",
               "list.entries", "list.lines"}

JournalFailure(c) ==
    /\ pc[c] \in JournalPcs
    /\ Finish(c, "STORAGE_FAILURE", 0)
    /\ ForgetJournalCall(c)
    /\ UNCHANGED <<tables, resolved>>

JournalInit ==
    /\ request = [c \in Callers |-> None]
    /\ drawn = [c \in Callers |-> 0]
    /\ entryRows = [c \in Callers |-> {}]
    /\ resolved = [n \in {} |-> {}]

JournalNext(c) ==
    \/ BeginJournal(c) \/ JournalValidateAccounts(c) \/ JournalNumber(c)
    \/ JournalSave(c)
    \/ BeginListEntries(c) \/ ListSelectEntries(c) \/ ListSelectLines(c)
    \/ JournalFailure(c)
=============================================================================
