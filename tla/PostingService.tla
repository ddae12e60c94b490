--------------------------- MODULE PostingService ---------------------------
(***************************************************************************)
(* PostingService over PostgresPostingRepo: posting a journal entry to the *)
(* ledger, and the trial balance the ledger yields.                        *)
(***************************************************************************)
EXTENDS JournalService

VARIABLES
    target,    \* the journal number the call is to post
    entry      \* the JournalEntry the call has read: its date and lines

postingCallVars == <<target, entry>>

ForgetPostingCall(c) ==
    /\ target' = [target EXCEPT ![c] = 0]
    /\ entry' = [entry EXCEPT ![c] = None]

FinishPosting(c, code) ==
    /\ Finish(c, code, target[c])
    /\ ForgetPostingCall(c)

-----------------------------------------------------------------------------
(* post_journal_entry *)

BeginPosting(c) ==
    /\ Begin(c, "post.entry")
    /\ \E n \in 1 .. MaxJournals : target' = [target EXCEPT ![c] = n]
    /\ UNCHANGED <<tables, entry>>

\* get_by_number(): the entry row ...
PostSelectEntry(c) ==
    /\ pc[c] = "post.entry"
    /\ \/ /\ target[c] \notin DOMAIN journal_entries
          /\ FinishPosting(c, "UNKNOWN_JOURNAL_ENTRY")
       \/ /\ target[c] \in DOMAIN journal_entries
          /\ Continue(c, "post.lines")
          /\ UNCHANGED postingCallVars
    /\ UNCHANGED tables

\* ... then its lines, and the validation of _to_domain().
PostSelectLines(c) ==
    LET date == journal_entries[target[c]]
        lines == LinesOf(target[c])
    IN  /\ pc[c] = "post.lines"
        /\ \/ /\ ~ValidEntry(date, lines)
              /\ FinishPosting(c, "ValidationError")
           \/ /\ ValidEntry(date, lines)
              /\ entry' = [entry EXCEPT ![c] = [date |-> date, lines |-> lines]]
              /\ Continue(c, "post.check")
              /\ UNCHANGED target
        /\ UNCHANGED tables

\* The pre-check for earlier postings of the entry.
PostCheckPosted(c) ==
    /\ pc[c] = "post.check"
    /\ \/ /\ PostingsOf(target[c]) # {}
          /\ FinishPosting(c, "JOURNAL_ALREADY_POSTED")
       \/ /\ PostingsOf(target[c]) = {}
          /\ Continue(c, "post.save")
          /\ UNCHANGED postingCallVars
    /\ UNCHANGED tables

\* _derive_postings(), as the rows save_many() adds.
PostingRow(n, date, i, line, actor) ==
    [journal_number |-> n, line_index |-> i, account |-> line.account,
     account_key |-> account_lookup_key(line.account),
     debit |-> Numeric18_2(line.debit), credit |-> Numeric18_2(line.credit),
     posting_date |-> date, created_by |-> actor]

DerivedPostings(n, date, lines, actor) ==
    {PostingRow(n, date, i, lines[i], actor) : i \in DOMAIN lines}

\* Faulty variant: no unique constraint.
UncheckedBatch(batch) == \E p \in batch : ~ExactlyOneSide(p) \/ ~InDateRange(p.posting_date)

\* Faulty variant: line_index unique on its own.
UniqueLineIndexBatch(batch) ==
    \/ \E p \in batch, q \in postings : p.line_index = q.line_index
    \/ \E p \in batch : ~ExactlyOneSide(p) \/ ~InDateRange(p.posting_date)

\* uq_postings_journal_number_line_index and the CHECKs of postings.
BatchViolatesConstraint(batch) ==
    \/ \E p \in batch, q \in postings :
          /\ p.journal_number = q.journal_number
          /\ p.line_index = q.line_index
    \/ \E p \in batch : ~ExactlyOneSide(p) \/ ~InDateRange(p.posting_date)

\* save_many(): one transaction; any IntegrityError means already posted.
PostSave(c) ==
    LET batch == DerivedPostings(target[c], entry[c].date, entry[c].lines, c)
    IN  /\ pc[c] = "post.save"
        /\ \/ /\ BatchViolatesConstraint(batch)
              /\ FinishPosting(c, "JOURNAL_ALREADY_POSTED")
              /\ UNCHANGED postings
           \/ /\ ~BatchViolatesConstraint(batch)
              /\ postings' = postings \cup batch
              /\ \E report \in CommitReports :
                    FinishPosting(c, IF report = "OK" THEN "POSTED" ELSE report)
        /\ UNCHANGED <<accountTables, journalTables>>

PostingPcs == {"post.entry", "post.lines", "post.check", "post.save"}

PostingFailure(c) ==
    /\ pc[c] \in PostingPcs
    /\ FinishPosting(c, "STORAGE_FAILURE")
    /\ UNCHANGED tables

PostingInit ==
    /\ target = [c \in Callers |-> 0]
    /\ entry = [c \in Callers |-> None]

PostingNext(c) ==
    \/ BeginPosting(c) \/ PostSelectEntry(c) \/ PostSelectLines(c)
    \/ PostCheckPosted(c) \/ PostSave(c)
    \/ PostingFailure(c)

-----------------------------------------------------------------------------
(* The trial balance: one aggregation over the postings *)

InScope(asOf) == {p \in postings : asOf = None \/ p.posting_date <= asOf}

Amounts(rows, side(_)) == SumFunction([p \in rows |-> side(p)])

\* get_account_balances(): GROUP BY account_key.
get_account_balances(asOf) ==
    LET rows(key) == {p \in InScope(asOf) : p.account_key = key}
    IN  {[account_key |-> key,
          debit_total |-> Amounts(rows(key), LAMBDA p : p.debit),
          credit_total |-> Amounts(rows(key), LAMBDA p : p.credit)] :
            key \in {p.account_key : p \in InScope(asOf)}}

\* TrialBalanceViewModel.is_balanced
TrialBalanceIsBalanced(asOf) ==
    LET entries == get_account_balances(asOf)
    IN  SumFunction([e \in entries |-> e.debit_total])
          = SumFunction([e \in entries |-> e.credit_total])
=============================================================================
