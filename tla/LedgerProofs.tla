---------------------------- MODULE LedgerProofs ----------------------------
(***************************************************************************)
(* The ledger is right under every interleaving, failure and retry, for    *)
(* every number of callers, every chart, every set of entries and every    *)
(* precision of the amounts submitted.                                     *)
(***************************************************************************)
EXTENDS BooksTypes, Sums

-----------------------------------------------------------------------------
(* Rounding *)

\* Rounding to cents leaves whole cents alone.
LEMMA RoundingIdempotent ==
  \A n \in Nat : Numeric18_2(Numeric18_2(n)) = Numeric18_2(n)
<1> SUFFICES ASSUME NEW n \in Nat PROVE Numeric18_2(Numeric18_2(n)) = Numeric18_2(n)
  OBVIOUS
<1> DEFINE q == (2 * n + SubUnits) \div (2 * SubUnits)
<1>1. q \in Nat /\ SubUnits \in Nat \ {0}
  BY StorageAssumption, SMTT(30)
<1>2. Numeric18_2(n) = SubUnits * q
  BY DEF Numeric18_2
<1> HIDE DEF q
<1>3. (2 * (SubUnits * q) + SubUnits) \div (2 * SubUnits) = q
  BY <1>1, SMTT(60)
<1> QED
  BY <1>2, <1>3 DEF Numeric18_2

\* A line read back from its columns is stored as it is.
LEMMA StoredLineIdempotent ==
  \A line \in Lines : StoredLine(line) \in Lines /\ StoredLine(StoredLine(line)) = StoredLine(line)
  BY RoundingIdempotent, StoredAmounts DEF StoredLine, Lines

-----------------------------------------------------------------------------
(* What the steps of the ledger may change *)

\* The outcomes that say something of the ledger.
LedgerCodes == {"POSTED", "JOURNAL_ALREADY_POSTED", "RECORDED"}

\* Caller c alone moves, and what it is told, if anything, is not of the ledger.
Quiet(c) ==
    /\ \A d \in Callers \ {c} : pc'[d] = pc[d] /\ outcome'[d] = outcome[d]
    /\ outcome'[c].code \in LedgerCodes => outcome'[c] = outcome[c]

\* Beginning, going on, or ending without an outcome about the ledger is quiet.
LEMMA QuietMoves ==
  ASSUME TypeInv, NEW c \in Callers
  PROVE  /\ \A next : Begin(c, next) \/ Continue(c, next) => Quiet(c) /\ pc'[c] = next
         /\ \A code, n : Finish(c, code, n) /\ code \notin LedgerCodes =>
                            Quiet(c) /\ pc'[c] = "idle"
  BY DEF Begin, Continue, Finish, Quiet, NoOutcome, LedgerCodes, TypeInv, TypeOK, CallsOK

\* An account call leaves the books alone.
LEMMA AccountQuiet ==
  ASSUME TypeInv, NEW c \in Callers, AccountStep(c)
  PROVE  /\ UNCHANGED <<journalTables, postings, journalCallVars, postingCallVars>>
         /\ Quiet(c) /\ pc'[c] \in {"idle"} \cup AccountPcs
<1>1. UNCHANGED <<journalCallVars, postingCallVars>>
  BY DEF AccountStep
<1>2. ASSUME NEW code \in OutcomeCodes \ LedgerCodes, FinishAccountCall(c, code)
      PROVE  Quiet(c) /\ pc'[c] = "idle"
  BY <1>2, QuietMoves DEF FinishAccountCall
<1>3. \A report \in CommitReports : report \in OutcomeCodes \ LedgerCodes
  BY DEF CommitReports, OutcomeCodes, LedgerCodes
<1> USE <1>1, <1>2, <1>3, QuietMoves
    DEF OutcomeCodes, LedgerCodes, AccountPcs, tables, journalTables, BeginAccountCall
<1>4. CASE BeginCreate(c)
  BY <1>4 DEF BeginCreate
<1>5. CASE CreateCheckCode(c)
  BY <1>5 DEF CreateCheckCode
<1>6. CASE CreateCheckName(c)
  BY <1>6 DEF CreateCheckName
<1>7. CASE CreateInsert(c)
  BY <1>7 DEF CreateInsert, InsertConflict
<1>8. CASE BeginUpdate(c)
  BY <1>8 DEF BeginUpdate
<1>9. CASE UpdateGet(c)
  BY <1>9 DEF UpdateGet
<1>10. CASE UpdateCheckName(c)
  BY <1>10 DEF UpdateCheckName
<1>11. CASE UpdateSelect(c) \/ DeleteSelect(c)
  BY <1>11 DEF UpdateSelect, DeleteSelect, SelectRow
<1>12. CASE UpdateCommit(c)
  BY <1>12 DEF UpdateCommit
<1>13. CASE BeginDelete(c)
  BY <1>13 DEF BeginDelete
<1>14. CASE DeleteGet(c)
  BY <1>14 DEF DeleteGet
<1>15. CASE DeleteCheckPostings(c)
  BY <1>15 DEF DeleteCheckPostings
<1>16. CASE DeleteCommit(c)
  BY <1>16 DEF DeleteCommit
<1>17. CASE AccountFailure(c)
  BY <1>17 DEF AccountFailure
<1> QED
  BY <1>4, <1>5, <1>6, <1>7, <1>8, <1>9, <1>10, <1>11, <1>12, <1>13, <1>14, <1>15,
     <1>16, <1>17 DEF AccountStep, AccountNext

\* A journal call that neither draws a number nor saves leaves them alone too.
LEMMA JournalQuiet ==
  ASSUME TypeInv, NEW c \in Callers, JournalStep(c), ~JournalNumber(c), ~JournalSave(c)
  PROVE  /\ UNCHANGED <<journalTables, postings, postingCallVars>>
         /\ Quiet(c) /\ pc'[c] \in {"idle"} \cup (JournalPcs \ {"journal.save"})
         /\ \A d \in Callers \ {c} : drawn'[d] = drawn[d]
<1>1. UNCHANGED postingCallVars
  BY DEF JournalStep
<1>2. ForgetJournalCall(c) => \A d \in Callers \ {c} : drawn'[d] = drawn[d]
  BY DEF ForgetJournalCall, TypeInv, TypeOK, JournalCallsOK
<1> USE <1>1, <1>2, QuietMoves DEF LedgerCodes, JournalPcs, tables, journalTables
<1>3. CASE BeginJournal(c)
  BY <1>3 DEF BeginJournal
<1>4. CASE JournalValidateAccounts(c)
  BY <1>4 DEF JournalValidateAccounts
<1>5. CASE BeginListEntries(c)
  BY <1>5 DEF BeginListEntries, journalCallVars
<1>6. CASE ListSelectEntries(c)
  BY <1>6 DEF ListSelectEntries
<1>7. CASE ListSelectLines(c)
  BY <1>7 DEF ListSelectLines
<1>8. CASE JournalFailure(c)
  BY <1>8 DEF JournalFailure
<1> QED
  BY <1>3, <1>4, <1>5, <1>6, <1>7, <1>8 DEF JournalStep, JournalNext

\* A posting call leaves the journal alone and moves its own caller only.
LEMMA PostingMoves ==
  ASSUME TypeInv, NEW c \in Callers, PostingStep(c)
  PROVE  /\ UNCHANGED <<journalTables, journalCallVars>>
         /\ pc'[c] \in {"idle"} \cup PostingPcs
         /\ \A d \in Callers \ {c} :
               /\ pc'[d] = pc[d] /\ outcome'[d] = outcome[d]
               /\ target'[d] = target[d] /\ entry'[d] = entry[d]
<1>1. ASSUME NEW code, FinishPosting(c, code)
      PROVE  /\ pc'[c] = "idle"
             /\ \A d \in Callers \ {c} :
                   /\ pc'[d] = pc[d] /\ outcome'[d] = outcome[d]
                   /\ target'[d] = target[d] /\ entry'[d] = entry[d]
  BY <1>1 DEF FinishPosting, ForgetPostingCall, Finish, TypeInv, TypeOK, CallsOK, PostingCallsOK
<1> USE <1>1, QuietMoves
    DEF Quiet, PostingPcs, tables, journalTables, postingCallVars, PostingStep,
        TypeInv, TypeOK, PostingCallsOK
<1>2. CASE BeginPosting(c)
  BY <1>2 DEF BeginPosting
<1>3. CASE PostSelectEntry(c)
  BY <1>3 DEF PostSelectEntry
<1>4. CASE PostSelectLines(c)
  BY <1>4 DEF PostSelectLines
<1>5. CASE PostCheckPosted(c)
  BY <1>5 DEF PostCheckPosted
<1>6. CASE PostSave(c)
  BY <1>6 DEF PostSave
<1>7. CASE PostingFailure(c)
  BY <1>7 DEF PostingFailure
<1> QED
  BY <1>2, <1>3, <1>4, <1>5, <1>6, <1>7 DEF PostingNext

-----------------------------------------------------------------------------
(* Journal numbers *)

\* An entry and its lines are stored together, under a number that was drawn.
NumbersInv ==
    /\ DOMAIN journal_lines = DOMAIN journal_entries
    /\ DOMAIN journal_entries \subseteq 1 .. journal_seq
    /\ DrawnNumbersFresh

\* At the start no number has been drawn.
LEMMA NumbersInit == Init => NumbersInv
  BY DEF Init, StorageInit, CallsInit, NumbersInv, DrawnNumbersFresh

\* A step that draws and saves nothing preserves it.
LEMMA NumbersKept ==
  ASSUME NumbersInv, UNCHANGED journalTables,
         \A d \in Callers : pc'[d] = "journal.save" =>
                               pc[d] = "journal.save" /\ drawn'[d] = drawn[d]
  PROVE  NumbersInv'
  BY DEF NumbersInv, DrawnNumbersFresh, journalTables

\* The sequence hands every call a number nobody else has, and saving spends it.
LEMMA NumbersStep == TypeInv /\ NumbersInv /\ [Next]_vars => NumbersInv'
<1> SUFFICES ASSUME TypeInv, NumbersInv, [Next]_vars PROVE NumbersInv'
  OBVIOUS
<1>1. CASE UNCHANGED vars
  BY <1>1, NumbersKept DEF vars, tables, callVars, journalCallVars
<1>2. ASSUME NEW c \in Callers, AccountStep(c) PROVE NumbersInv'
  BY <1>2, AccountQuiet, NumbersKept DEF Quiet, AccountPcs, journalCallVars
<1>3. ASSUME NEW c \in Callers, PostingStep(c) PROVE NumbersInv'
  BY <1>3, PostingMoves, NumbersKept DEF PostingPcs, journalCallVars
<1>4. ASSUME NEW c \in Callers, BlankActorStep(c) PROVE NumbersInv'
  BY <1>4, NumbersKept
     DEF BlankActorStep, RejectBlankActor, Finish, tables, journalCallVars, TypeInv, TypeOK, CallsOK
<1>5. ASSUME NEW c \in Callers, JournalStep(c), ~JournalNumber(c), ~JournalSave(c)
      PROVE  NumbersInv'
  BY <1>5, JournalQuiet, NumbersKept DEF Quiet
<1>6. ASSUME NEW c \in Callers, JournalNumber(c) PROVE NumbersInv'
  <2>1. journal_seq \in Nat /\ journal_seq' = journal_seq + 1
        /\ UNCHANGED <<journal_entries, journal_lines>>
    BY <1>6 DEF JournalNumber, next_journal_number, TypeInv, TypeOK, TablesOK
  <2>2. \A d \in Callers \ {c} : pc'[d] = pc[d] /\ drawn'[d] = drawn[d]
    BY <1>6 DEF JournalNumber, Finish, Continue, ForgetJournalCall, TypeInv, TypeOK,
                CallsOK, JournalCallsOK
  <2>3. pc'[c] = "journal.save" => drawn'[c] = journal_seq + 1
    BY <1>6, <2>1 DEF JournalNumber, Finish, Continue, TypeInv, TypeOK, CallsOK, JournalCallsOK
  <2> QED
    BY <2>1, <2>2, <2>3 DEF NumbersInv, DrawnNumbersFresh
<1>7. ASSUME NEW c \in Callers, JournalSave(c) PROVE NumbersInv'
  <2>1. /\ pc[c] = "journal.save" /\ pc'[c] = "idle"
        /\ \A d \in Callers \ {c} : pc'[d] = pc[d] /\ drawn'[d] = drawn[d]
    BY <1>7 DEF JournalSave, Finish, ForgetJournalCall, TypeInv, TypeOK, CallsOK, JournalCallsOK
  <2>2. journal_seq' = journal_seq /\ journal_seq \in Nat
    BY <1>7 DEF JournalSave, TypeInv, TypeOK, TablesOK
  <2>3. \/ UNCHANGED <<journal_entries, journal_lines>>
        \/ /\ DOMAIN journal_entries' = DOMAIN journal_entries \cup {drawn[c]}
           /\ DOMAIN journal_lines' = DOMAIN journal_lines \cup {drawn[c]}
    BY <1>7 DEF JournalSave, Put
  <2>4. drawn[c] \in 1 .. journal_seq
        /\ \A d \in Callers \ {c} : pc[d] = "journal.save" => drawn[d] # drawn[c]
    BY <2>1 DEF NumbersInv, DrawnNumbersFresh
  <2> QED
    BY <2>1, <2>2, <2>3, <2>4 DEF NumbersInv, DrawnNumbersFresh
<1> QED
  BY <1>1, <1>2, <1>3, <1>4, <1>5, <1>6, <1>7 DEF Next

\* A journal number drawn by a call is fresh until its entry is saved, and no
\* two calls hold the same one, however many callers draw at the same time:
\* the primary key of journal_entries never refuses a save.
THEOREM NumbersFresh == Spec => []DrawnNumbersFresh
<1>1. NumbersInv => DrawnNumbersFresh
  BY DEF NumbersInv
<1> QED
  BY <1>1, CallsHoldTheirInputs, NumbersInit, NumbersStep, PTL DEF Spec

-----------------------------------------------------------------------------
(* Entries and what posting reads of them *)

\* The lines of an entry are what its columns keep of them, and its date is
\* one the database accepts.
StoredInv ==
    /\ \A n \in DOMAIN journal_lines : \A i \in DOMAIN journal_lines[n] :
          StoredLine(journal_lines[n][i]) = journal_lines[n][i]
    /\ \A n \in DOMAIN journal_entries : InDateRange(journal_entries[n])

\* A posting call about to check or save holds the stored entry, which is valid.
HoldsEntry(c) ==
    /\ target[c] \in DOMAIN journal_entries
    /\ entry[c] = [date |-> journal_entries[target[c]],
                   lines |-> journal_lines[target[c]]]
    /\ ValidEntry(entry[c].date, entry[c].lines)

ReadInv == \A c \in Callers : pc[c] \in {"post.check", "post.save"} => HoldsEntry(c)

\* Caller c saves its entry: nothing else ever writes the journal.
SavesEntry(c) ==
    /\ JournalStep(c) /\ JournalSave(c)
    /\ InDateRange(request[c].date)
    /\ journal_entries' = Put(journal_entries, drawn[c], request[c].date)
    /\ journal_lines' = Put(journal_lines, drawn[c], StoredLines(BuildLines(request[c].lines)))

\* The only step that writes the journal tables is a save, of a drawn number.
LEMMA JournalWrites ==
  ASSUME TypeInv, [Next]_vars
  PROVE  \/ UNCHANGED <<journal_entries, journal_lines>>
         \/ \E c \in Callers : SavesEntry(c)
<1>1. ASSUME NEW c \in Callers, JournalStep(c)
      PROVE  UNCHANGED <<journal_entries, journal_lines>> \/ SavesEntry(c)
  <2>1. CASE JournalSave(c)
    BY <1>1, <2>1 DEF JournalSave, SavesEntry, SaveViolatesConstraint
  <2>2. CASE JournalNumber(c)
    BY <2>2 DEF JournalNumber
  <2> QED
    BY <1>1, <2>1, <2>2, JournalQuiet DEF journalTables
<1>2. ASSUME NEW c \in Callers, AccountStep(c) \/ PostingStep(c) \/ BlankActorStep(c)
      PROVE  UNCHANGED <<journal_entries, journal_lines>>
  BY <1>2, AccountQuiet, PostingMoves DEF BlankActorStep, RejectBlankActor, tables, journalTables
<1> QED
  BY <1>1, <1>2 DEF Next, vars, tables, journalTables

\* Entries are never changed or removed.
LEMMA EntriesKept ==
  ASSUME TypeInv, NumbersInv, [Next]_vars
  PROVE  \A n \in DOMAIN journal_entries :
            /\ n \in DOMAIN journal_entries' /\ n \in DOMAIN journal_lines'
            /\ journal_entries'[n] = journal_entries[n]
            /\ journal_lines'[n] = journal_lines[n]
<1>1. CASE UNCHANGED <<journal_entries, journal_lines>>
  BY <1>1 DEF NumbersInv
<1>2. CASE \E c \in Callers : SavesEntry(c)
  <2>1. PICK c \in Callers : SavesEntry(c)
    BY <1>2
  <2>2. drawn[c] \notin DOMAIN journal_entries
    BY <2>1 DEF NumbersInv, DrawnNumbersFresh, JournalSave, SavesEntry
  <2> QED
    BY <2>1, <2>2 DEF SavesEntry, Put, NumbersInv
<1> QED
  BY <1>1, <1>2, JournalWrites

\* Stored lines are whole cents: saving stores them rounded and nothing rewrites them.
LEMMA StoredStep ==
  ASSUME TypeInv, StoredInv, [Next]_vars
  PROVE  StoredInv'
<1>1. CASE UNCHANGED <<journal_entries, journal_lines>>
  BY <1>1 DEF StoredInv, StoredLine, Numeric18_2, InDateRange
<1>2. CASE \E c \in Callers : SavesEntry(c)
  <2>1. PICK c \in Callers : SavesEntry(c)
    BY <1>2
  <2> DEFINE built == BuildLines(request[c].lines)
             stored == StoredLines(built)
  <2>2. request[c] \in EntryInputs /\ BuildsEntry(request[c])
    BY <2>1 DEF SavesEntry, JournalSave, TypeInv, InputsOK, JournalInputs
  <2>3. built \in Seq(Lines)
    BY <2>2, BuiltTypes
  <2>4. \A i \in DOMAIN stored : StoredLine(stored[i]) = stored[i]
    <3> HIDE DEF built
    <3>1. \A i \in DOMAIN built : built[i] \in Lines
      BY <2>3
    <3> QED
      BY <3>1, StoredLineIdempotent DEF StoredLines
  <2>5. journal_lines' = Put(journal_lines, drawn[c], stored)
    BY <2>1 DEF SavesEntry
  <2> HIDE DEF stored
  <2>6. ASSUME NEW n \in DOMAIN journal_lines'
        PROVE  \/ journal_lines'[n] = stored
               \/ /\ n \in DOMAIN journal_lines
                  /\ journal_lines'[n] = journal_lines[n]
    BY <2>5 DEF Put
  <2>7. ASSUME NEW n \in DOMAIN journal_lines', NEW i \in DOMAIN journal_lines'[n]
        PROVE  StoredLine(journal_lines'[n][i]) = journal_lines'[n][i]
    BY <2>4, <2>6 DEF StoredInv
  <2>8. ASSUME NEW n \in DOMAIN journal_entries'
        PROVE  InDateRange(journal_entries'[n])
    BY <2>1 DEF SavesEntry, Put, StoredInv
  <2> QED
    BY <2>7, <2>8 DEF StoredInv, StoredLine, Numeric18_2, InDateRange
<1> QED
  BY <1>1, <1>2, JournalWrites

\* A call goes on holding its entry for as long as it does nothing.
LEMMA HoldsOn ==
  ASSUME TypeInv, NumbersInv, [Next]_vars, NEW d \in Callers, HoldsEntry(d),
         target'[d] = target[d], entry'[d] = entry[d]
  PROVE  HoldsEntry(d)'
<1>1. /\ target[d] \in DOMAIN journal_entries
      /\ entry[d] = [date |-> journal_entries[target[d]], lines |-> journal_lines[target[d]]]
      /\ ValidEntry(entry[d].date, entry[d].lines)
  BY DEF HoldsEntry
<1>2. entry'[d].date = entry[d].date /\ entry'[d].lines = entry[d].lines
  OBVIOUS
<1>3. ValidEntry(entry[d].date, entry[d].lines)'
  BY <1>1, <1>2
     DEF ValidEntry, IsBalanced, TotalDebits, TotalCredits, is_valid_line_amounts
<1>4. /\ target'[d] \in DOMAIN journal_entries'
      /\ journal_entries'[target'[d]] = journal_entries[target[d]]
      /\ journal_lines'[target'[d]] = journal_lines[target[d]]
  BY <1>1, EntriesKept
<1> QED
  BY <1>1, <1>3, <1>4 DEF HoldsEntry

\* A step of a call that is not posting keeps what posting calls have read.
LEMMA ReadKept ==
  ASSUME TypeInv, NumbersInv, ReadInv, [Next]_vars, UNCHANGED postingCallVars,
         \A d \in Callers : pc'[d] \in {"post.check", "post.save"} => pc[d] = pc'[d]
  PROVE  ReadInv'
  BY HoldsOn DEF ReadInv, postingCallVars

\* The entry a posting call has read is still the stored one when it saves.
LEMMA ReadStep ==
  ASSUME TypeInv, NumbersInv, ReadInv, [Next]_vars
  PROVE  ReadInv'
<1>1. CASE UNCHANGED vars
  BY <1>1, ReadKept DEF vars, callVars, postingCallVars
<1>2. ASSUME NEW c \in Callers, AccountStep(c) PROVE ReadInv'
  BY <1>2, AccountQuiet, ReadKept DEF Quiet, AccountPcs, postingCallVars
<1>3. ASSUME NEW c \in Callers, BlankActorStep(c) PROVE ReadInv'
  BY <1>3, ReadKept DEF BlankActorStep, RejectBlankActor, Finish, postingCallVars,
                        TypeInv, TypeOK, CallsOK
<1>4. ASSUME NEW c \in Callers, JournalStep(c) PROVE ReadInv'
  <2>1. UNCHANGED postingCallVars
    BY <1>4 DEF JournalStep
  <2>2. \A d \in Callers : pc'[d] \in {"post.check", "post.save"} => pc[d] = pc'[d]
    <3>1. CASE JournalNumber(c)
      BY <3>1 DEF JournalNumber, Finish, Continue, TypeInv, TypeOK, CallsOK
    <3>2. CASE JournalSave(c)
      BY <3>2 DEF JournalSave, Finish, TypeInv, TypeOK, CallsOK
    <3> QED
      BY <1>4, <3>1, <3>2, JournalQuiet DEF Quiet, JournalPcs
  <2> QED
    BY <2>1, <2>2, ReadKept
<1>5. ASSUME NEW c \in Callers, PostingStep(c) PROVE ReadInv'
  <2>1. /\ UNCHANGED journalTables
        /\ \A d \in Callers \ {c} :
              pc'[d] = pc[d] /\ target'[d] = target[d] /\ entry'[d] = entry[d]
    BY <1>5, PostingMoves
  <2>2. CASE PostSelectLines(c) /\ pc'[c] = "post.check"
    <3>1. /\ ValidEntry(journal_entries[target[c]], LinesOf(target[c]))
          /\ entry'[c] = [date |-> journal_entries[target[c]], lines |-> LinesOf(target[c])]
          /\ target'[c] = target[c] /\ target[c] \in DOMAIN journal_entries
      BY <1>5, <2>2 DEF PostSelectLines, FinishPosting, Finish, TypeInv, TypeOK, CallsOK,
                        PostingCallsOK, InputsOK, PostingInputs
    <3>2. LinesOf(target[c]) = journal_lines[target[c]]
      BY <3>1 DEF NumbersInv, LinesOf
    <3>3. ValidEntry(entry[c].date, entry[c].lines)'
      BY <3>1 DEF ValidEntry, IsBalanced, TotalDebits, TotalCredits, is_valid_line_amounts
    <3>4. HoldsEntry(c)'
      BY <2>1, <3>1, <3>2, <3>3 DEF HoldsEntry, journalTables
    <3> QED
      BY <2>1, <3>4, HoldsOn DEF ReadInv
  <2>3. CASE PostCheckPosted(c) /\ pc'[c] = "post.save"
    <3>1. pc[c] = "post.check" /\ UNCHANGED postingCallVars
      BY <1>5, <2>3 DEF PostCheckPosted, FinishPosting, Finish, TypeInv, TypeOK, CallsOK
    <3> QED
      BY <2>1, <3>1, HoldsOn DEF ReadInv, postingCallVars
  <2>4. CASE pc'[c] \notin {"post.check", "post.save"}
    BY <2>1, <2>4, HoldsOn DEF ReadInv
  <2>5. pc'[c] \in {"post.check", "post.save"} => PostSelectLines(c) \/ PostCheckPosted(c)
    BY <1>5, QuietMoves
       DEF PostingStep, PostingNext, BeginPosting, PostSelectEntry, PostSave, PostingFailure,
           FinishPosting, Finish, TypeInv, TypeOK, CallsOK
  <2>6. /\ PostSelectLines(c) => pc'[c] # "post.save"
        /\ PostCheckPosted(c) => pc'[c] # "post.check"
    BY DEF PostSelectLines, PostCheckPosted, FinishPosting, Finish, Continue, TypeInv,
           TypeOK, CallsOK
  <2> QED
    BY <2>2, <2>3, <2>4, <2>5, <2>6
<1> QED
  BY <1>1, <1>2, <1>3, <1>4, <1>5 DEF Next

-----------------------------------------------------------------------------
(* Posting *)

\* The batch about to be saved is refused exactly when the entry is posted:
\* rounding cannot make a line it has read one-sided no more, and the first
\* line of the entry clashes with the one posted before.
LEMMA BatchRefused ==
  ASSUME TypeInv, NumbersInv, StoredInv, ReadInv, PostedWholeAndOnce,
         NEW c \in Callers, pc[c] = "post.save", NEW batch,
         batch = DerivedPostings(target[c], entry[c].date, entry[c].lines, c)
  PROVE  /\ batch # {}
         /\ \A p \in batch : p.journal_number = target[c] /\ p.created_by = c
         /\ BatchViolatesConstraint(batch) <=> PostingsOf(target[c]) # {}
<1> DEFINE n == target[c]
           date == entry[c].date
           lines == entry[c].lines
<1>1. /\ n \in DOMAIN journal_entries /\ date = journal_entries[n]
      /\ n \in DOMAIN journal_lines /\ lines = journal_lines[n] /\ LinesOf(n) = lines
      /\ ValidEntry(date, lines)
  <2>1. HoldsEntry(c)
    BY DEF ReadInv
  <2>2. n \in DOMAIN journal_lines
    BY <2>1 DEF HoldsEntry, NumbersInv
  <2> QED
    BY <2>1, <2>2 DEF HoldsEntry, LinesOf
<1>2. lines \in Seq(Lines) /\ Len(lines) >= 2 /\ 1 \in DOMAIN lines
  <2>1. lines \in Seq(Lines)
    BY <1>1 DEF TypeInv, TypeOK, TablesOK
  <2>2. Len(lines) >= 2
    BY <1>1 DEF ValidEntry
  <2> QED
    BY <2>1, <2>2
<1> HIDE DEF n, date, lines
<1>3. batch = DerivedPostings(n, date, lines, c)
  BY DEF n, date, lines
<1>4. ASSUME NEW p \in batch
      PROVE  \E i \in DOMAIN lines : p = PostingRow(n, date, i, lines[i], c)
  BY <1>3 DEF DerivedPostings
<1>5. \A p \in batch : p.journal_number = n /\ p.created_by = c
  BY <1>4 DEF PostingRow
<1>6. PostingRow(n, date, 1, lines[1], c) \in batch
  BY <1>2, <1>3 DEF DerivedPostings
<1>7. ASSUME PostingsOf(n) # {} PROVE BatchViolatesConstraint(batch)
  <2>1. n \in {p.journal_number : p \in postings}
    BY <1>7 DEF PostingsOf
  <2>2. PICK d \in Callers : PostingsOf(n) = DerivedPostings(n, date, lines, d)
    BY <1>1, <2>1 DEF PostedWholeAndOnce
  <2>3. PostingRow(n, date, 1, lines[1], d) \in PostingsOf(n)
    BY <1>2, <2>2 DEF DerivedPostings
  <2>4. PostingRow(n, date, 1, lines[1], d) \in postings
    BY <2>3 DEF PostingsOf
  <2> QED
    BY <1>6, <2>4 DEF BatchViolatesConstraint, PostingRow
<1>8. ASSUME NEW p \in batch PROVE ExactlyOneSide(p)
  <2>1. PICK i \in DOMAIN lines : p = PostingRow(n, date, i, lines[i], c)
    BY <1>4
  <2>2. lines[i] \in Lines /\ StoredLine(lines[i]) = lines[i]
    BY <1>1, <1>2 DEF StoredInv
  <2>3. /\ Numeric18_2(lines[i].debit) = lines[i].debit
        /\ Numeric18_2(lines[i].credit) = lines[i].credit
    BY <2>2 DEF StoredLine, Lines
  <2>4. (lines[i].debit > 0) # (lines[i].credit > 0)
    BY <1>1 DEF ValidEntry, is_valid_line_amounts
  <2>5. lines[i].debit \in Nat /\ lines[i].credit \in Nat
    BY <2>2 DEF Lines
  <2> QED
    BY <2>1, <2>3, <2>4, <2>5 DEF PostingRow, ExactlyOneSide
<1>9. \A p \in batch : InDateRange(p.posting_date)
  BY <1>1, <1>4 DEF StoredInv, PostingRow
<1>10. ASSUME BatchViolatesConstraint(batch) PROVE PostingsOf(n) # {}
  BY <1>5, <1>8, <1>9, <1>10 DEF BatchViolatesConstraint, PostingsOf
<1> QED
  BY <1>5, <1>6, <1>7, <1>10 DEF n

\* What a step may do to the postings: nothing, or post one entry whole.
PostsEntry(c) ==
    /\ PostingStep(c) /\ PostSave(c)
    /\ target[c] \in DOMAIN journal_entries
    /\ PostingsOf(target[c]) = {}
    /\ DerivedPostings(target[c], journal_entries[target[c]], LinesOf(target[c]), c) # {}
    /\ postings' = postings \cup
          DerivedPostings(target[c], journal_entries[target[c]], LinesOf(target[c]), c)

LedgerInv == NumbersInv /\ StoredInv /\ ReadInv /\ PostedWholeAndOnce

\* At the start the ledger is empty.
LEMMA LedgerInit == Init => LedgerInv
  BY NumbersInit DEF Init, StorageInit, CallsInit, LedgerInv, StoredInv, ReadInv, PostedWholeAndOnce

\* The only step that writes postings is a save of a whole derived batch.
LEMMA PostingWrites ==
  ASSUME TypeInv, LedgerInv, [Next]_vars
  PROVE  \/ UNCHANGED postings
         \/ /\ UNCHANGED <<journal_entries, journal_lines>>
            /\ \E c \in Callers : PostsEntry(c)
<1>1. ASSUME NEW c \in Callers, PostingStep(c)
      PROVE  \/ UNCHANGED postings
             \/ UNCHANGED <<journal_entries, journal_lines>> /\ PostsEntry(c)
  <2> DEFINE n == target[c]
             batch == DerivedPostings(n, entry[c].date, entry[c].lines, c)
  <2>1. CASE PostSave(c)
    <3>1. /\ n \in DOMAIN journal_entries /\ entry[c].date = journal_entries[n]
          /\ entry[c].lines = LinesOf(n)
      <4>1. pc[c] = "post.save"
        BY <2>1 DEF PostSave
      <4>2. HoldsEntry(c)
        BY <4>1 DEF LedgerInv, ReadInv
      <4>3. n \in DOMAIN journal_lines
        BY <4>2 DEF HoldsEntry, LedgerInv, NumbersInv
      <4> QED
        BY <4>2, <4>3 DEF HoldsEntry, LinesOf
    <3>2. batch # {} /\ (BatchViolatesConstraint(batch) <=> PostingsOf(n) # {})
      BY <2>1, BatchRefused DEF PostSave, LedgerInv
    <3>3. UNCHANGED <<journal_entries, journal_lines>>
      BY <1>1, PostingMoves DEF journalTables
    <3>4. batch = DerivedPostings(n, journal_entries[n], LinesOf(n), c)
      BY <3>1
    <3>5. \/ UNCHANGED postings
          \/ ~BatchViolatesConstraint(batch) /\ postings' = postings \cup batch
      BY <2>1 DEF PostSave
    <3>6. ASSUME ~BatchViolatesConstraint(batch), postings' = postings \cup batch
          PROVE  PostsEntry(c)
      <4>1. PostingsOf(target[c]) = {}
        BY <3>2, <3>6
      <4> QED
        BY <1>1, <2>1, <3>1, <3>2, <3>4, <3>6, <4>1 DEF PostsEntry
    <3> QED
      BY <3>3, <3>5, <3>6
  <2> QED
    BY <1>1, <2>1
       DEF PostingStep, PostingNext, BeginPosting, PostSelectEntry, PostSelectLines,
           PostCheckPosted, PostingFailure, tables
<1>2. ASSUME NEW c \in Callers, JournalStep(c) PROVE UNCHANGED postings
  BY <1>2, JournalQuiet DEF JournalNumber, JournalSave
<1>3. ASSUME NEW c \in Callers, AccountStep(c) \/ BlankActorStep(c) PROVE UNCHANGED postings
  BY <1>3, AccountQuiet DEF BlankActorStep, RejectBlankActor, tables
<1> QED
  BY <1>1, <1>2, <1>3 DEF Next, vars, tables

\* Posting one entry leaves the postings of the others alone.
LEMMA OnePosted ==
  ASSUME NEW c \in Callers, PostsEntry(c), NEW n, n = target[c]
  PROVE  /\ PostingsOf(n)' = DerivedPostings(n, journal_entries[n], LinesOf(n), c)
         /\ \A m : m # n => PostingsOf(m)' = PostingsOf(m)
         /\ \A m : PostingsOf(m) # {} => PostingsOf(m)' = PostingsOf(m)
<1> DEFINE batch == DerivedPostings(n, journal_entries[n], LinesOf(n), c)
<1>1. \A p \in batch : p.journal_number = n
  BY DEF DerivedPostings, PostingRow
<1> HIDE DEF batch
<1>2. PostingsOf(n) = {} /\ postings' = postings \cup batch
  BY DEF PostsEntry, batch
<1>3. {p \in postings' : p.journal_number = n} = batch
  BY <1>1, <1>2 DEF PostingsOf
<1>4. \A m : m # n => {p \in postings' : p.journal_number = m} = PostingsOf(m)
  BY <1>1, <1>2 DEF PostingsOf
<1> QED
  BY <1>2, <1>3, <1>4 DEF PostingsOf, batch

\* Whoever saves first posts the entry whole; every later batch is refused.
LEMMA PostedStep ==
  ASSUME TypeInv, LedgerInv, [Next]_vars
  PROVE  PostedWholeAndOnce'
<1> SUFFICES ASSUME NEW n \in {p.journal_number : p \in postings'}
             PROVE  /\ n \in DOMAIN journal_entries'
                    /\ \E c \in Callers : PostingsOf(n)' =
                          DerivedPostings(n, journal_entries[n], LinesOf(n), c)'
  BY DEF PostedWholeAndOnce
<1>1. ASSUME n \in DOMAIN journal_entries
      PROVE  /\ n \in DOMAIN journal_entries'
             /\ \A c \in Callers : DerivedPostings(n, journal_entries[n], LinesOf(n), c)'
                                   = DerivedPostings(n, journal_entries[n], LinesOf(n), c)
  <2>1. /\ n \in DOMAIN journal_entries' /\ n \in DOMAIN journal_lines'
        /\ journal_entries'[n] = journal_entries[n] /\ journal_lines'[n] = journal_lines[n]
        /\ n \in DOMAIN journal_lines
    BY <1>1, EntriesKept DEF LedgerInv, NumbersInv
  <2>2. LinesOf(n)' = LinesOf(n)
    BY <2>1 DEF LinesOf
  <2> QED
    BY <2>1, <2>2 DEF DerivedPostings, PostingRow, account_lookup_key, Numeric18_2
<1>2. CASE n \in {p.journal_number : p \in postings} /\ PostingsOf(n)' = PostingsOf(n)
  <2>1. PICK c \in Callers : PostingsOf(n) = DerivedPostings(n, journal_entries[n], LinesOf(n), c)
    BY <1>2 DEF LedgerInv, PostedWholeAndOnce
  <2>2. n \in DOMAIN journal_entries
    BY <1>2 DEF LedgerInv, PostedWholeAndOnce
  <2> QED
    BY <1>1, <1>2, <2>1, <2>2
<1>3. CASE UNCHANGED postings
  <2>1. {p \in postings' : p.journal_number = n} = {p \in postings : p.journal_number = n}
    BY <1>3
  <2> QED
    BY <1>2, <1>3, <2>1 DEF PostingsOf
<1>4. ASSUME NEW c \in Callers, PostsEntry(c), n = target[c]
      PROVE  /\ n \in DOMAIN journal_entries'
             /\ \E d \in Callers : PostingsOf(n)' =
                   DerivedPostings(n, journal_entries[n], LinesOf(n), d)'
  <2>1. n \in DOMAIN journal_entries
    BY <1>4 DEF PostsEntry
  <2>2. PostingsOf(n)' = DerivedPostings(n, journal_entries[n], LinesOf(n), c)
    BY <1>4, OnePosted
  <2> QED
    BY <1>1, <2>1, <2>2
<1>5. ASSUME NEW c \in Callers, PostsEntry(c), n # target[c]
      PROVE  n \in {p.journal_number : p \in postings} /\ PostingsOf(n)' = PostingsOf(n)
  <2>1. PostingsOf(n)' = PostingsOf(n)
    BY <1>5, OnePosted
  <2>2. \E p \in postings' : p.journal_number = n
    OBVIOUS
  <2> QED
    BY <2>1, <2>2 DEF PostingsOf
<1> QED
  BY <1>2, <1>3, <1>4, <1>5, PostingWrites

\* Every step keeps the ledger invariant.
LEMMA LedgerStep == TypeInv /\ LedgerInv /\ [Next]_vars => LedgerInv'
  BY NumbersStep, StoredStep, ReadStep, PostedStep DEF LedgerInv

\* The books in every reachable state: numbers, stored lines, what posting
\* calls have read, and whole postings.
THEOREM BooksKept == Spec => []LedgerInv
  BY CallsHoldTheirInputs, LedgerInit, LedgerStep, PTL DEF Spec

\* A journal entry is posted whole and once: whatever calls race to post it,
\* fail or are repeated, its postings are none, or one per stored line, all
\* written by one call.
THEOREM Posted == Spec => []PostedWholeAndOnce
<1>1. LedgerInv => PostedWholeAndOnce
  BY DEF LedgerInv
<1> QED
  BY <1>1, BooksKept, PTL

-----------------------------------------------------------------------------
(* Refinement *)

\* The initial database is an empty abstract ledger.
LEMMA LedgerInitRefines == Init => Ledger!Init
  BY DEF Init, StorageInit, Ledger!Init, RecordedEntries, PostedEntries

\* Every step is a Record, a Post or a stutter of the abstract ledger.
LEMMA LedgerStepRefines ==
  TypeInv /\ LedgerInv /\ [Next]_vars => [Ledger!Next]_(Ledger!ledger)
<1> SUFFICES ASSUME TypeInv, LedgerInv, [Next]_vars
             PROVE  [Ledger!Next]_(Ledger!ledger)
  OBVIOUS
<1>1. UNCHANGED <<journal_entries, journal_lines>> => UNCHANGED RecordedEntries
  BY DEF RecordedEntries, LinesOf
<1>2. UNCHANGED postings => UNCHANGED PostedEntries
  BY DEF PostedEntries, PostingsOf
<1>3. ASSUME NEW c \in Callers, SavesEntry(c) PROVE Ledger!Record
  <2>1. UNCHANGED PostedEntries
    BY <1>2, <1>3 DEF SavesEntry, JournalSave
  <2>2. drawn[c] \notin DOMAIN journal_entries /\ drawn[c] > 0
    BY <1>3 DEF SavesEntry, JournalSave, LedgerInv, NumbersInv, DrawnNumbersFresh,
                TypeInv, TypeOK, TablesOK
  <2>3. DOMAIN RecordedEntries' = DOMAIN RecordedEntries \cup {drawn[c]}
    BY <1>3 DEF SavesEntry, Put, RecordedEntries
  <2>4. \A m \in DOMAIN RecordedEntries : RecordedEntries'[m] = RecordedEntries[m]
    <3> SUFFICES ASSUME NEW m \in DOMAIN journal_entries
                 PROVE  RecordedEntries'[m] = RecordedEntries[m]
      BY DEF RecordedEntries
    <3>1. /\ m \in DOMAIN journal_entries' /\ m \in DOMAIN journal_lines'
          /\ m \in DOMAIN journal_lines
          /\ journal_entries'[m] = journal_entries[m] /\ journal_lines'[m] = journal_lines[m]
      BY EntriesKept DEF LedgerInv, NumbersInv
    <3> QED
      BY <3>1 DEF RecordedEntries, LinesOf
  <2>5. drawn[c] \notin DOMAIN RecordedEntries
    BY <2>2 DEF RecordedEntries
  <2> QED
    BY <2>1, <2>2, <2>3, <2>4, <2>5 DEF Ledger!Record, Ledger!Extends
<1>4. ASSUME NEW c \in Callers, PostsEntry(c), UNCHANGED <<journal_entries, journal_lines>>
      PROVE  Ledger!Post
  <2> DEFINE n == target[c]
             batch == DerivedPostings(n, journal_entries[n], LinesOf(n), c)
  <2>1. n \in DOMAIN RecordedEntries
    BY <1>4 DEF PostsEntry, RecordedEntries
  <2>2. n \notin DOMAIN PostedEntries
    BY <1>4 DEF PostsEntry, PostedEntries, PostingsOf
  <2>3. \A p \in batch : p.journal_number = n
    BY DEF DerivedPostings, PostingRow
  <2>4. batch # {} /\ postings' = postings \cup batch
    BY <1>4 DEF PostsEntry
  <2> HIDE DEF batch, n
  <2>5. DOMAIN PostedEntries' = DOMAIN PostedEntries \cup {n}
    BY <2>3, <2>4 DEF PostedEntries
  <2>6. \A m \in DOMAIN PostedEntries : PostedEntries'[m] = PostedEntries[m]
    <3> SUFFICES ASSUME NEW m \in DOMAIN PostedEntries
                 PROVE  PostedEntries'[m] = PostedEntries[m]
      OBVIOUS
    <3>1. m # n
      BY <2>2
    <3>2. PostingsOf(m)' = PostingsOf(m)
      BY <1>4, <3>1, OnePosted DEF n
    <3> QED
      BY <2>5, <3>2 DEF PostedEntries
  <2> QED
    BY <1>1, <1>4, <2>1, <2>2, <2>5, <2>6 DEF Ledger!Post, Ledger!Extends
<1>5. CASE UNCHANGED postings
  BY <1>1, <1>2, <1>3, <1>5, JournalWrites DEF Ledger!Next, Ledger!ledger
<1> QED
  BY <1>4, <1>5, PostingWrites DEF Ledger!Next

\* The services implement the abstract ledger: every step of every interleaving
\* records one fresh entry, posts one recorded entry whole, or leaves the
\* entries and their postings as they are.
THEOREM Refines == Spec => ImplementsLedger
  BY LedgerInitRefines, LedgerStepRefines, BooksKept, CallsHoldTheirInputs, PTL
     DEF Spec, ImplementsLedger, Ledger!Spec

-----------------------------------------------------------------------------
(* What callers are told *)

\* What caller c was told of its last call is so.
ToldTruth(c) ==
    LET n == outcome[c].number
    IN  /\ outcome[c].code = "POSTED" =>
              /\ PostingsOf(n) # {}
              /\ \A p \in PostingsOf(n) : p.created_by = c
        /\ outcome[c].code = "JOURNAL_ALREADY_POSTED" => PostingsOf(n) # {}
        /\ outcome[c].code = "RECORDED" =>
              /\ n \in DOMAIN journal_entries
              /\ \A d \in Callers \ {c} : outcome[d] # outcome[c]

\* Postings made stay made.
LEMMA PostingsStay ==
  ASSUME TypeInv, LedgerInv, [Next]_vars
  PROVE  \A n : PostingsOf(n) # {} => PostingsOf(n)' = PostingsOf(n)
<1>1. CASE UNCHANGED postings
  <2>1. \A n : {p \in postings' : p.journal_number = n} = {p \in postings : p.journal_number = n}
    BY <1>1
  <2> QED
    BY <2>1 DEF PostingsOf
<1> QED
  BY <1>1, PostingWrites, OnePosted

\* What a caller was told before stays so, unless another is told the same.
LEMMA TruthStays ==
  ASSUME TypeInv, LedgerInv, [Next]_vars, NEW d \in Callers, ToldTruth(d),
         outcome'[d] = outcome[d],
         \A e \in Callers \ {d} : outcome'[e] = outcome'[d] /\ outcome'[d].code = "RECORDED"
                                     => outcome[e] = outcome[d]
  PROVE  ToldTruth(d)'
<1> DEFINE n == outcome[d].number
<1>1. PostingsOf(n) # {} => {p \in postings' : p.journal_number = n} = PostingsOf(n)
  BY PostingsStay DEF PostingsOf
<1>2. n \in DOMAIN journal_entries => n \in DOMAIN journal_entries'
  BY EntriesKept DEF LedgerInv
<1> HIDE DEF n
<1> QED
  BY <1>1, <1>2 DEF ToldTruth, PostingsOf, n

\* A step in which nobody is told anything of the ledger keeps the truth.
LEMMA QuietTruth ==
  ASSUME TypeInv, LedgerInv, OutcomesTruthful, [Next]_vars, NEW c \in Callers, Quiet(c)
  PROVE  OutcomesTruthful'
<1>1. \A d \in Callers : ToldTruth(d)
  BY DEF OutcomesTruthful, ToldTruth
<1>2. ASSUME NEW d \in Callers PROVE ToldTruth(d)'
  <2>1. CASE outcome'[d].code \notin LedgerCodes
    BY <2>1 DEF ToldTruth, LedgerCodes
  <2>2. CASE outcome'[d].code \in LedgerCodes
    <3>1. outcome'[d] = outcome[d]
      BY <2>2 DEF Quiet
    <3>2. \A e \in Callers \ {d} : outcome'[e] = outcome'[d] => outcome[e] = outcome[d]
      BY <2>2, <3>1 DEF Quiet
    <3> QED
      BY <1>1, <3>1, <3>2, TruthStays
  <2> QED
    BY <2>1, <2>2
<1> QED
  BY <1>2 DEF OutcomesTruthful, ToldTruth

\* A journal save tells its caller the truth and makes no other outcome false.
LEMMA SaveTruth ==
  ASSUME TypeInv, LedgerInv, OutcomesTruthful, [Next]_vars,
         NEW c \in Callers, JournalSave(c)
  PROVE  OutcomesTruthful'
<1> DEFINE n == drawn[c]
<1>1. \A d \in Callers : ToldTruth(d)
  BY DEF OutcomesTruthful, ToldTruth
<1>2. /\ \A d \in Callers \ {c} : outcome'[d] = outcome[d]
      /\ outcome'[c].number = n
      /\ outcome'[c].code \notin {"POSTED", "JOURNAL_ALREADY_POSTED"}
      /\ outcome'[c].code = "RECORDED" => n \in DOMAIN journal_entries'
  BY DEF JournalSave, Finish, CommitReports, Put, TypeInv, TypeOK, CallsOK
<1>3. n \notin DOMAIN journal_entries
  BY DEF JournalSave, LedgerInv, NumbersInv, DrawnNumbersFresh
<1> HIDE DEF n
<1>4. ASSUME NEW d \in Callers \ {c}, outcome[d].code = "RECORDED"
      PROVE  outcome[d].number # n
  BY <1>1, <1>3, <1>4 DEF ToldTruth
<1>5. ASSUME NEW d \in Callers \ {c} PROVE ToldTruth(d)'
  <2>1. \A e \in Callers \ {d} : outcome'[e] = outcome'[d] /\ outcome'[d].code = "RECORDED"
                                    => outcome[e] = outcome[d]
    BY <1>2, <1>4
  <2> QED
    BY <1>1, <1>2, <2>1, TruthStays
<1>6. ToldTruth(c)'
  BY <1>2, <1>4 DEF ToldTruth
<1> QED
  BY <1>5, <1>6 DEF OutcomesTruthful, ToldTruth

\* A posting save tells its caller the truth and makes no other outcome false.
LEMMA PostTruth ==
  ASSUME TypeInv, LedgerInv, OutcomesTruthful, [Next]_vars,
         NEW c \in Callers, PostingStep(c), ~Quiet(c)
  PROVE  OutcomesTruthful'
<1>1. \A d \in Callers : ToldTruth(d)
  BY DEF OutcomesTruthful, ToldTruth
<1>2. \A d \in Callers \ {c} : outcome'[d] = outcome[d]
  BY PostingMoves
<1>3. ASSUME NEW n, n = outcome'[c].number,
             outcome'[c].code \notin {"RECORDED"},
             outcome'[c].code = "POSTED" =>
                /\ PostingsOf(n)' # {}
                /\ \A p \in PostingsOf(n)' : p.created_by = c,
             outcome'[c].code = "JOURNAL_ALREADY_POSTED" => PostingsOf(n)' # {}
      PROVE  OutcomesTruthful'
  <2>1. ToldTruth(c)'
    BY <1>3 DEF ToldTruth, PostingsOf
  <2>2. ASSUME NEW d \in Callers \ {c} PROVE ToldTruth(d)'
    BY <1>1, <1>2, <1>3, <2>2, TruthStays
  <2> QED
    BY <2>1, <2>2 DEF OutcomesTruthful, ToldTruth
<1>4. CASE PostCheckPosted(c)
  <2>1. /\ PostingsOf(target[c]) # {}
        /\ outcome'[c] = [code |-> "JOURNAL_ALREADY_POSTED", number |-> target[c]]
    BY <1>4, QuietMoves
       DEF PostCheckPosted, FinishPosting, Finish, TypeInv, TypeOK, CallsOK
  <2>2. \A n : n = target[c] => PostingsOf(n)' = PostingsOf(n)
    BY <2>1, PostingsStay
  <2> QED
    BY <1>3, <2>1, <2>2
<1>5. CASE PostSave(c)
  <2> DEFINE batch == DerivedPostings(target[c], entry[c].date, entry[c].lines, c)
  <2>1. /\ batch # {}
        /\ \A p \in batch : p.journal_number = target[c] /\ p.created_by = c
        /\ BatchViolatesConstraint(batch) <=> PostingsOf(target[c]) # {}
    BY <1>5, BatchRefused DEF LedgerInv, PostSave
  <2>2. CASE BatchViolatesConstraint(batch)
    <3>1. outcome'[c] = [code |-> "JOURNAL_ALREADY_POSTED", number |-> target[c]]
      BY <1>5, <2>2 DEF PostSave, FinishPosting, Finish, TypeInv, TypeOK, CallsOK
    <3>2. \A n : n = target[c] => PostingsOf(n)' # {}
      BY <2>1, <2>2, PostingsStay
    <3> QED
      BY <1>3, <3>1, <3>2
  <2>3. CASE ~BatchViolatesConstraint(batch)
    <3>1. /\ postings' = postings \cup batch
          /\ outcome'[c].number = target[c]
          /\ outcome'[c].code \in {"POSTED", "STORAGE_FAILURE"}
      BY <1>5, <2>3 DEF PostSave, FinishPosting, Finish, CommitReports, TypeInv, TypeOK, CallsOK
    <3> HIDE DEF batch
    <3>2. \A n : n = target[c] => {p \in postings' : p.journal_number = n} = batch
      BY <2>1, <2>3, <3>1 DEF PostingsOf
    <3>3. \A n : n = target[c] => PostingsOf(n)' = batch
      BY <3>2 DEF PostingsOf
    <3> QED
      BY <1>3, <2>1, <3>1, <3>3
  <2> QED
    BY <2>2, <2>3
<1>6. CASE BeginPosting(c) \/ PostSelectEntry(c) \/ PostSelectLines(c) \/ PostingFailure(c)
  BY <1>6, QuietMoves
     DEF BeginPosting, PostSelectEntry, PostSelectLines, PostingFailure, FinishPosting, LedgerCodes
<1> QED
  BY <1>4, <1>5, <1>6 DEF PostingStep, PostingNext

\* Every step keeps the outcomes truthful.
LEMMA TruthStep == TypeInv /\ LedgerInv /\ OutcomesTruthful /\ [Next]_vars => OutcomesTruthful'
<1> SUFFICES ASSUME TypeInv, LedgerInv, OutcomesTruthful, [Next]_vars PROVE OutcomesTruthful'
  OBVIOUS
<1>1. ASSUME NEW c \in Callers, Next, AccountStep(c) PROVE OutcomesTruthful'
  BY <1>1, AccountQuiet, QuietTruth
<1>2. ASSUME NEW c \in Callers, Next, JournalStep(c) PROVE OutcomesTruthful'
  <2>1. JournalNumber(c) => Quiet(c)
    BY QuietMoves DEF JournalNumber, LedgerCodes
  <2> QED
    BY <1>2, <2>1, JournalQuiet, QuietTruth, SaveTruth
<1>3. ASSUME NEW c \in Callers, Next, PostingStep(c) PROVE OutcomesTruthful'
  BY <1>3, QuietTruth, PostTruth
<1>4. ASSUME NEW c \in Callers, Next, BlankActorStep(c) PROVE OutcomesTruthful'
  BY <1>4, QuietMoves, QuietTruth DEF BlankActorStep, RejectBlankActor, LedgerCodes
<1>5. CASE UNCHANGED vars
  BY <1>5 DEF vars, tables, journalTables, callVars, OutcomesTruthful, PostingsOf
<1> QED
  BY <1>1, <1>2, <1>3, <1>4, <1>5 DEF Next

\* What the services tell their callers is so, and stays so: "posted" means
\* that every posting of the entry is the caller's own, "already posted" is
\* never a false alarm (rounding cannot trip the check constraint of the
\* postings), and "recorded" names an entry nobody else was told is theirs.
THEOREM Truthful == Spec => []OutcomesTruthful
<1>1. Init => OutcomesTruthful
  BY DEF Init, CallsInit, NoOutcome, OutcomesTruthful
<1> QED
  BY <1>1, TruthStep, CallsHoldTheirInputs, BooksKept, PTL DEF Spec

-----------------------------------------------------------------------------
(* The trial balance *)

\* The numbers of the entries that are posted.
PostedNumbers == {p.journal_number : p \in postings}

\* Every posted entry is one that posting read back and found balanced, as its
\* columns keep it.
BalancedInv == \A n \in PostedNumbers : IsBalanced(LinesOf(n))

\* The two amount columns of the postings.
DebitOf == [p \in postings |-> p.debit]
CreditOf == [p \in postings |-> p.credit]

\* Posting an entry that was read back as valid keeps every posted entry balanced.
LEMMA BalancedStep ==
  ASSUME TypeInv, LedgerInv, BalancedInv, [Next]_vars
  PROVE  BalancedInv'
<1> SUFFICES ASSUME NEW n \in PostedNumbers' PROVE IsBalanced(LinesOf(n))'
  BY DEF BalancedInv
<1>1. ASSUME n \in DOMAIN journal_entries, IsBalanced(LinesOf(n))
      PROVE  IsBalanced(LinesOf(n))'
  <2>1. LinesOf(n)' = LinesOf(n)
    BY <1>1, EntriesKept DEF LedgerInv, NumbersInv, LinesOf
  <2> QED
    BY <1>1, <2>1 DEF IsBalanced, TotalDebits, TotalCredits
<1>2. CASE n \in PostedNumbers
  BY <1>1, <1>2 DEF BalancedInv, LedgerInv, PostedWholeAndOnce, PostedNumbers
<1>3. ASSUME NEW c \in Callers, PostsEntry(c), n = target[c]
      PROVE  IsBalanced(LinesOf(n))'
  <2>1. HoldsEntry(c)
    BY <1>3 DEF PostsEntry, PostSave, LedgerInv, ReadInv
  <2>2. n \in DOMAIN journal_entries /\ IsBalanced(LinesOf(n))
    BY <1>3, <2>1 DEF HoldsEntry, ValidEntry, LedgerInv, NumbersInv, LinesOf
  <2> QED
    BY <1>1, <2>2
<1>4. ASSUME NEW c \in Callers, PostsEntry(c), n # target[c]
      PROVE  n \in PostedNumbers
  <2>1. PostingsOf(n)' = PostingsOf(n)
    BY <1>4, OnePosted
  <2>2. \E p \in postings' : p.journal_number = n
    BY DEF PostedNumbers
  <2> QED
    BY <2>1, <2>2 DEF PostingsOf, PostedNumbers
<1>5. CASE UNCHANGED postings
  BY <1>2, <1>5 DEF PostedNumbers
<1> QED
  BY <1>2, <1>3, <1>4, <1>5, PostingWrites

\* The postings of an entry: finitely many, of its date, with amounts that are
\* natural numbers, and the debits are the credits.
LEMMA EntryRows ==
  ASSUME TypeInv, LedgerInv, BalancedInv, NEW n \in PostedNumbers
  PROVE  /\ n \in DOMAIN journal_entries
         /\ IsFiniteSet(PostingsOf(n))
         /\ \A p \in PostingsOf(n) : p.posting_date = journal_entries[n]
         /\ SumFunctionOnSet(DebitOf, PostingsOf(n)) = SumFunctionOnSet(CreditOf, PostingsOf(n))
<1>1. n \in DOMAIN journal_entries
  BY DEF LedgerInv, PostedWholeAndOnce, PostedNumbers
<1>2. PICK c \in Callers : PostingsOf(n) = DerivedPostings(n, journal_entries[n], LinesOf(n), c)
  BY DEF LedgerInv, PostedWholeAndOnce, PostedNumbers
<1> DEFINE lines == LinesOf(n)
           I == DOMAIN lines
           g == [i \in I |-> PostingRow(n, journal_entries[n], i, lines[i], c)]
<1>3. lines \in Seq(Lines) /\ n \in DOMAIN journal_lines /\ lines = journal_lines[n]
  BY <1>1 DEF LedgerInv, NumbersInv, LinesOf, TypeInv, TypeOK, TablesOK
<1>4. IsFiniteSet(I)
  BY <1>3, FS_Interval
<1>5. PostingsOf(n) = {g[i] : i \in I}
  BY <1>2 DEF DerivedPostings
<1>6. ASSUME NEW i \in I
      PROVE  /\ g[i] \in postings
             /\ g[i].line_index = i
             /\ g[i].posting_date = journal_entries[n]
             /\ g[i].debit = lines[i].debit /\ g[i].debit \in Nat
             /\ g[i].credit = lines[i].credit /\ g[i].credit \in Nat
  <2>1. g[i] \in postings
    BY <1>5 DEF PostingsOf
  <2>2. lines[i] \in Lines /\ StoredLine(lines[i]) = lines[i]
    BY <1>3 DEF LedgerInv, StoredInv
  <2>3. /\ Numeric18_2(lines[i].debit) = lines[i].debit
        /\ Numeric18_2(lines[i].credit) = lines[i].credit
        /\ lines[i].debit \in Nat /\ lines[i].credit \in Nat
    BY <2>2 DEF StoredLine, Lines
  <2> QED
    BY <2>1, <2>3 DEF PostingRow
<1>7. IsBalanced(lines)
  BY DEF BalancedInv
<1> HIDE DEF g, lines
<1>8. IsFiniteSet(PostingsOf(n)) /\ \A p \in PostingsOf(n) : p.posting_date = journal_entries[n]
  BY <1>4, <1>5, <1>6, FiniteImage
<1>9. \A i, j \in I : g[i] = g[j] => i = j
  BY <1>6
<1>10. SumFunctionOnSet(DebitOf, PostingsOf(n)) = TotalDebits(lines)
  <2>1. Counts(DebitOf, {g[i] : i \in I})
    BY <1>6 DEF Counts, DebitOf
  <2>2. SumFunctionOnSet(DebitOf, {g[i] : i \in I})
           = SumFunctionOnSet([i \in I |-> DebitOf[g[i]]], I)
    BY <1>4, <1>9, <2>1, SumIndexed
  <2>3. [i \in I |-> DebitOf[g[i]]] = [i \in I |-> lines[i].debit]
    BY <1>6 DEF DebitOf
  <2> QED
    BY <1>5, <2>2, <2>3 DEF TotalDebits, SumFunction
<1>11. SumFunctionOnSet(CreditOf, PostingsOf(n)) = TotalCredits(lines)
  <2>1. Counts(CreditOf, {g[i] : i \in I})
    BY <1>6 DEF Counts, CreditOf
  <2>2. SumFunctionOnSet(CreditOf, {g[i] : i \in I})
           = SumFunctionOnSet([i \in I |-> CreditOf[g[i]]], I)
    BY <1>4, <1>9, <2>1, SumIndexed
  <2>3. [i \in I |-> CreditOf[g[i]]] = [i \in I |-> lines[i].credit]
    BY <1>6 DEF CreditOf
  <2> QED
    BY <1>5, <2>2, <2>3 DEF TotalCredits, SumFunction
<1> QED
  BY <1>1, <1>7, <1>8, <1>10, <1>11 DEF IsBalanced

\* The amounts of any postings are natural numbers.
LEMMA AmountsCount ==
  ASSUME TypeInv, NEW rows \in SUBSET postings
  PROVE  Counts(DebitOf, rows) /\ Counts(CreditOf, rows)
  BY DEF Counts, DebitOf, CreditOf, TypeInv, TypeOK, TablesOK, PostingRows

\* The postings up to a date are those of the entries up to that date, so
\* their debits are their credits.
LEMMA ScopeBalances ==
  ASSUME TypeInv, LedgerInv, BalancedInv, NEW asOf
  PROVE  /\ IsFiniteSet(InScope(asOf))
         /\ SumFunctionOnSet(DebitOf, InScope(asOf)) = SumFunctionOnSet(CreditOf, InScope(asOf))
<1> DEFINE K == {n \in PostedNumbers : asOf = None \/ journal_entries[n] <= asOf}
           group == [n \in K |-> PostingsOf(n)]
<1>1. IsFiniteSet(K)
  <2>1. K \subseteq 1 .. journal_seq
    BY DEF LedgerInv, NumbersInv, PostedWholeAndOnce, PostedNumbers
  <2>2. IsFiniteSet(1 .. journal_seq)
    BY FS_Interval DEF TypeInv, TypeOK, TablesOK
  <2> QED
    BY <2>1, <2>2, FS_Subset
<1>2. \A n \in K : IsFiniteSet(group[n]) /\ Counts(DebitOf, group[n]) /\ Counts(CreditOf, group[n])
  BY EntryRows, AmountsCount DEF PostingsOf
<1>3. \A m, n \in K : m # n => group[m] \cap group[n] = {}
  BY DEF PostingsOf
<1>4. InScope(asOf) = UNION {group[n] : n \in K}
  <2>1. ASSUME NEW p \in InScope(asOf) PROVE p \in UNION {group[n] : n \in K}
    <3>1. p.journal_number \in PostedNumbers /\ p \in PostingsOf(p.journal_number)
      BY <2>1 DEF InScope, PostedNumbers, PostingsOf
    <3>2. p.posting_date = journal_entries[p.journal_number]
      BY <3>1, EntryRows
    <3>3. p.journal_number \in K
      BY <2>1, <3>1, <3>2 DEF InScope
    <3> QED
      BY <3>1, <3>3
  <2>2. ASSUME NEW n \in K, NEW p \in PostingsOf(n) PROVE p \in InScope(asOf)
    <3>1. p.posting_date = journal_entries[n]
      BY EntryRows
    <3> QED
      BY <3>1 DEF InScope, PostingsOf
  <2> QED
    BY <2>1, <2>2
<1> HIDE DEF K, group
<1>5. /\ IsFiniteSet(InScope(asOf))
      /\ SumFunctionOnSet(DebitOf, InScope(asOf))
            = SumFunctionOnSet([n \in K |-> SumFunctionOnSet(DebitOf, group[n])], K)
  <2>1. \A n \in K : IsFiniteSet(group[n]) /\ Counts(DebitOf, group[n])
    BY <1>2
  <2>2. IsFiniteSet(UNION {group[n] : n \in K})
    BY <1>1, <1>2, FiniteImage, FS_UNION
  <2>3. SumFunctionOnSet(DebitOf, UNION {group[n] : n \in K})
           = SumFunctionOnSet([n \in K |-> SumFunctionOnSet(DebitOf, group[n])], K)
    BY <1>1, <1>3, <2>1, SumGrouped
  <2> QED
    BY <1>4, <2>2, <2>3
<1>6. SumFunctionOnSet(CreditOf, InScope(asOf))
         = SumFunctionOnSet([n \in K |-> SumFunctionOnSet(CreditOf, group[n])], K)
  <2>1. \A n \in K : IsFiniteSet(group[n]) /\ Counts(CreditOf, group[n])
    BY <1>2
  <2>2. SumFunctionOnSet(CreditOf, UNION {group[n] : n \in K})
           = SumFunctionOnSet([n \in K |-> SumFunctionOnSet(CreditOf, group[n])], K)
    BY <1>1, <1>3, <2>1, SumGrouped
  <2> QED
    BY <1>4, <2>2
<1>7. \A n \in K : SumFunctionOnSet(DebitOf, group[n]) = SumFunctionOnSet(CreditOf, group[n])
  BY EntryRows DEF K, group
<1>8. [n \in K |-> SumFunctionOnSet(DebitOf, group[n])]
         = [n \in K |-> SumFunctionOnSet(CreditOf, group[n])]
  BY <1>7
<1> QED
  BY <1>5, <1>6, <1>8

\* GROUP BY account_key: the groups of the rows R, and one of them.
KeysOf(R) == {p.account_key : p \in R}
GroupOf(R, key) == {p \in R : p.account_key = key}

\* Adding up rows account by account adds them all up, once each.
LEMMA SumByAccount ==
  ASSUME NEW R, IsFiniteSet(R), NEW f, Counts(f, R)
  PROVE  /\ IsFiniteSet(KeysOf(R))
         /\ \A k \in KeysOf(R) : SumFunctionOnSet(f, GroupOf(R, k)) \in Nat
         /\ SumFunctionOnSet(f, R)
               = SumFunctionOnSet([k \in KeysOf(R) |-> SumFunctionOnSet(f, GroupOf(R, k))],
                                  KeysOf(R))
<1> DEFINE K == KeysOf(R)
           group == [k \in K |-> GroupOf(R, k)]
           key == [p \in R |-> p.account_key]
<1>1. IsFiniteSet(K)
  <2>1. K = {key[p] : p \in R}
    BY DEF KeysOf
  <2> HIDE DEF key
  <2>2. IsFiniteSet({key[p] : p \in R})
    BY FiniteImage
  <2> QED
    BY <2>1, <2>2
<1>2. \A k \in K : group[k] \in SUBSET R
  BY DEF GroupOf
<1>3. \A k \in K : IsFiniteSet(group[k]) /\ Counts(f, group[k])
  BY <1>2, FS_Subset DEF Counts
<1>4. \A k, l \in K : k # l => group[k] \cap group[l] = {}
  BY DEF GroupOf
<1>5. \A p \in R : p.account_key \in K /\ p \in group[p.account_key]
  BY DEF GroupOf, KeysOf
<1>6. \A k \in K : group[k] = GroupOf(R, k)
  OBVIOUS
<1> HIDE DEF group, K
<1>7. R = UNION {group[k] : k \in K}
  BY <1>2, <1>5
<1>8. SumFunctionOnSet(f, UNION {group[k] : k \in K})
         = SumFunctionOnSet([k \in K |-> SumFunctionOnSet(f, group[k])], K)
  BY <1>1, <1>3, <1>4, SumGrouped
<1>9. \A k \in K : SumFunctionOnSet(f, group[k]) \in Nat
  BY <1>3, SumIsNat
<1>10. [k \in K |-> SumFunctionOnSet(f, group[k])]
          = [k \in K |-> SumFunctionOnSet(f, GroupOf(R, k))]
  BY <1>6
<1> QED
  BY <1>1, <1>6, <1>7, <1>8, <1>9, <1>10 DEF K

\* One total per account, added up, is the sum of the rows.
LEMMA GroupedTotals ==
  ASSUME NEW R, IsFiniteSet(R), NEW f, Counts(f, R),
         NEW e, \A k, l \in KeysOf(R) : e[k] = e[l] => k = l,
         NEW h, \A k \in KeysOf(R) : h[e[k]] = SumFunctionOnSet(f, GroupOf(R, k))
  PROVE  SumFunctionOnSet(h, {e[k] : k \in KeysOf(R)}) = SumFunctionOnSet(f, R)
<1> DEFINE K == KeysOf(R)
<1>1. /\ IsFiniteSet(K)
      /\ \A k \in K : SumFunctionOnSet(f, GroupOf(R, k)) \in Nat
      /\ SumFunctionOnSet(f, R)
            = SumFunctionOnSet([k \in K |-> SumFunctionOnSet(f, GroupOf(R, k))], K)
  BY SumByAccount
<1>2. Counts(h, {e[k] : k \in K})
  BY <1>1 DEF Counts
<1>3. SumFunctionOnSet(h, {e[k] : k \in K}) = SumFunctionOnSet([k \in K |-> h[e[k]]], K)
  BY <1>1, <1>2, SumIndexed
<1>4. [k \in K |-> h[e[k]]] = [k \in K |-> SumFunctionOnSet(f, GroupOf(R, k))]
  OBVIOUS
<1> QED
  BY <1>1, <1>3, <1>4

\* The trial balance adds up the postings in its scope.
LEMMA BalancesTotal ==
  ASSUME TypeInv, LedgerInv, BalancedInv, NEW asOf, NEW entries,
         entries = get_account_balances(asOf)
  PROVE  /\ SumFunction([e \in entries |-> e.debit_total])
               = SumFunctionOnSet(DebitOf, InScope(asOf))
         /\ SumFunction([e \in entries |-> e.credit_total])
               = SumFunctionOnSet(CreditOf, InScope(asOf))
<1> DEFINE R == InScope(asOf)
           K == KeysOf(R)
           debits(k) == SumFunction([p \in GroupOf(R, k) |-> p.debit])
           credits(k) == SumFunction([p \in GroupOf(R, k) |-> p.credit])
           row == [k \in K |-> [account_key |-> k, debit_total |-> debits(k),
                                credit_total |-> credits(k)]]
           debitTotal == [e \in entries |-> e.debit_total]
           creditTotal == [e \in entries |-> e.credit_total]
<1>1. entries = {row[k] : k \in K}
  BY DEF get_account_balances, Amounts, KeysOf, GroupOf
<1>2. IsFiniteSet(R) /\ R \in SUBSET postings
  BY ScopeBalances DEF InScope
<1>3. Counts(DebitOf, R) /\ Counts(CreditOf, R)
  BY <1>2, AmountsCount
<1>4. ASSUME NEW k
      PROVE  /\ debits(k) = SumFunctionOnSet(DebitOf, GroupOf(R, k))
             /\ credits(k) = SumFunctionOnSet(CreditOf, GroupOf(R, k))
  <2> DEFINE rows == GroupOf(R, k)
  <2>1. rows \in SUBSET postings /\ IsFiniteSet(rows)
    BY <1>2, FS_Subset DEF GroupOf
  <2> HIDE DEF rows
  <2>2. /\ Agree([p \in rows |-> p.debit], DebitOf, rows)
        /\ Agree([p \in rows |-> p.credit], CreditOf, rows)
    BY <2>1 DEF Agree, DebitOf, CreditOf
  <2>3. /\ SumFunctionOnSet([p \in rows |-> p.debit], rows) = SumFunctionOnSet(DebitOf, rows)
        /\ SumFunctionOnSet([p \in rows |-> p.credit], rows) = SumFunctionOnSet(CreditOf, rows)
    BY <2>1, <2>2, SumSame
  <2>4. /\ SumFunction([p \in rows |-> p.debit]) = SumFunctionOnSet([p \in rows |-> p.debit], rows)
        /\ SumFunction([p \in rows |-> p.credit]) = SumFunctionOnSet([p \in rows |-> p.credit], rows)
    BY DEF SumFunction
  <2> QED
    BY <2>3, <2>4 DEF rows
<1> HIDE DEF R, debits, credits
<1>5. \A k, l \in K : row[k] = row[l] => k = l
  OBVIOUS
<1>6. \A k \in K : /\ row[k] \in entries
                   /\ row[k].debit_total = SumFunctionOnSet(DebitOf, GroupOf(R, k))
                   /\ row[k].credit_total = SumFunctionOnSet(CreditOf, GroupOf(R, k))
  BY <1>1, <1>4
<1> HIDE DEF row
<1>7. \A k \in K : /\ debitTotal[row[k]] = SumFunctionOnSet(DebitOf, GroupOf(R, k))
                   /\ creditTotal[row[k]] = SumFunctionOnSet(CreditOf, GroupOf(R, k))
  BY <1>6
<1>8. SumFunction(debitTotal) = SumFunctionOnSet(debitTotal, entries)
      /\ SumFunction(creditTotal) = SumFunctionOnSet(creditTotal, entries)
  BY DEF SumFunction
<1> HIDE DEF debitTotal, creditTotal
<1>9. SumFunctionOnSet(debitTotal, {row[k] : k \in K}) = SumFunctionOnSet(DebitOf, R)
  BY <1>2, <1>3, <1>5, <1>7, GroupedTotals
<1>10. SumFunctionOnSet(creditTotal, {row[k] : k \in K}) = SumFunctionOnSet(CreditOf, R)
  BY <1>2, <1>3, <1>5, <1>7, GroupedTotals
<1> QED
  BY <1>1, <1>8, <1>9, <1>10 DEF R, debitTotal, creditTotal

\* In every reachable state the stored lines of every posted entry balance:
\* an entry that rounding unbalanced is refused when posting reads it back.
THEOREM PostedBalanced == Spec => []BalancedInv
<1>1. Init => BalancedInv
  BY DEF Init, StorageInit, BalancedInv, PostedNumbers
<1> QED
  BY <1>1, BalancedStep, CallsHoldTheirInputs, BooksKept, PTL DEF Spec

\* The trial balance balances at every cut-off date, however many accounts,
\* entries and callers there are, and although callers submit amounts the
\* columns round: grouping the postings by account loses none and counts
\* none twice, and the postings of each entry in scope are its stored lines.
THEOREM Balances == Spec => []TrialBalanceBalances
<1>1. TypeInv /\ LedgerInv /\ BalancedInv => TrialBalanceBalances
  BY ScopeBalances, BalancesTotal DEF TrialBalanceBalances, TrialBalanceIsBalanced
<1> QED
  BY <1>1, PostedBalanced, CallsHoldTheirInputs, BooksKept, PTL
=============================================================================
