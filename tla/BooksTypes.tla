----------------------------- MODULE BooksTypes -----------------------------
(***************************************************************************)
(* Books is well typed, for every number of callers, every chart to start  *)
(* with, every set of inputs and every bound.  The inductive invariant     *)
(* adds to TypeOK what a call in progress holds at each of its statements. *)
(***************************************************************************)
EXTENDS Books, FiniteSetTheorems, SequenceTheorems, TLAPS

-----------------------------------------------------------------------------
(* Names and amounts *)

\* Cleaning a name fails or yields a clean name, and leaves clean names alone.
LEMMA CleaningNames ==
    /\ \A n \in Names : clean_account_name(n) = None \/ clean_account_name(n) \in CleanNames
    /\ \A n \in CleanNames : clean_account_name(n) = n /\ n # None /\ n \in Names
    /\ \A n \in Names : account_lookup_key(n) \in LookupKeys
  BY StorageAssumption
     DEF clean_account_name, Names, CleanNames, account_lookup_key, LookupKeys

\* A stored amount is a natural number.
LEMMA StoredAmounts == \A n \in Nat : Numeric18_2(n) \in Nat
<1> SUFFICES ASSUME NEW n \in Nat PROVE Numeric18_2(n) \in Nat
  OBVIOUS
<1> DEFINE q == (2 * n + SubUnits) \div (2 * SubUnits)
<1>1. q \in Nat
  BY StorageAssumption, SMTT(30)
<1> QED
  BY <1>1, StorageAssumption DEF Numeric18_2

-----------------------------------------------------------------------------
(* What the calls in progress hold *)

\* What account call c holds, by the statement it is about to execute.
AccountInputs(c) ==
    /\ pc[c] \in AccountPcs => dto[c] \in AccountDtos
    /\ pc[c] \in {"create.code", "create.name", "create.insert"} =>
          dto[c].name # None /\ dto[c].category # None
    /\ pc[c] = "create.insert" => clean_account_name(dto[c].name) # None
    /\ pc[c] \in {"update.name", "update.select", "update.commit", "delete.postings"} =>
          existing[c] \in ExistingAccounts
    /\ pc[c] \in {"update.select", "update.commit"} =>
          clean_account_name(NewName(c)) # None
    /\ pc[c] \in {"update.commit", "delete.commit"} => loaded[c] \in AccountRows

\* What journal call c holds.
JournalInputs(c) ==
    /\ pc[c] \in {"journal.chart", "journal.number", "journal.save"} =>
          request[c] \in EntryInputs
    /\ pc[c] = "journal.save" => BuildsEntry(request[c])

\* What posting call c holds.
PostingInputs(c) ==
    /\ pc[c] = "post.lines" => target[c] \in DOMAIN journal_entries
    /\ pc[c] \in {"post.check", "post.save"} => entry[c] \in ReadEntries

InputsOK == \A c \in Callers : AccountInputs(c) /\ JournalInputs(c) /\ PostingInputs(c)

TypeInv == TypeOK /\ InputsOK

\* The initial database and the idle callers are well typed.
LEMMA TypeInit == Init => TypeInv
<1> SUFFICES ASSUME Init PROVE TypeInv
  OBVIOUS
<1> USE DEF Init, StorageInit, CallsInit, AccountInit, JournalInit, PostingInit
<1>1. TypeOK
  <2>1. account_id \in Nat
    BY StorageAssumption, FS_CardinalityType
  <2>2. audit_events \in [Codes -> [AuditActions -> Nat]]
    OBVIOUS
  <2>3. outcome \in [Callers -> [code : OutcomeCodes, number : Nat]]
    BY DEF NoOutcome, OutcomeCodes
  <2>4. TablesOK
    BY <2>1, <2>2, StorageAssumption DEF TablesOK
  <2> QED
    BY <2>3, <2>4 DEF TypeOK, CallsOK, AccountCallsOK, JournalCallsOK, PostingCallsOK
<1>2. InputsOK
  BY DEF InputsOK, AccountInputs, JournalInputs, PostingInputs, AccountPcs
<1> QED
  BY <1>1, <1>2 DEF TypeInv

-----------------------------------------------------------------------------
(* Steps every call shares *)

Pcs == {"idle"} \cup AccountPcs \cup JournalPcs \cup PostingPcs

\* A call begins, goes on or ends.
LEMMA BeginTypes ==
  ASSUME CallsOK, NEW c \in Callers, NEW next \in Pcs, Begin(c, next)
  PROVE  CallsOK' /\ pc[c] = "idle" /\ pc' = [pc EXCEPT ![c] = next]
<1>1. NoOutcome \in [code : OutcomeCodes, number : Nat]
  BY DEF NoOutcome, OutcomeCodes
<1> QED
  BY <1>1 DEF CallsOK, Begin, Pcs

\* A call that goes on to a known statement leaves the calls well typed.
LEMMA ContinueTypes ==
  ASSUME CallsOK, NEW c \in Callers, NEW next \in Pcs, Continue(c, next)
  PROVE  CallsOK' /\ pc' = [pc EXCEPT ![c] = next]
  BY DEF CallsOK, Continue, Pcs

\* A call that ends with a known code leaves the calls well typed.
LEMMA FinishTypes ==
  ASSUME CallsOK, NEW c \in Callers, NEW code \in OutcomeCodes, NEW n \in Nat,
         Finish(c, code, n)
  PROVE  CallsOK' /\ pc' = [pc EXCEPT ![c] = "idle"]
<1> DEFINE told == [code |-> code, number |-> n]
<1>1. told \in [code : OutcomeCodes, number : Nat]
  OBVIOUS
<1>2. outcome' = [outcome EXCEPT ![c] = told] /\ pc' = [pc EXCEPT ![c] = "idle"]
  BY DEF Finish
<1> HIDE DEF told
<1>3. pc' \in [Callers -> {"idle"} \cup AccountPcs \cup JournalPcs \cup PostingPcs]
  BY <1>2 DEF CallsOK
<1>4. outcome' \in [Callers -> [code : OutcomeCodes, number : Nat]]
  BY <1>1, <1>2 DEF CallsOK
<1> QED
  BY <1>2, <1>3, <1>4 DEF CallsOK

\* An account call that ends forgets its input and what it read.
LEMMA FinishAccountTypes ==
  ASSUME CallsOK, AccountCallsOK, NEW c \in Callers, NEW code \in OutcomeCodes,
         FinishAccountCall(c, code)
  PROVE  CallsOK' /\ AccountCallsOK' /\ pc' = [pc EXCEPT ![c] = "idle"]
<1>1. CallsOK' /\ pc' = [pc EXCEPT ![c] = "idle"]
  BY FinishTypes DEF FinishAccountCall
<1>2. AccountCallsOK'
  BY DEF AccountCallsOK, FinishAccountCall, ForgetAccountCall
<1> QED
  BY <1>1, <1>2

\* One more audit row is one more audit row.
LEMMA AuditedTypes ==
  ASSUME TablesOK, NEW code \in Codes, NEW action \in AuditActions
  PROVE  Audited(action, code) \in [Codes -> [AuditActions -> Nat]]
  BY DEF TablesOK, Audited

\* A row found is a row of the table.
LEMMA RowFound ==
  ASSUME TablesOK, NEW code
  PROVE  RowByCode(code) # None =>
            RowByCode(code) \in accounts /\ RowByCode(code).code = code
  BY DEF RowByCode, RowsByCode

-----------------------------------------------------------------------------
(* The account service *)

\* A step of an account call concerns no journal or posting call, and no
\* other account call.
LEMMA AccountFrame ==
  ASSUME TypeInv, NEW c \in Callers, NEW next \in {"idle"} \cup AccountPcs,
         TablesOK', CallsOK', AccountCallsOK',
         pc' = [pc EXCEPT ![c] = next],
         UNCHANGED <<journal_entries, journalCallVars, postingCallVars>>,
         \A d \in Callers \ {c} :
            /\ dto'[d] = dto[d]
            /\ existing'[d] = existing[d]
            /\ loaded'[d] = loaded[d],
         AccountInputs(c)'
  PROVE  TypeInv'
<1>1. TypeOK'
  BY DEF TypeInv, TypeOK, JournalCallsOK, PostingCallsOK, journalCallVars, postingCallVars
<1>2. pc'[c] = next /\ \A d \in Callers \ {c} : pc'[d] = pc[d]
  BY DEF TypeInv, TypeOK, CallsOK
<1>3. ASSUME NEW d \in Callers
      PROVE  (AccountInputs(d) /\ JournalInputs(d) /\ PostingInputs(d))'
  <2>1. AccountInputs(d) /\ JournalInputs(d) /\ PostingInputs(d)
    BY DEF TypeInv, InputsOK
  <2>2. CASE d = c
    BY <1>2, <2>2 DEF AccountPcs, JournalInputs, PostingInputs
  <2>3. CASE d # c
    BY <1>2, <2>1, <2>3
       DEF AccountInputs, JournalInputs, PostingInputs, NewName, journalCallVars, postingCallVars
  <2> QED
    BY <2>2, <2>3
<1> QED
  BY <1>1, <1>3 DEF TypeInv, InputsOK

\* A call that ends needs only leave the tables well typed.
LEMMA AccountFinish ==
  ASSUME TypeInv, NEW c \in Callers, NEW code \in OutcomeCodes, TablesOK',
         FinishAccountCall(c, code),
         UNCHANGED <<journal_entries, journalCallVars, postingCallVars>>
  PROVE  TypeInv'
<1>1. CallsOK' /\ AccountCallsOK' /\ pc' = [pc EXCEPT ![c] = "idle"]
  BY FinishAccountTypes DEF TypeInv, TypeOK
<1>2. \A d \in Callers \ {c} : dto'[d] = dto[d] /\ existing'[d] = existing[d]
                                /\ loaded'[d] = loaded[d]
  BY DEF TypeInv, TypeOK, AccountCallsOK, FinishAccountCall, ForgetAccountCall
<1>3. AccountInputs(c)'
  BY <1>1 DEF TypeInv, TypeOK, CallsOK, AccountInputs, AccountPcs
<1> QED
  BY <1>1, <1>2, <1>3, AccountFrame

\* A step that leaves the tables alone leaves them well typed.
LEMMA SameTables ==
  ASSUME TablesOK, UNCHANGED tables PROVE TablesOK'
  BY DEF TablesOK, tables, accountTables, journalTables

\* Beginning, or going on with, an account call.
LEMMA AccountAdvance ==
  ASSUME TypeInv, NEW c \in Callers, NEW next \in AccountPcs,
         Begin(c, next) \/ Continue(c, next),
         UNCHANGED <<tables, journalCallVars, postingCallVars>>, AccountCallsOK',
         \A d \in Callers \ {c} : dto'[d] = dto[d] /\ existing'[d] = existing[d]
                                   /\ loaded'[d] = loaded[d],
         pc'[c] = next => AccountInputs(c)'
  PROVE  TypeInv'
<1>1. next \in Pcs
  BY DEF Pcs
<1>2. CallsOK' /\ pc' = [pc EXCEPT ![c] = next]
  BY <1>1, BeginTypes, ContinueTypes DEF TypeInv, TypeOK
<1>3. pc'[c] = next
  BY <1>2 DEF TypeInv, TypeOK, CallsOK
<1> QED
  BY <1>2, <1>3, AccountFrame, SameTables DEF TypeInv, TypeOK, tables, journalTables

\* An account call begins with a well-typed input.
LEMMA BeginAccountTypes ==
  ASSUME TypeInv, NEW c \in Callers, NEW d \in AccountDtos, NEW first,
         first \in {"create.code", "update.get", "delete.get"},
         first = "create.code" => d.name # None /\ d.category # None,
         BeginAccountCall(c, d, first), UNCHANGED <<journalCallVars, postingCallVars>>
  PROVE  TypeInv'
<1>1. first \in AccountPcs
  BY DEF AccountPcs
<1>2. AccountCallsOK'
  BY DEF TypeInv, TypeOK, AccountCallsOK, BeginAccountCall
<1>3. \A e \in Callers \ {c} : dto'[e] = dto[e] /\ existing'[e] = existing[e]
                                /\ loaded'[e] = loaded[e]
  BY DEF TypeInv, TypeOK, AccountCallsOK, BeginAccountCall
<1>4. dto'[c] = d
  BY DEF TypeInv, TypeOK, AccountCallsOK, BeginAccountCall
<1>5. pc'[c] = first => AccountInputs(c)'
  BY <1>4 DEF AccountInputs
<1> QED
  BY <1>1, <1>2, <1>3, <1>5, AccountAdvance DEF BeginAccountCall

\* The statements of create_account keep the types.
LEMMA CreateTypes ==
  ASSUME TypeInv, NEW c \in Callers, UNCHANGED <<journalCallVars, postingCallVars>>,
         BeginCreate(c) \/ CreateCheckCode(c) \/ CreateCheckName(c) \/ CreateInsert(c)
  PROVE  TypeInv'
<1>1. AccountInputs(c) /\ TablesOK /\ CallsOK /\ AccountCallsOK
  BY DEF TypeInv, TypeOK, InputsOK
<1>2. CASE BeginCreate(c)
  BY <1>2, BeginAccountTypes DEF BeginCreate
<1>3. CASE CreateCheckCode(c)
  <2>1. CASE FinishAccountCall(c, "DUPLICATE_ACCOUNT_CODE") /\ UNCHANGED tables
    BY <1>1, <2>1, AccountFinish, SameTables DEF tables, journalTables, OutcomeCodes
  <2>2. CASE Continue(c, "create.name") /\ UNCHANGED <<tables, accountCallVars>>
                /\ pc[c] = "create.code"
    <3>1. AccountCallsOK' /\ "create.name" \in AccountPcs
      BY <1>1, <2>2 DEF AccountCallsOK, accountCallVars, AccountPcs
    <3>2. pc'[c] = "create.name" => AccountInputs(c)'
      BY <1>1, <2>2 DEF AccountInputs, accountCallVars, AccountPcs
    <3> QED
      BY <2>2, <3>1, <3>2, AccountAdvance DEF accountCallVars
  <2> QED
    BY <1>3, <2>1, <2>2 DEF CreateCheckCode
<1>4. CASE CreateCheckName(c)
  <2>1. CASE (\E code \in {"DUPLICATE_ACCOUNT_NAME", "VALIDATION_ERROR"} :
                FinishAccountCall(c, code)) /\ UNCHANGED tables
    BY <1>1, <2>1, AccountFinish, SameTables DEF tables, journalTables, OutcomeCodes
  <2>2. CASE Continue(c, "create.insert") /\ UNCHANGED <<tables, accountCallVars>>
                /\ pc[c] = "create.name" /\ clean_account_name(dto[c].name) # None
    <3>1. AccountCallsOK' /\ "create.insert" \in AccountPcs
      BY <1>1, <2>2 DEF AccountCallsOK, accountCallVars, AccountPcs
    <3>2. pc'[c] = "create.insert" => AccountInputs(c)'
      BY <1>1, <2>2 DEF AccountInputs, accountCallVars, AccountPcs
    <3> QED
      BY <2>2, <3>1, <3>2, AccountAdvance DEF accountCallVars
  <2> QED
    BY <1>4, <2>1, <2>2 DEF CreateCheckName
<1>5. CASE CreateInsert(c)
  <2> DEFINE name == clean_account_name(dto[c].name)
             row == [id |-> account_id + 1, code |-> dto[c].code, name |-> name,
                     name_key |-> account_lookup_key(name),
                     category |-> dto[c].category]
  <2>1. dto[c] \in AccountDtos /\ dto[c].name # None /\ dto[c].category # None
        /\ name # None
    BY <1>1, <1>5 DEF CreateInsert, AccountInputs, AccountPcs
  <2>2. name \in CleanNames /\ account_lookup_key(name) \in LookupKeys
    BY <2>1, CleaningNames, AccountAssumption DEF AccountDtos
  <2>3. row \in AccountRows
    BY <1>1, <2>1, <2>2 DEF AccountRows, AccountDtos, TablesOK
  <2>4. CASE \E code \in {"DUPLICATE_ACCOUNT_CODE", "DUPLICATE_ACCOUNT_NAME"} :
               FinishAccountCall(c, code) /\ UNCHANGED tables
    BY <1>1, <2>4, AccountFinish, SameTables DEF tables, journalTables, OutcomeCodes
  <2>5. CASE /\ account_id' = account_id + 1
             /\ accounts' = accounts \cup {row}
             /\ audit_events' = Audited("CREATE", dto[c].code)
             /\ \E report \in CommitReports : FinishAccountCall(c, report)
             /\ UNCHANGED <<journalTables, postings>>
    <3>1. audit_events' \in [Codes -> [AuditActions -> Nat]]
      BY <1>1, <2>1, <2>5, AuditedTypes DEF AccountDtos, AuditActions
    <3>2. TablesOK'
      BY <1>1, <2>3, <2>5, <3>1 DEF TablesOK, journalTables
    <3> QED
      BY <2>5, <3>2, AccountFinish DEF CommitReports, OutcomeCodes, journalTables
  <2> QED
    BY <1>5, <2>4, <2>5 DEF CreateInsert, InsertConflict, tables, accountTables
<1> QED
  BY <1>2, <1>3, <1>4, <1>5

\* The checks of update_account keep the types.
LEMMA UpdateTypes ==
  ASSUME TypeInv, NEW c \in Callers, UNCHANGED <<journalCallVars, postingCallVars>>,
         BeginUpdate(c) \/ UpdateGet(c) \/ UpdateCheckName(c)
  PROVE  TypeInv'
<1>1. AccountInputs(c) /\ TablesOK /\ CallsOK /\ AccountCallsOK
  BY DEF TypeInv, TypeOK, InputsOK
<1>2. CASE BeginUpdate(c)
  BY <1>2, BeginAccountTypes DEF BeginUpdate
<1>3. CASE UpdateGet(c)
  <2> DEFINE row == RowByCode(dto[c].code)
             next == IF dto[c].name \in {None, row.name}
                     THEN "update.select" ELSE "update.name"
             read == [code |-> row.code, name |-> row.name, category |-> row.category]
  <2>1. CASE FinishAccountCall(c, "UNKNOWN_ACCOUNT") /\ UNCHANGED tables
    BY <1>1, <2>1, AccountFinish, SameTables DEF tables, journalTables, OutcomeCodes
  <2>2. CASE /\ pc[c] = "update.get" /\ row # None
             /\ existing' = [existing EXCEPT ![c] = read]
             /\ Continue(c, next)
             /\ UNCHANGED <<dto, loaded, tables>>
    <3>1. row \in AccountRows
      BY <1>1, <2>2, RowFound DEF TablesOK
    <3>2. read \in ExistingAccounts
      BY <3>1 DEF AccountRows, ExistingAccounts
    <3>3. AccountCallsOK' /\ next \in AccountPcs
      BY <1>1, <2>2, <3>2 DEF AccountCallsOK, AccountPcs
    <3>4. \A d \in Callers \ {c} : existing'[d] = existing[d]
      BY <1>1, <2>2 DEF AccountCallsOK
    <3>5. existing'[c] = read
      BY <1>1, <2>2 DEF AccountCallsOK
    <3>6. next = "update.select" => NewName(c)' = row.name
      BY <2>2, <3>5 DEF NewName
    <3>7. clean_account_name(row.name) # None
      BY <3>1, CleaningNames DEF AccountRows
    <3>8. (clean_account_name(NewName(c)))' = clean_account_name(NewName(c)')
      BY DEF clean_account_name
    <3>9. pc'[c] = next => AccountInputs(c)'
      BY <1>1, <2>2, <3>2, <3>5, <3>6, <3>7, <3>8 DEF AccountInputs, AccountPcs
    <3> QED
      BY <2>2, <3>3, <3>4, <3>9, AccountAdvance
  <2> QED
    BY <1>3, <2>1, <2>2 DEF UpdateGet
<1>4. CASE UpdateCheckName(c)
  <2>1. CASE (\E code \in {"DUPLICATE_ACCOUNT_NAME", "VALIDATION_ERROR"} :
                FinishAccountCall(c, code)) /\ UNCHANGED tables
    BY <1>1, <2>1, AccountFinish, SameTables DEF tables, journalTables, OutcomeCodes
  <2>2. CASE Continue(c, "update.select") /\ UNCHANGED <<tables, accountCallVars>>
                /\ pc[c] = "update.name" /\ clean_account_name(NewName(c)) # None
    <3>1. AccountCallsOK' /\ "update.select" \in AccountPcs
      BY <1>1, <2>2 DEF AccountCallsOK, accountCallVars, AccountPcs
    <3>2. pc'[c] = "update.select" => AccountInputs(c)'
      BY <1>1, <2>2 DEF AccountInputs, accountCallVars, AccountPcs, NewName
    <3> QED
      BY <2>2, <3>1, <3>2, AccountAdvance DEF accountCallVars
  <2> QED
    BY <1>4, <2>1, <2>2 DEF UpdateCheckName
<1> QED
  BY <1>2, <1>3, <1>4

\* The SELECT an account write starts with keeps the types.
LEMMA SelectTypes ==
  ASSUME TypeInv, NEW c \in Callers, UNCHANGED <<journalCallVars, postingCallVars>>,
         UpdateSelect(c) \/ DeleteSelect(c)
  PROVE  TypeInv'
<1>1. AccountInputs(c) /\ TablesOK /\ CallsOK /\ AccountCallsOK
  BY DEF TypeInv, TypeOK, InputsOK
<1> SUFFICES ASSUME NEW here \in {"update.select", "delete.select"},
                    NEW next \in {"update.commit", "delete.commit"},
                    next = "update.commit" => here = "update.select",
                    SelectRow(c, here, next)
             PROVE  TypeInv'
  BY DEF UpdateSelect, DeleteSelect
<1> DEFINE row == RowByCode(dto[c].code)
<1>2. CASE FinishAccountCall(c, "UNKNOWN_ACCOUNT") /\ UNCHANGED tables
  BY <1>1, <1>2, AccountFinish, SameTables DEF tables, journalTables, OutcomeCodes
<1>3. CASE /\ pc[c] = here /\ row # None
           /\ loaded' = [loaded EXCEPT ![c] = row]
           /\ Continue(c, next)
           /\ UNCHANGED <<dto, existing, tables>>
  <2>1. row \in AccountRows
    BY <1>1, <1>3, RowFound DEF TablesOK
  <2>2. AccountCallsOK' /\ next \in AccountPcs /\ here \in AccountPcs
    BY <1>1, <1>3, <2>1 DEF AccountCallsOK, AccountPcs
  <2>3. loaded'[c] = row /\ \A d \in Callers \ {c} : loaded'[d] = loaded[d]
    BY <1>1, <1>3 DEF AccountCallsOK
  <2>4. pc'[c] = next => AccountInputs(c)'
    BY <1>1, <1>3, <2>1, <2>2, <2>3 DEF AccountInputs, NewName
  <2> QED
    BY <1>3, <2>2, <2>3, <2>4, AccountAdvance
<1> QED
  BY <1>2, <1>3 DEF SelectRow

\* The row an update assigns, and the row its flush leaves, are account rows.
LEMMA AssignedTypes ==
  ASSUME TypeInv, NEW c \in Callers, pc[c] = "update.commit"
  PROVE  /\ NewName(c) \in Names
         /\ clean_account_name(NewName(c)) \in CleanNames
         /\ Assigned(c) \in AccountRows
         /\ \A row \in AccountRows : Flushed(c, row) \in AccountRows
<1>1. /\ dto[c] \in AccountDtos /\ existing[c] \in ExistingAccounts
      /\ loaded[c] \in AccountRows /\ clean_account_name(NewName(c)) # None
  BY DEF TypeInv, InputsOK, AccountInputs, AccountPcs
<1>2. NewName(c) \in Names
  BY <1>1, AccountAssumption, CleaningNames
     DEF NewName, AccountDtos, ExistingAccounts
<1>3. clean_account_name(NewName(c)) \in CleanNames
  BY <1>1, <1>2, CleaningNames
<1>4. NewCategory(c) \in Categories
  BY <1>1 DEF NewCategory, AccountDtos, ExistingAccounts
<1>5. account_lookup_key(clean_account_name(NewName(c))) \in LookupKeys
  BY <1>3, CleaningNames
<1>6. Assigned(c) \in AccountRows
  BY <1>1, <1>3, <1>4, <1>5 DEF Assigned, AccountRows
<1>7. ASSUME NEW row \in AccountRows PROVE Flushed(c, row) \in AccountRows
  BY <1>6 DEF Flushed, AccountRows
<1> QED
  BY <1>2, <1>3, <1>6, <1>7

\* The commit of update_account stores a well-typed row.
LEMMA CommitTypes ==
  ASSUME TypeInv, NEW c \in Callers, UNCHANGED <<journalCallVars, postingCallVars>>,
         UpdateCommit(c) \/ DeleteCommit(c)
  PROVE  TypeInv'
<1>1. AccountInputs(c) /\ TablesOK /\ CallsOK /\ AccountCallsOK
  BY DEF TypeInv, TypeOK, InputsOK
<1>2. pc[c] \in AccountPcs => dto[c].code \in Codes
  BY <1>1 DEF AccountInputs, AccountDtos
<1>3. CASE UpdateCommit(c)
  <2> DEFINE here == {row \in accounts : row.id = loaded[c].id}
  <2>1. CASE \E code \in {"UNKNOWN_ERROR", "DUPLICATE_ACCOUNT_NAME"} :
               FinishAccountCall(c, code) /\ UNCHANGED tables
    BY <1>1, <2>1, AccountFinish, SameTables DEF tables, journalTables, OutcomeCodes
  <2>2. CASE /\ accounts' = (accounts \ here) \cup {Flushed(c, row) : row \in here}
             /\ audit_events' = Audited("UPDATE", dto[c].code)
             /\ \E report \in CommitReports : FinishAccountCall(c, report)
             /\ UNCHANGED <<account_id, journalTables, postings>>
    <3>1. pc[c] = "update.commit" /\ dto[c].code \in Codes
      BY <1>2, <1>3 DEF UpdateCommit, AccountPcs
    <3>2. audit_events' \in [Codes -> [AuditActions -> Nat]]
      BY <1>1, <2>2, <3>1, AuditedTypes DEF AuditActions
    <3>3. accounts' \subseteq AccountRows
      BY <1>1, <2>2, <3>1, AssignedTypes DEF TablesOK
    <3>4. TablesOK'
      BY <1>1, <2>2, <3>2, <3>3 DEF TablesOK, journalTables
    <3> QED
      BY <2>2, <3>4, AccountFinish DEF CommitReports, OutcomeCodes, journalTables
  <2> QED
    BY <1>3, <2>1, <2>2 DEF UpdateCommit, tables, accountTables
<1>4. CASE DeleteCommit(c)
  <2>1. audit_events' \in [Codes -> [AuditActions -> Nat]]
    BY <1>1, <1>2, <1>4, AuditedTypes DEF DeleteCommit, AuditActions, AccountPcs
  <2>2. TablesOK'
    BY <1>1, <1>4, <2>1 DEF DeleteCommit, TablesOK, journalTables
  <2> QED
    BY <1>4, <2>2, AccountFinish DEF DeleteCommit, CommitReports, OutcomeCodes, journalTables
<1> QED
  BY <1>3, <1>4

\* The statements of delete_account keep the types.
LEMMA DeleteTypes ==
  ASSUME TypeInv, NEW c \in Callers, UNCHANGED <<journalCallVars, postingCallVars>>,
         BeginDelete(c) \/ DeleteGet(c) \/ DeleteCheckPostings(c)
  PROVE  TypeInv'
<1>1. AccountInputs(c) /\ TablesOK /\ CallsOK /\ AccountCallsOK
  BY DEF TypeInv, TypeOK, InputsOK
<1>2. CASE BeginDelete(c)
  BY <1>2, BeginAccountTypes DEF BeginDelete, AccountDtos
<1>3. CASE DeleteGet(c)
  <2> DEFINE row == RowByCode(dto[c].code)
             read == [code |-> row.code, name |-> row.name, category |-> row.category]
  <2>1. CASE FinishAccountCall(c, "UNKNOWN_ACCOUNT") /\ UNCHANGED tables
    BY <1>1, <2>1, AccountFinish, SameTables DEF tables, journalTables, OutcomeCodes
  <2>2. CASE /\ pc[c] = "delete.get" /\ row # None
             /\ existing' = [existing EXCEPT ![c] = read]
             /\ Continue(c, "delete.postings")
             /\ UNCHANGED <<dto, loaded, tables>>
    <3>1. row \in AccountRows
      BY <1>1, <2>2, RowFound DEF TablesOK
    <3>2. read \in ExistingAccounts
      BY <3>1 DEF AccountRows, ExistingAccounts
    <3>3. AccountCallsOK' /\ "delete.postings" \in AccountPcs
      BY <1>1, <2>2, <3>2 DEF AccountCallsOK, AccountPcs
    <3>4. existing'[c] = read /\ \A d \in Callers \ {c} : existing'[d] = existing[d]
      BY <1>1, <2>2 DEF AccountCallsOK
    <3>5. pc'[c] = "delete.postings" => AccountInputs(c)'
      BY <1>1, <2>2, <3>2, <3>4 DEF AccountInputs, AccountPcs
    <3> QED
      BY <2>2, <3>3, <3>4, <3>5, AccountAdvance
  <2> QED
    BY <1>3, <2>1, <2>2 DEF DeleteGet
<1>4. CASE DeleteCheckPostings(c)
  <2>1. CASE FinishAccountCall(c, "ACCOUNT_HAS_POSTINGS") /\ UNCHANGED tables
    BY <1>1, <2>1, AccountFinish, SameTables DEF tables, journalTables, OutcomeCodes
  <2>2. CASE Continue(c, "delete.select") /\ UNCHANGED <<tables, accountCallVars>>
                /\ pc[c] = "delete.postings"
    <3>1. AccountCallsOK' /\ "delete.select" \in AccountPcs
      BY <1>1, <2>2 DEF AccountCallsOK, accountCallVars, AccountPcs
    <3>2. pc'[c] = "delete.select" => AccountInputs(c)'
      BY <1>1, <2>2 DEF AccountInputs, accountCallVars, AccountPcs
    <3> QED
      BY <2>2, <3>1, <3>2, AccountAdvance DEF accountCallVars
  <2> QED
    BY <1>4, <2>1, <2>2 DEF DeleteCheckPostings
<1> QED
  BY <1>2, <1>3, <1>4

\* Every step of AccountService keeps the types.
LEMMA AccountStepTypes ==
  ASSUME TypeInv, NEW c \in Callers, AccountStep(c)
  PROVE  TypeInv'
<1>1. UNCHANGED <<journalCallVars, postingCallVars>>
  BY DEF AccountStep
<1>2. CASE AccountFailure(c)
  BY <1>1, <1>2, AccountFinish, SameTables DEF tables, journalTables, AccountFailure, OutcomeCodes, TypeInv, TypeOK
<1> QED
  BY <1>1, <1>2, CreateTypes, UpdateTypes, SelectTypes, CommitTypes, DeleteTypes
     DEF AccountStep, AccountNext

-----------------------------------------------------------------------------
(* The journal service *)

\* What a journal step must show to keep the types.
LEMMA JournalFrame ==
  ASSUME TypeInv, NEW c \in Callers, NEW next \in {"idle"} \cup JournalPcs,
         TablesOK', CallsOK', JournalCallsOK',
         pc' = [pc EXCEPT ![c] = next],
         UNCHANGED <<accountCallVars, postingCallVars>>,
         DOMAIN journal_entries \subseteq DOMAIN journal_entries',
         \A d \in Callers \ {c} : request'[d] = request[d],
         JournalInputs(c)'
  PROVE  TypeInv'
<1>1. TypeOK'
  BY DEF TypeInv, TypeOK, AccountCallsOK, PostingCallsOK, accountCallVars, postingCallVars
<1>2. pc'[c] = next /\ \A d \in Callers \ {c} : pc'[d] = pc[d]
  BY DEF TypeInv, TypeOK, CallsOK
<1>3. ASSUME NEW d \in Callers
      PROVE  (AccountInputs(d) /\ JournalInputs(d) /\ PostingInputs(d))'
  <2>1. AccountInputs(d) /\ JournalInputs(d) /\ PostingInputs(d)
    BY DEF TypeInv, InputsOK
  <2>2. CASE d = c
    BY <1>2, <2>2 DEF AccountPcs, JournalPcs, AccountInputs, PostingInputs
  <2>3. CASE d # c
    BY <1>2, <2>1, <2>3
       DEF AccountInputs, JournalInputs, PostingInputs, NewName, accountCallVars, postingCallVars
  <2> QED
    BY <2>2, <2>3
<1> QED
  BY <1>1, <1>3 DEF TypeInv, InputsOK

\* A journal call that ends forgets its request, its number and its rows.
LEMMA ForgetJournalTypes ==
  ASSUME JournalCallsOK, NEW c \in Callers, ForgetJournalCall(c)
  PROVE  JournalCallsOK' /\ \A d \in Callers \ {c} : request'[d] = request[d]
  BY DEF JournalCallsOK, ForgetJournalCall

\* A journal step that only ends its call keeps the types.
LEMMA JournalFinish ==
  ASSUME TypeInv, NEW c \in Callers, NEW code \in OutcomeCodes, NEW n \in Nat,
         TablesOK', Finish(c, code, n), ForgetJournalCall(c),
         DOMAIN journal_entries \subseteq DOMAIN journal_entries',
         UNCHANGED <<accountCallVars, postingCallVars>>
  PROVE  TypeInv'
<1>1. CallsOK' /\ pc' = [pc EXCEPT ![c] = "idle"]
  BY FinishTypes DEF TypeInv, TypeOK
<1>2. JournalInputs(c)'
  BY <1>1 DEF TypeInv, TypeOK, CallsOK, JournalInputs
<1> QED
  BY <1>1, <1>2, JournalFrame, ForgetJournalTypes DEF TypeInv, TypeOK

\* The lines built for an entry that can be built are lines.
LEMMA BuiltTypes ==
  ASSUME NEW i \in EntryInputs, BuildsEntry(i)
  PROVE  BuildLines(i.lines) \in Seq(Lines)
<1> DEFINE lines == i.lines
           size == Len(lines)
<1>1. lines \in Seq(LineInputs)
  BY JournalAssumption
<1>2. size \in Nat /\ DOMAIN lines = 1 .. size /\ lines \in [1 .. size -> LineInputs]
  BY <1>1
<1>3. ASSUME NEW k \in 1 .. size
      PROVE  [lines[k] EXCEPT !.account = clean_account_name(@)] \in Lines
  <2>1. lines[k] \in LineInputs
    BY <1>2
  <2>2. clean_account_name(lines[k].account) # None
    BY <1>2 DEF BuildsEntry
  <2>3. clean_account_name(lines[k].account) \in CleanNames
    BY <2>1, <2>2, CleaningNames DEF LineInputs
  <2> QED
    BY <2>1, <2>3 DEF LineInputs, Lines
<1>4. BuildLines(lines) \in [1 .. size -> Lines]
  BY <1>2, <1>3 DEF BuildLines
<1> QED
  BY <1>2, <1>4, SeqDef

\* Storing lines yields lines.
LEMMA StoredTypes ==
  ASSUME NEW lines \in Seq(Lines) PROVE StoredLines(lines) \in Seq(Lines)
<1>1. Len(lines) \in Nat /\ lines \in [1 .. Len(lines) -> Lines]
  OBVIOUS
<1>2. \A line \in Lines : StoredLine(line) \in Lines
  BY StoredAmounts DEF StoredLine, Lines
<1>3. StoredLines(lines) \in [1 .. Len(lines) -> Lines]
  BY <1>1, <1>2 DEF StoredLines
<1> QED
  BY <1>1, <1>3, SeqDef

\* The statements of create_journal_entry keep the types.
LEMMA JournalCreateTypes ==
  ASSUME TypeInv, NEW c \in Callers, UNCHANGED <<accountCallVars, postingCallVars>>,
         BeginJournal(c) \/ JournalValidateAccounts(c) \/ JournalNumber(c) \/ JournalSave(c)
  PROVE  TypeInv'
<1>1. JournalInputs(c) /\ TablesOK /\ CallsOK /\ JournalCallsOK
  BY DEF TypeInv, TypeOK, InputsOK
<1>2. CASE BeginJournal(c)
  <2>1. PICK i \in EntryInputs : request' = [request EXCEPT ![c] = i]
    BY <1>2 DEF BeginJournal
  <2>2. "journal.chart" \in Pcs /\ "journal.chart" \in JournalPcs
    BY DEF Pcs, JournalPcs
  <2>3. CallsOK' /\ pc' = [pc EXCEPT ![c] = "journal.chart"]
    BY <1>1, <1>2, <2>2, BeginTypes DEF BeginJournal
  <2>4. /\ JournalCallsOK' /\ request'[c] = i
        /\ \A d \in Callers \ {c} : request'[d] = request[d]
    BY <1>1, <1>2, <2>1 DEF BeginJournal, JournalCallsOK
  <2>5. JournalInputs(c)'
    BY <1>1, <2>3, <2>4 DEF JournalInputs, CallsOK
  <2> QED
    BY <1>1, <1>2, <2>2, <2>3, <2>4, <2>5, JournalFrame, SameTables
       DEF BeginJournal, tables, journalTables
<1>3. CASE JournalValidateAccounts(c)
  <2>1. CASE /\ \E code \in {"ValidationError", "UNKNOWN_ACCOUNT"} : Finish(c, code, 0)
             /\ ForgetJournalCall(c)
    BY <1>1, <1>3, <2>1, JournalFinish, SameTables
       DEF JournalValidateAccounts, OutcomeCodes, tables, journalTables
  <2>2. CASE Continue(c, "journal.number") /\ UNCHANGED <<request, drawn, entryRows>>
    <3>1. "journal.number" \in Pcs /\ "journal.number" \in JournalPcs
      BY DEF Pcs, JournalPcs
    <3>2. CallsOK' /\ pc' = [pc EXCEPT ![c] = "journal.number"]
      BY <1>1, <2>2, <3>1, ContinueTypes
    <3>3. JournalCallsOK'
      BY <1>1, <2>2 DEF JournalCallsOK
    <3>4. JournalInputs(c)'
      BY <1>1, <1>3, <2>2, <3>2 DEF JournalInputs, CallsOK, JournalValidateAccounts
    <3> QED
      BY <1>1, <1>3, <2>2, <3>1, <3>2, <3>3, <3>4, JournalFrame, SameTables
         DEF JournalValidateAccounts, tables, journalTables
  <2> QED
    BY <1>3, <2>1, <2>2 DEF JournalValidateAccounts
<1>4. CASE JournalNumber(c)
  <2>1. TablesOK' /\ journal_seq' \in Nat
    BY <1>1, <1>4 DEF JournalNumber, next_journal_number, TablesOK, accountTables
  <2>2. CASE /\ Finish(c, "VALIDATION_ERROR", 0) \/ Finish(c, "STORAGE_FAILURE", 0)
             /\ ForgetJournalCall(c)
    BY <1>4, <2>1, <2>2, JournalFinish DEF JournalNumber, OutcomeCodes
  <2>3. CASE /\ BuildsEntry(request[c])
             /\ drawn' = [drawn EXCEPT ![c] = journal_seq']
             /\ Continue(c, "journal.save")
             /\ UNCHANGED <<request, entryRows>>
    <3>1. "journal.save" \in Pcs /\ "journal.save" \in JournalPcs
      BY DEF Pcs, JournalPcs
    <3>2. CallsOK' /\ pc' = [pc EXCEPT ![c] = "journal.save"]
      BY <1>1, <2>3, <3>1, ContinueTypes
    <3>3. JournalCallsOK'
      BY <1>1, <2>1, <2>3 DEF JournalCallsOK
    <3>4. (BuildsEntry(request[c]))'
      BY <2>3 DEF BuildsEntry, ValidEntry, clean_account_name, IsBalanced, TotalDebits,
                  TotalCredits, is_valid_line_amounts
    <3>5. JournalInputs(c)'
      BY <1>1, <1>4, <2>3, <3>4 DEF JournalInputs, JournalNumber
    <3> QED
      BY <1>4, <2>1, <2>3, <3>1, <3>2, <3>3, <3>5, JournalFrame DEF JournalNumber
  <2> QED
    BY <1>4, <2>2, <2>3 DEF JournalNumber
<1>5. CASE JournalSave(c)
  <2> DEFINE lines == StoredLines(BuildLines(request[c].lines))
  <2>1. request[c] \in EntryInputs /\ BuildsEntry(request[c]) /\ drawn[c] \in Nat
    BY <1>1, <1>5 DEF JournalSave, JournalInputs, JournalCallsOK
  <2>2. CASE Finish(c, "JOURNAL_NUMBER_CONFLICT", drawn[c])
             /\ UNCHANGED <<journal_entries, journal_lines>>
    <3>1. TablesOK'
      BY <1>1, <1>5, <2>2 DEF JournalSave, TablesOK, accountTables
    <3> QED
      BY <1>5, <2>1, <2>2, <3>1, JournalFinish DEF JournalSave, OutcomeCodes
  <2>3. CASE /\ journal_entries' = Put(journal_entries, drawn[c], request[c].date)
             /\ journal_lines' = Put(journal_lines, drawn[c], lines)
             /\ \E report \in CommitReports :
                   Finish(c, IF report = "OK" THEN "RECORDED" ELSE report, drawn[c])
    <3>1. lines \in Seq(Lines)
      BY <2>1, BuiltTypes, StoredTypes
    <3>2. request[c].date \in Nat
      BY <2>1, JournalAssumption
    <3> HIDE DEF lines
    <3>3. /\ DOMAIN journal_entries' \subseteq Nat
          /\ \A n \in DOMAIN journal_entries' : journal_entries'[n] \in Nat
      BY <1>1, <2>1, <2>3, <3>2 DEF TablesOK, Put
    <3>4. /\ DOMAIN journal_lines' \subseteq Nat
          /\ \A n \in DOMAIN journal_lines' : journal_lines'[n] \in Seq(Lines)
      BY <1>1, <2>1, <2>3, <3>1 DEF TablesOK, Put
    <3>5. TablesOK'
      BY <1>1, <1>5, <3>3, <3>4 DEF TablesOK, JournalSave, accountTables
    <3>6. DOMAIN journal_entries \subseteq DOMAIN journal_entries'
      BY <2>3 DEF Put
    <3> QED
      BY <1>5, <2>1, <2>3, <3>5, <3>6, JournalFinish
         DEF JournalSave, CommitReports, OutcomeCodes
  <2> QED
    BY <1>5, <2>2, <2>3 DEF JournalSave
<1> QED
  BY <1>2, <1>3, <1>4, <1>5

\* The statements of list_journal_entries keep the types.
LEMMA ListTypes ==
  ASSUME TypeInv, NEW c \in Callers, UNCHANGED <<accountCallVars, postingCallVars>>,
         BeginListEntries(c) \/ ListSelectEntries(c) \/ ListSelectLines(c)
  PROVE  TypeInv'
<1>1. JournalInputs(c) /\ TablesOK /\ CallsOK /\ JournalCallsOK
  BY DEF TypeInv, TypeOK, InputsOK
<1>2. CASE ListSelectLines(c)
  BY <1>1, <1>2, JournalFinish, SameTables
     DEF ListSelectLines, OutcomeCodes, tables, journalTables
<1>3. CASE BeginListEntries(c) \/ ListSelectEntries(c)
  <2>1. PICK next \in {"list.entries", "list.lines"} : Begin(c, next) \/ Continue(c, next)
    BY <1>3 DEF BeginListEntries, ListSelectEntries
  <2>2. next \in Pcs /\ next \in JournalPcs
    BY DEF Pcs, JournalPcs
  <2>3. CallsOK' /\ pc' = [pc EXCEPT ![c] = next]
    BY <1>1, <2>1, <2>2, BeginTypes, ContinueTypes
  <2>4. JournalCallsOK' /\ request' = request
    BY <1>1, <1>3 DEF BeginListEntries, ListSelectEntries, JournalCallsOK, TablesOK,
                      journalCallVars
  <2>5. JournalInputs(c)'
    BY <1>1, <2>3 DEF JournalInputs, CallsOK
  <2> QED
    BY <1>1, <1>3, <2>2, <2>3, <2>4, <2>5, JournalFrame, SameTables
       DEF BeginListEntries, ListSelectEntries, tables, journalTables
<1> QED
  BY <1>2, <1>3

\* Every step of JournalService keeps the types.
LEMMA JournalStepTypes ==
  ASSUME TypeInv, NEW c \in Callers, JournalStep(c)
  PROVE  TypeInv'
<1>1. UNCHANGED <<accountCallVars, postingCallVars>>
  BY DEF JournalStep
<1>2. CASE JournalFailure(c)
  BY <1>1, <1>2, JournalFinish, SameTables
     DEF JournalFailure, OutcomeCodes, TypeInv, TypeOK, tables, journalTables
<1> QED
  BY <1>1, <1>2, JournalCreateTypes, ListTypes DEF JournalStep, JournalNext

-----------------------------------------------------------------------------
(* The posting service *)

\* What a posting step must show to keep the types.
LEMMA PostingFrame ==
  ASSUME TypeInv, NEW c \in Callers, NEW next \in {"idle"} \cup PostingPcs,
         TablesOK', CallsOK', PostingCallsOK',
         pc' = [pc EXCEPT ![c] = next],
         UNCHANGED <<journal_entries, accountCallVars, journalCallVars>>,
         \A d \in Callers \ {c} : target'[d] = target[d] /\ entry'[d] = entry[d],
         PostingInputs(c)'
  PROVE  TypeInv'
<1>1. TypeOK'
  BY DEF TypeInv, TypeOK, AccountCallsOK, JournalCallsOK, accountCallVars, journalCallVars
<1>2. pc'[c] = next /\ \A d \in Callers \ {c} : pc'[d] = pc[d]
  BY DEF TypeInv, TypeOK, CallsOK
<1>3. ASSUME NEW d \in Callers
      PROVE  (AccountInputs(d) /\ JournalInputs(d) /\ PostingInputs(d))'
  <2>1. AccountInputs(d) /\ JournalInputs(d) /\ PostingInputs(d)
    BY DEF TypeInv, InputsOK
  <2>2. CASE d = c
    BY <1>2, <2>2 DEF AccountPcs, PostingPcs, AccountInputs, JournalInputs
  <2>3. CASE d # c
    BY <1>2, <2>1, <2>3
       DEF AccountInputs, JournalInputs, PostingInputs, NewName, accountCallVars, journalCallVars
  <2> QED
    BY <2>2, <2>3
<1> QED
  BY <1>1, <1>3 DEF TypeInv, InputsOK

\* A posting step that only ends its call keeps the types.
LEMMA PostingFinish ==
  ASSUME TypeInv, NEW c \in Callers, NEW code \in OutcomeCodes, TablesOK',
         FinishPosting(c, code),
         UNCHANGED <<journal_entries, accountCallVars, journalCallVars>>
  PROVE  TypeInv'
<1>1. target[c] \in Nat
  BY DEF TypeInv, TypeOK, PostingCallsOK
<1>2. CallsOK' /\ pc' = [pc EXCEPT ![c] = "idle"]
  BY <1>1, FinishTypes DEF FinishPosting, TypeInv, TypeOK
<1>3. /\ PostingCallsOK'
      /\ \A d \in Callers \ {c} : target'[d] = target[d] /\ entry'[d] = entry[d]
  BY DEF FinishPosting, ForgetPostingCall, TypeInv, TypeOK, PostingCallsOK
<1>4. PostingInputs(c)'
  BY <1>2 DEF TypeInv, TypeOK, CallsOK, PostingInputs
<1> QED
  BY <1>2, <1>3, <1>4, PostingFrame

\* A posting step that only goes on keeps the types.
LEMMA PostingAdvance ==
  ASSUME TypeInv, NEW c \in Callers, NEW next \in PostingPcs,
         Begin(c, next) \/ Continue(c, next),
         UNCHANGED <<tables, accountCallVars, journalCallVars>>, PostingCallsOK',
         \A d \in Callers \ {c} : target'[d] = target[d] /\ entry'[d] = entry[d],
         pc'[c] = next => PostingInputs(c)'
  PROVE  TypeInv'
<1>1. next \in Pcs
  BY DEF Pcs
<1>2. CallsOK' /\ pc' = [pc EXCEPT ![c] = next]
  BY <1>1, BeginTypes, ContinueTypes DEF TypeInv, TypeOK
<1>3. pc'[c] = next
  BY <1>2 DEF TypeInv, TypeOK, CallsOK
<1> QED
  BY <1>2, <1>3, PostingFrame, SameTables DEF TypeInv, TypeOK, tables, journalTables

\* The postings derived from a readable entry are posting rows.
LEMMA DerivedTypes ==
  ASSUME NEW c \in Callers, NEW n \in Nat, NEW date \in Nat, NEW lines \in Seq(Lines)
  PROVE  DerivedPostings(n, date, lines, c) \subseteq PostingRows
<1> SUFFICES ASSUME NEW i \in DOMAIN lines
             PROVE  PostingRow(n, date, i, lines[i], c) \in PostingRows
  BY DEF DerivedPostings
<1>1. i \in Nat /\ lines[i] \in Lines
  OBVIOUS
<1>2. Numeric18_2(lines[i].debit) \in Nat /\ Numeric18_2(lines[i].credit) \in Nat
  BY <1>1, StoredAmounts DEF Lines
<1>3. lines[i].account \in CleanNames /\ account_lookup_key(lines[i].account) \in LookupKeys
  BY <1>1, CleaningNames DEF Lines
<1> QED
  BY <1>1, <1>2, <1>3 DEF PostingRow, PostingRows

\* Every step of PostingService keeps the types.
LEMMA PostingStepTypes ==
  ASSUME TypeInv, NEW c \in Callers, PostingStep(c)
  PROVE  TypeInv'
<1>1. PostingInputs(c) /\ TablesOK /\ CallsOK /\ PostingCallsOK
  BY DEF TypeInv, TypeOK, InputsOK
<1>2. UNCHANGED <<accountCallVars, journalCallVars>>
  BY DEF PostingStep
<1>3. CASE BeginPosting(c)
  <2>1. /\ PostingCallsOK'
        /\ \A d \in Callers \ {c} : target'[d] = target[d] /\ entry'[d] = entry[d]
    BY <1>1, <1>3, JournalAssumption DEF BeginPosting, PostingCallsOK
  <2>2. Begin(c, "post.entry") /\ UNCHANGED tables /\ "post.entry" \in PostingPcs
    BY <1>3 DEF BeginPosting, PostingPcs
  <2>3. pc'[c] = "post.entry" => PostingInputs(c)'
    BY DEF PostingInputs
  <2> QED
    BY <1>2, <2>1, <2>2, <2>3, PostingAdvance
<1>4. CASE PostSelectEntry(c)
  <2>1. CASE FinishPosting(c, "UNKNOWN_JOURNAL_ENTRY")
    BY <1>1, <1>2, <1>4, <2>1, PostingFinish, SameTables
     DEF tables, journalTables, PostSelectEntry, OutcomeCodes
  <2>2. CASE /\ target[c] \in DOMAIN journal_entries
             /\ Continue(c, "post.lines")
             /\ UNCHANGED postingCallVars
    <3>1. UNCHANGED tables /\ PostingCallsOK' /\ "post.lines" \in PostingPcs
      BY <1>1, <1>4, <2>2 DEF PostSelectEntry, PostingPcs, PostingCallsOK, postingCallVars
    <3>2. pc'[c] = "post.lines" => PostingInputs(c)'
      BY <2>2, <3>1 DEF PostingInputs, postingCallVars, tables, journalTables
    <3> QED
      BY <1>2, <2>2, <3>1, <3>2, PostingAdvance DEF postingCallVars
  <2> QED
    BY <1>4, <2>1, <2>2 DEF PostSelectEntry
<1>5. CASE PostSelectLines(c)
  <2> DEFINE date == journal_entries[target[c]]
             lines == LinesOf(target[c])
             read == [date |-> date, lines |-> lines]
  <2>1. CASE FinishPosting(c, "ValidationError")
    BY <1>1, <1>2, <1>5, <2>1, PostingFinish, SameTables
     DEF tables, journalTables, PostSelectLines, OutcomeCodes
  <2>2. CASE /\ ValidEntry(date, lines)
             /\ entry' = [entry EXCEPT ![c] = read]
             /\ Continue(c, "post.check")
             /\ UNCHANGED target
    <3>1. lines \in Seq(Lines)
      BY <1>1 DEF LinesOf, TablesOK
    <3>2. date \in Nat
      BY <1>1, <1>5 DEF PostingInputs, PostSelectLines, TablesOK
    <3>3. read \in ReadEntries
      BY <3>1, <3>2 DEF ReadEntries
    <3>4. /\ PostingCallsOK' /\ entry'[c] = read
          /\ \A d \in Callers \ {c} : entry'[d] = entry[d]
      BY <1>1, <2>2, <3>3 DEF PostingCallsOK
    <3> QED
      BY <1>2, <1>5, <2>2, <3>3, <3>4, PostingAdvance
         DEF PostSelectLines, PostingPcs, PostingInputs
  <2> QED
    BY <1>5, <2>1, <2>2 DEF PostSelectLines
<1>6. CASE PostCheckPosted(c)
  <2>1. CASE FinishPosting(c, "JOURNAL_ALREADY_POSTED")
    BY <1>1, <1>2, <1>6, <2>1, PostingFinish, SameTables
     DEF tables, journalTables, PostCheckPosted, OutcomeCodes
  <2>2. CASE Continue(c, "post.save") /\ UNCHANGED postingCallVars
    BY <1>1, <1>2, <1>6, <2>2, PostingAdvance
       DEF PostCheckPosted, PostingPcs, PostingInputs, PostingCallsOK, postingCallVars
  <2> QED
    BY <1>6, <2>1, <2>2 DEF PostCheckPosted
<1>7. CASE PostSave(c)
  <2> DEFINE batch == DerivedPostings(target[c], entry[c].date, entry[c].lines, c)
  <2>1. CASE FinishPosting(c, "JOURNAL_ALREADY_POSTED") /\ UNCHANGED postings
    <3>1. TablesOK'
      BY <1>1, <1>7, <2>1, SameTables DEF PostSave, tables
    <3> QED
      BY <1>2, <1>7, <2>1, <3>1, PostingFinish DEF PostSave, OutcomeCodes, journalTables
  <2>2. CASE /\ postings' = postings \cup batch
             /\ \E report \in CommitReports :
                   FinishPosting(c, IF report = "OK" THEN "POSTED" ELSE report)
    <3>1. entry[c] \in ReadEntries /\ target[c] \in Nat
      BY <1>1, <1>7 DEF PostSave, PostingInputs, PostingCallsOK
    <3>2. batch \subseteq PostingRows
      BY <3>1, DerivedTypes DEF ReadEntries
    <3>3. TablesOK'
      BY <1>1, <1>7, <2>2, <3>2 DEF PostSave, TablesOK, accountTables, journalTables
    <3> QED
      BY <1>2, <1>7, <2>2, <3>3, PostingFinish
         DEF PostSave, CommitReports, OutcomeCodes, journalTables
  <2> QED
    BY <1>7, <2>1, <2>2 DEF PostSave
<1>8. CASE PostingFailure(c)
  BY <1>1, <1>2, <1>8, PostingFinish, SameTables
     DEF tables, journalTables, PostingFailure, OutcomeCodes
<1> QED
  BY <1>3, <1>4, <1>5, <1>6, <1>7, <1>8 DEF PostingStep, PostingNext

-----------------------------------------------------------------------------
(* The theorem *)

\* Every step of the bookkeeping core keeps the types.
LEMMA TypeStep == TypeInv /\ [Next]_vars => TypeInv'
<1> SUFFICES ASSUME TypeInv, [Next]_vars PROVE TypeInv'
  OBVIOUS
<1>1. CASE UNCHANGED vars
  <2>1. TypeOK'
    BY <1>1 DEF vars, tables, accountTables, journalTables, callVars, accountCallVars,
                journalCallVars, postingCallVars, TypeInv, TypeOK, TablesOK, CallsOK,
                AccountCallsOK, JournalCallsOK, PostingCallsOK
  <2>2. InputsOK'
    BY <1>1 DEF vars, tables, journalTables, callVars, accountCallVars, journalCallVars,
                postingCallVars, TypeInv, InputsOK, AccountInputs, JournalInputs,
                PostingInputs, NewName
  <2> QED
    BY <2>1, <2>2 DEF TypeInv
<1>2. ASSUME NEW c \in Callers, BlankActorStep(c) PROVE TypeInv'
  <2>1. CallsOK' /\ pc' = [pc EXCEPT ![c] = "idle"]
    BY <1>2, FinishTypes DEF BlankActorStep, RejectBlankActor, OutcomeCodes, TypeInv, TypeOK
  <2>2. TablesOK' /\ JournalCallsOK'
    BY <1>2, SameTables DEF BlankActorStep, RejectBlankActor, TypeInv, TypeOK,
                            JournalCallsOK, journalCallVars
  <2>3. JournalInputs(c)'
    BY <2>1 DEF JournalInputs, TypeInv, TypeOK, CallsOK
  <2> QED
    BY <1>2, <2>1, <2>2, <2>3, JournalFrame
       DEF BlankActorStep, RejectBlankActor, journalCallVars, tables, journalTables
<1> QED
  BY <1>1, <1>2, AccountStepTypes, JournalStepTypes, PostingStepTypes DEF Next

\* In every reachable state the calls in progress hold what their next
\* statement uses.
THEOREM CallsHoldTheirInputs == Spec => []TypeInv
  BY TypeInit, TypeStep, PTL DEF Spec

\* Every reachable state is well typed: every column and every argument of a
\* call in progress has the type the code declares, and no stored account
\* name is padded.
THEOREM Typed == Spec => []TypeOK
<1>1. TypeInv => TypeOK
  BY DEF TypeInv
<1> QED
  BY <1>1, CallsHoldTheirInputs, PTL

=============================================================================
