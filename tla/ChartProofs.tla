---------------------------- MODULE ChartProofs ----------------------------
(***************************************************************************)
(* The chart of accounts under concurrent creates, updates and deletes:    *)
(* its unique keys, what the audit trail says of it, under which races its *)
(* lookup keys and the fields an update omits are right, and, with the     *)
(* ledger, when no untranslated error reaches a caller.                    *)
(***************************************************************************)
EXTENDS LedgerProofs

-----------------------------------------------------------------------------
(* The three writes of the chart *)

Inserts(c) ==
    LET name == clean_account_name(dto[c].name)
        row == [id |-> account_id + 1, code |-> dto[c].code, name |-> name,
                name_key |-> account_lookup_key(name), category |-> dto[c].category]
    IN  /\ dto[c].code \in Codes
        /\ \A old \in accounts : old.code # row.code /\ old.name_key # row.name_key
        /\ account_id' = account_id + 1
        /\ accounts' = accounts \cup {row}
        /\ audit_events' = Audited("CREATE", dto[c].code)

Updates(c) ==
    LET here == {row \in accounts : row.id = loaded[c].id}
    IN  /\ dto[c].code \in Codes
        /\ ~UpdateConflict(c)
        /\ account_id' = account_id
        /\ accounts' = (accounts \ here) \cup {Flushed(c, row) : row \in here}
        /\ audit_events' = Audited("UPDATE", dto[c].code)

Deletes(c) ==
    /\ dto[c].code \in Codes
    /\ account_id' = account_id
    /\ accounts' = {row \in accounts : row.id # loaded[c].id}
    /\ audit_events' = Audited("DELETE", dto[c].code)

ChartWrites(c) ==
    /\ AccountStep(c) /\ pc'[c] = "idle"
    /\ \/ pc[c] = "create.insert" /\ Inserts(c)
       \/ pc[c] = "update.commit" /\ Updates(c)
       \/ pc[c] = "delete.commit" /\ Deletes(c)

\* A step leaves the chart alone or is one of the three.
LEMMA ChartSteps ==
  ASSUME TypeInv, [Next]_vars
  PROVE  UNCHANGED accountTables \/ \E c \in Callers : ChartWrites(c)
<1>1. ASSUME NEW c \in Callers, pc[c] \in AccountPcs PROVE dto[c].code \in Codes
  BY <1>1 DEF TypeInv, InputsOK, AccountInputs, AccountDtos
<1>2. ASSUME NEW c \in Callers, AccountStep(c), CreateInsert(c)
      PROVE  UNCHANGED accountTables \/ ChartWrites(c)
  <2>1. pc[c] = "create.insert" /\ dto[c].code \in Codes
    BY <1>1, <1>2 DEF CreateInsert, AccountPcs
  <2>2. pc'[c] = "idle"
    BY <1>2 DEF CreateInsert, FinishAccountCall, Finish, TypeInv, TypeOK, CallsOK
  <2> DEFINE key == account_lookup_key(clean_account_name(dto[c].name))
  <2>3. InsertConflict(dto[c].code, key) = None =>
           \A old \in accounts : old.code # dto[c].code /\ old.name_key # key
    BY AccountAssumption DEF InsertConflict
  <2> QED
    BY <1>2, <2>1, <2>2, <2>3 DEF CreateInsert, ChartWrites, Inserts, accountTables
<1>3. ASSUME NEW c \in Callers, AccountStep(c), UpdateCommit(c) \/ DeleteCommit(c)
      PROVE  UNCHANGED accountTables \/ ChartWrites(c)
  <2>1. pc'[c] = "idle"
    BY <1>3 DEF UpdateCommit, DeleteCommit, FinishAccountCall, Finish, TypeInv, TypeOK, CallsOK
  <2> QED
    BY <1>1, <1>3, <2>1
       DEF UpdateCommit, DeleteCommit, ChartWrites, Updates, Deletes, accountTables, AccountPcs
<1>4. ASSUME NEW c \in Callers, AccountStep(c)
      PROVE  UNCHANGED accountTables \/ ChartWrites(c)
  BY <1>2, <1>3, <1>4
     DEF AccountStep, AccountNext, BeginCreate, CreateCheckCode, CreateCheckName, BeginUpdate,
         UpdateGet, UpdateCheckName, UpdateSelect, SelectRow, BeginDelete, DeleteGet,
         DeleteCheckPostings, DeleteSelect, AccountFailure, BeginAccountCall, tables
<1>5. ASSUME NEW c \in Callers, JournalStep(c) PROVE UNCHANGED accountTables
  BY <1>5 DEF JournalStep, JournalNext, BeginJournal, JournalValidateAccounts, JournalNumber,
              JournalSave, BeginListEntries, ListSelectEntries, ListSelectLines, JournalFailure,
              tables
<1>6. ASSUME NEW c \in Callers, PostingStep(c) PROVE UNCHANGED accountTables
  BY <1>6 DEF PostingStep, PostingNext, BeginPosting, PostSelectEntry, PostSelectLines,
              PostCheckPosted, PostSave, PostingFailure, tables
<1>7. ASSUME NEW c \in Callers, BlankActorStep(c) PROVE UNCHANGED accountTables
  BY <1>7 DEF BlankActorStep, RejectBlankActor, tables
<1> QED
  BY <1>4, <1>5, <1>6, <1>7 DEF Next, vars, tables

-----------------------------------------------------------------------------
(* Unique keys *)

\* Identities are given once and the row they name keeps its code.
ChartInv ==
    /\ ChartKeysUnique
    /\ \A row \in accounts : row.id <= account_id
    /\ \A c \in Callers : pc[c] \in {"update.commit", "delete.commit"} =>
          /\ loaded[c].id <= account_id
          /\ loaded[c].code = dto[c].code
          /\ \A row \in accounts : row.id = loaded[c].id => row.code = loaded[c].code

\* The seeded chart has unique ids, codes and lookup keys.
LEMMA ChartInit == Init => ChartInv
<1> SUFFICES ASSUME Init PROVE ChartInv
  OBVIOUS
<1>1. Cardinality(Seeded) \in Nat
  BY StorageAssumption, FS_CardinalityType
<1>2. \A row \in accounts : row.id <= account_id
  BY <1>1, StorageAssumption DEF Init, StorageInit
<1> QED
  BY <1>2, StorageAssumption DEF Init, StorageInit, CallsInit, ChartInv, ChartKeysUnique

\* INSERT, UPDATE and DELETE keep ids, codes and lookup keys unique.
LEMMA KeysStep ==
  ASSUME TypeInv, ChartInv, NEW c \in Callers, ChartWrites(c)
  PROVE  /\ ChartKeysUnique'
         /\ account_id <= account_id'
         /\ \A new \in accounts' :
               /\ new.id <= account_id'
               /\ new.id <= account_id =>
                     \E row \in accounts : row.id = new.id /\ row.code = new.code
<1>1. account_id \in Nat /\ \A row \in accounts : row \in AccountRows
  BY DEF TypeInv, TypeOK, TablesOK
<1>2. \A row \in accounts : row.id \in Nat /\ row.id <= account_id
  BY <1>1 DEF ChartInv, AccountRows
<1>3. CASE pc[c] = "create.insert" /\ Inserts(c)
  <2> DEFINE name == clean_account_name(dto[c].name)
             row == [id |-> account_id + 1, code |-> dto[c].code, name |-> name,
                     name_key |-> account_lookup_key(name), category |-> dto[c].category]
  <2>1. /\ accounts' = accounts \cup {row} /\ account_id' = account_id + 1
        /\ \A old \in accounts : old.code # row.code /\ old.name_key # row.name_key
    BY <1>3 DEF Inserts
  <2>2. row.id = account_id + 1
    OBVIOUS
  <2> HIDE DEF row
  <2>3. \A old \in accounts : old.id # row.id
    BY <1>1, <1>2, <2>2
  <2> QED
    BY <1>1, <1>2, <2>1, <2>2, <2>3 DEF ChartInv, ChartKeysUnique
<1>4. CASE pc[c] = "update.commit" /\ Updates(c)
  <2> DEFINE here == {row \in accounts : row.id = loaded[c].id}
  <2>1. /\ accounts' = (accounts \ here) \cup {Flushed(c, row) : row \in here}
        /\ account_id' = account_id /\ ~UpdateConflict(c)
    BY <1>4 DEF Updates
  <2>2. \A row \in accounts :
           /\ Flushed(c, row).id = row.id /\ Flushed(c, row).code = row.code
           /\ Flushed(c, row).name_key = IF Assigned(c).name_key # loaded[c].name_key
                                         THEN Assigned(c).name_key ELSE row.name_key
    BY <1>1 DEF Flushed, AccountRows
  <2>3. \A row \in accounts, old \in accounts \ here :
           row \in here => Flushed(c, row).name_key # old.name_key
    BY <2>1, <2>2 DEF UpdateConflict, ChartInv, ChartKeysUnique
  <2>4. \A row, old \in here : row = old
    BY DEF ChartInv, ChartKeysUnique
  <2>5. ASSUME NEW new \in accounts'
        PROVE  \E row \in accounts :
                  /\ row.id = new.id /\ row.code = new.code
                  /\ \/ new = row /\ row \notin here
                     \/ new = Flushed(c, row) /\ row \in here
    BY <2>1, <2>2
  <2>6. ChartKeysUnique'
    <3> SUFFICES ASSUME NEW a \in accounts', NEW b \in accounts',
                        a.id = b.id \/ a.code = b.code \/ a.name_key = b.name_key
                 PROVE  a = b
      BY DEF ChartKeysUnique
    <3>1. PICK ra \in accounts : /\ ra.id = a.id /\ ra.code = a.code
                                 /\ \/ a = ra /\ ra \notin here
                                    \/ a = Flushed(c, ra) /\ ra \in here
      BY <2>5
    <3>2. PICK rb \in accounts : /\ rb.id = b.id /\ rb.code = b.code
                                 /\ \/ b = rb /\ rb \notin here
                                    \/ b = Flushed(c, rb) /\ rb \in here
      BY <2>5
    <3>3. ra = rb
      <4> HIDE DEF here
      <4>1. CASE a.id = b.id \/ a.code = b.code
        BY <3>1, <3>2, <4>1 DEF ChartInv, ChartKeysUnique
      <4>2. CASE a.name_key = b.name_key
        BY <2>3, <2>4, <3>1, <3>2, <4>2 DEF ChartInv, ChartKeysUnique
      <4> QED
        BY <4>1, <4>2
    <3> QED
      BY <3>1, <3>2, <3>3
  <2> QED
    BY <1>1, <1>2, <2>1, <2>5, <2>6
<1>5. CASE pc[c] = "delete.commit" /\ Deletes(c)
  BY <1>1, <1>2, <1>5 DEF Deletes, ChartInv, ChartKeysUnique
<1> QED
  BY <1>3, <1>4, <1>5 DEF ChartWrites

\* What an account call holds changes by its own steps only.
LEMMA AccountCallFrame ==
  ASSUME TypeInv, [Next]_vars, NEW c \in Callers
  PROVE  \/ AccountStep(c)
         \/ /\ pc'[c] = pc[c] \/ pc'[c] \notin AccountPcs
            /\ dto'[c] = dto[c] /\ existing'[c] = existing[c] /\ loaded'[c] = loaded[c]
<1> DEFINE kept == /\ pc'[c] = pc[c] \/ pc'[c] \notin AccountPcs
                   /\ dto'[c] = dto[c] /\ existing'[c] = existing[c] /\ loaded'[c] = loaded[c]
<1>1. CASE UNCHANGED vars
  BY <1>1 DEF vars, callVars, accountCallVars
<1>2. ASSUME NEW d \in Callers, JournalStep(d) \/ PostingStep(d) \/ BlankActorStep(d)
      PROVE  kept
  <2>1. UNCHANGED accountCallVars
    BY <1>2 DEF JournalStep, PostingStep, BlankActorStep
  <2>2. PICK next \in {"idle"} \cup JournalPcs \cup PostingPcs : pc' = [pc EXCEPT ![d] = next]
    BY <1>2 DEF JournalStep, PostingStep, BlankActorStep, RejectBlankActor,
                JournalNext, BeginJournal, JournalValidateAccounts, JournalNumber,
                JournalSave, BeginListEntries, ListSelectEntries, ListSelectLines, JournalFailure,
                PostingNext, BeginPosting, PostSelectEntry, PostSelectLines, PostCheckPosted,
                PostSave, PostingFailure, FinishPosting, Begin, Continue, Finish,
                JournalPcs, PostingPcs
  <2>3. pc'[c] = pc[c] \/ pc'[c] \notin AccountPcs
    BY <2>2 DEF JournalPcs, PostingPcs, AccountPcs, TypeInv, TypeOK, CallsOK
  <2> QED
    BY <2>1, <2>3 DEF accountCallVars
<1>3. ASSUME NEW d \in Callers \ {c}, AccountStep(d) PROVE kept
  <2>1. pc'[c] = pc[c]
    BY <1>3, AccountQuiet DEF Quiet
  <2>2. loaded'[c] = loaded[c] /\ dto'[c] = dto[c] /\ existing'[c] = existing[c]
    BY <1>3
       DEF AccountStep, AccountNext, BeginCreate, CreateCheckCode, CreateCheckName, CreateInsert,
           BeginUpdate, UpdateGet, UpdateCheckName, UpdateSelect, UpdateCommit, SelectRow,
           BeginDelete, DeleteGet, DeleteCheckPostings, DeleteSelect, DeleteCommit,
           AccountFailure, BeginAccountCall, FinishAccountCall, ForgetAccountCall,
           accountCallVars, TypeInv, TypeOK, AccountCallsOK
  <2> QED
    BY <2>1, <2>2
<1> QED
  BY <1>1, <1>2, <1>3 DEF Next

\* A call is about to commit because it was, or because it has just read the
\* row of its account, in a step that writes nothing.
LEMMA LoadedStep ==
  ASSUME TypeInv, [Next]_vars, NEW c \in Callers,
         pc'[c] \in {"update.commit", "delete.commit"}
  PROVE  /\ dto'[c] = dto[c] /\ existing'[c] = existing[c]
         /\ \/ pc[c] = pc'[c] /\ loaded'[c] = loaded[c]
            \/ /\ pc[c] = IF pc'[c] = "update.commit" THEN "update.select" ELSE "delete.select"
               /\ loaded'[c] \in accounts /\ loaded'[c].code = dto[c].code
               /\ UNCHANGED accountTables
<1> DEFINE commits == {"update.commit", "delete.commit"}
<1>1. ASSUME NEW code, FinishAccountCall(c, code) PROVE FALSE
  BY <1>1 DEF FinishAccountCall, Finish, TypeInv, TypeOK, CallsOK
<1>2. ASSUME NEW next, next \notin commits, Begin(c, next) \/ Continue(c, next) PROVE FALSE
  BY <1>2 DEF Begin, Continue, TypeInv, TypeOK, CallsOK
<1>3. CASE AccountStep(c)
  <2>1. CASE UpdateSelect(c) \/ DeleteSelect(c)
    <3>1. PICK here, next : /\ SelectRow(c, here, next)
                            /\ here = IF next = "update.commit" THEN "update.select"
                                                                ELSE "delete.select"
      BY <2>1 DEF UpdateSelect, DeleteSelect
    <3>2. /\ RowByCode(dto[c].code) # None
          /\ loaded' = [loaded EXCEPT ![c] = RowByCode(dto[c].code)]
          /\ pc[c] = here /\ pc'[c] = next
          /\ UNCHANGED <<dto, existing, accountTables>>
      BY <1>1, <3>1 DEF SelectRow, Continue, tables, TypeInv, TypeOK, CallsOK
    <3>3. RowByCode(dto[c].code) \in accounts
          /\ RowByCode(dto[c].code).code = dto[c].code
      BY <3>2, RowFound DEF TypeInv, TypeOK
    <3> QED
      BY <3>1, <3>2, <3>3 DEF TypeInv, TypeOK, AccountCallsOK
  <2>2. CASE BeginCreate(c) \/ BeginUpdate(c) \/ BeginDelete(c)
    BY <1>2, <2>2 DEF BeginCreate, BeginUpdate, BeginDelete, BeginAccountCall
  <2>3. CASE CreateCheckCode(c) \/ CreateCheckName(c) \/ CreateInsert(c)
    BY <1>1, <1>2, <2>3 DEF CreateCheckCode, CreateCheckName, CreateInsert
  <2>4. CASE UpdateGet(c) \/ UpdateCheckName(c) \/ UpdateCommit(c)
    BY <1>1, <1>2, <2>4 DEF UpdateGet, UpdateCheckName, UpdateCommit
  <2>5. CASE DeleteGet(c) \/ DeleteCheckPostings(c) \/ DeleteCommit(c) \/ AccountFailure(c)
    BY <1>1, <1>2, <2>5 DEF DeleteGet, DeleteCheckPostings, DeleteCommit, AccountFailure
  <2> QED
    BY <1>3, <2>1, <2>2, <2>3, <2>4, <2>5 DEF AccountStep, AccountNext
<1> QED
  BY <1>3, AccountCallFrame DEF AccountPcs

\* Every step keeps the chart invariant.
LEMMA ChartStep == TypeInv /\ ChartInv /\ [Next]_vars => ChartInv'
<1> SUFFICES ASSUME TypeInv, ChartInv, [Next]_vars PROVE ChartInv'
  OBVIOUS
<1>1. account_id \in Nat /\ account_id' \in Nat
  BY TypeStep DEF TypeInv, TypeOK, TablesOK
<1>2. /\ ChartKeysUnique'
      /\ account_id <= account_id'
      /\ \A new \in accounts' :
            /\ new.id <= account_id'
            /\ new.id <= account_id =>
                  \E row \in accounts : row.id = new.id /\ row.code = new.code
  <2>1. CASE UNCHANGED accountTables
    BY <1>1, <2>1 DEF accountTables, ChartInv, ChartKeysUnique
  <2>2. CASE \E c \in Callers : ChartWrites(c)
    BY <2>2, KeysStep
  <2> QED
    BY <2>1, <2>2, ChartSteps
<1>3. ASSUME NEW c \in Callers, pc'[c] \in {"update.commit", "delete.commit"}
      PROVE  /\ loaded'[c].id <= account_id'
             /\ loaded'[c].code = dto'[c].code
             /\ \A row \in accounts' : row.id = loaded'[c].id => row.code = loaded'[c].code
  <2>1. loaded'[c] \in AccountRows
    BY <1>3, TypeStep DEF TypeInv, InputsOK, AccountInputs
  <2>2. /\ loaded'[c].id <= account_id
        /\ loaded'[c].code = dto'[c].code
        /\ \A row \in accounts : row.id = loaded'[c].id => row.code = loaded'[c].code
    BY <1>3, LoadedStep DEF ChartInv, ChartKeysUnique
  <2> QED
    BY <1>1, <1>2, <2>1, <2>2 DEF AccountRows
<1> QED
  BY <1>2, <1>3 DEF ChartInv

\* The chart invariant, which adds to ChartKeysUnique that every id was drawn and
\* that the row an account write has loaded keeps its code, holds in every reachable state.
THEOREM ChartKept == Spec => []ChartInv
  BY CallsHoldTheirInputs, ChartInit, ChartStep, PTL DEF Spec

\* No two accounts ever share an identity, a code or a lookup key, however
\* many creates, renames and deletes race, although an UPDATE writes only the
\* columns its call believes it changed.
THEOREM KeysUnique == Spec => []ChartKeysUnique
<1>1. ChartInv => ChartKeysUnique
  BY DEF ChartInv
<1> QED
  BY <1>1, ChartKept, PTL

-----------------------------------------------------------------------------
(* The audit trail *)

\* An account is in the chart at most once more than its code was deleted.
AuditInv ==
    \A code \in Codes :
        LET rows == audit_events[code]
        IN  IF RowsByCode(code) # {}
            THEN rows["CREATE"] >= 1 /\ rows["CREATE"] <= rows["DELETE"] + 1
            ELSE rows["DELETE"] >= rows["CREATE"]

\* The seeded accounts have their CREATE audit rows.
LEMMA AuditInit == Init => AuditInv
<1> SUFFICES ASSUME Init, NEW code \in Codes
             PROVE  LET rows == audit_events[code]
                    IN  IF RowsByCode(code) # {}
                        THEN rows["CREATE"] >= 1 /\ rows["CREATE"] <= rows["DELETE"] + 1
                        ELSE rows["DELETE"] >= rows["CREATE"]
  BY DEF AuditInv
<1>1. /\ audit_events[code]["DELETE"] = 0
      /\ audit_events[code]["CREATE"] = IF \E row \in accounts : row.code = code THEN 1 ELSE 0
  BY DEF Init, StorageInit, AuditActions
<1> QED
  BY <1>1 DEF RowsByCode

\* Every account write leaves the audit rows that explain it.
LEMMA AuditStep == TypeInv /\ ChartInv /\ AuditInv /\ [Next]_vars => AuditInv'
<1> SUFFICES ASSUME TypeInv, ChartInv, AuditInv, [Next]_vars, NEW code \in Codes
             PROVE  LET rows == audit_events'[code]
                    IN  IF {row \in accounts' : row.code = code} # {}
                        THEN rows["CREATE"] >= 1 /\ rows["CREATE"] <= rows["DELETE"] + 1
                        ELSE rows["DELETE"] >= rows["CREATE"]
  BY DEF AuditInv, RowsByCode
<1> DEFINE old == audit_events[code]
           new == audit_events'[code]
           before == \E row \in accounts : row.code = code
           after == \E row \in accounts' : row.code = code
<1>1. /\ old["CREATE"] \in Nat /\ old["DELETE"] \in Nat
      /\ IF before THEN old["CREATE"] >= 1 /\ old["CREATE"] <= old["DELETE"] + 1
                   ELSE old["DELETE"] >= old["CREATE"]
  BY DEF TypeInv, TypeOK, TablesOK, AuditActions, AuditInv, RowsByCode
<1> SUFFICES IF after THEN new["CREATE"] >= 1 /\ new["CREATE"] <= new["DELETE"] + 1
                      ELSE new["DELETE"] >= new["CREATE"]
  OBVIOUS
<1>2. CASE new = old /\ (before <=> after)
  BY <1>1, <1>2
<1>3. ASSUME NEW c \in Callers, NEW action \in AuditActions, NEW at \in Codes,
             audit_events' = Audited(action, at)
      PROVE  /\ at # code => new = old
             /\ at = code => \A a \in AuditActions :
                   new[a] = IF a = action THEN old[a] + 1 ELSE old[a]
  BY <1>3 DEF Audited, TypeInv, TypeOK, TablesOK
<1>4. \A row \in accounts : row \in AccountRows
  BY DEF TypeInv, TypeOK, TablesOK
<1>5. ASSUME NEW c \in Callers, pc[c] = "create.insert", Inserts(c)
      PROVE  IF after THEN new["CREATE"] >= 1 /\ new["CREATE"] <= new["DELETE"] + 1
                      ELSE new["DELETE"] >= new["CREATE"]
  <2> DEFINE at == dto[c].code
  <2>1. /\ at \in Codes /\ audit_events' = Audited("CREATE", at)
        /\ \A row \in accounts : row.code # at
        /\ \A row \in accounts' : row \in accounts \/ row.code = at
        /\ accounts \subseteq accounts'
        /\ \E row \in accounts' : row.code = at
    <3> DEFINE name == clean_account_name(dto[c].name)
               row == [id |-> account_id + 1, code |-> at, name |-> name,
                       name_key |-> account_lookup_key(name), category |-> dto[c].category]
    <3>1. /\ at \in Codes /\ audit_events' = Audited("CREATE", at)
          /\ accounts' = accounts \cup {row}
          /\ \A r \in accounts : r.code # row.code
      BY <1>5 DEF Inserts
    <3>2. row.code = at
      OBVIOUS
    <3> HIDE DEF row, at
    <3> QED
      BY <3>1, <3>2
  <2> HIDE DEF at
  <2>2. at # code => new = old /\ (before <=> after)
    BY <1>3, <2>1 DEF AuditActions
  <2>3. at = code => ~before /\ after /\ new["CREATE"] = old["CREATE"] + 1
                     /\ new["DELETE"] = old["DELETE"]
    BY <1>3, <2>1 DEF AuditActions
  <2> HIDE DEF old, new, before, after
  <2> QED
    BY <1>1, <2>2, <2>3
<1>6. ASSUME NEW c \in Callers, pc[c] = "update.commit", Updates(c)
      PROVE  IF after THEN new["CREATE"] >= 1 /\ new["CREATE"] <= new["DELETE"] + 1
                      ELSE new["DELETE"] >= new["CREATE"]
  <2>1. \A row \in accounts : Flushed(c, row).code = row.code
    BY <1>4 DEF Flushed, AccountRows
  <2>2. before <=> after
    BY <1>6, <2>1 DEF Updates
  <2>3. new["CREATE"] = old["CREATE"] /\ new["DELETE"] = old["DELETE"]
    BY <1>3, <1>6 DEF Updates, AuditActions
  <2> HIDE DEF old, new, before, after
  <2> QED
    BY <1>1, <2>2, <2>3
<1>7. ASSUME NEW c \in Callers, pc[c] = "delete.commit", Deletes(c)
      PROVE  IF after THEN new["CREATE"] >= 1 /\ new["CREATE"] <= new["DELETE"] + 1
                      ELSE new["DELETE"] >= new["CREATE"]
  <2> DEFINE at == dto[c].code
  <2>1. /\ at \in Codes /\ audit_events' = Audited("DELETE", at)
        /\ accounts' = {row \in accounts : row.id # loaded[c].id}
        /\ \A row \in accounts : row.id = loaded[c].id => row.code = at
    BY <1>7 DEF Deletes, ChartInv
  <2> HIDE DEF at
  <2>2. at # code => new = old /\ (before <=> after)
    BY <1>3, <2>1 DEF AuditActions
  <2>3. at = code => new["CREATE"] = old["CREATE"] /\ new["DELETE"] = old["DELETE"] + 1
    BY <1>3, <2>1 DEF AuditActions
  <2>4. after => before
    BY <2>1
  <2> HIDE DEF old, new, before, after
  <2> QED
    BY <1>1, <2>2, <2>3, <2>4
<1>8. CASE UNCHANGED accountTables
  BY <1>2, <1>8 DEF accountTables
<1> QED
  BY <1>5, <1>6, <1>7, <1>8, ChartSteps DEF ChartWrites

\* The audit trail explains the chart: an account in it was created, and one
\* that is gone was deleted, by an audited call, however the calls interleave
\* and whatever their callers were told of the commit.
THEOREM AuditExplains == Spec => []AuditExplainsChart
<1>1. AuditInv => AuditExplainsChart
  BY DEF AuditInv, AuditExplainsChart
<1> QED
  BY <1>1, AuditInit, AuditStep, CallsHoldTheirInputs, ChartKept, PTL DEF Spec

-----------------------------------------------------------------------------
(* Lookup keys *)

\* No two updates of one account are between their SELECT and their COMMIT at once.
UpdatesAlone ==
    \A c, d \in Callers :
        pc[c] = "update.commit" /\ pc[d] = "update.commit" /\ c # d => dto[c].code # dto[d].code

\* The lookup keys are those of the names, and the row an update is about to
\* write has the name the update has loaded.
KeysInv ==
    /\ NameKeysCurrent
    /\ \A c \in Callers : pc[c] = "update.commit" => \A row \in accounts :
          row.id = loaded[c].id => row.name = loaded[c].name /\ row.name_key = loaded[c].name_key

\* The three writes of the chart, one at a time, keep name and lookup key together.
LEMMA KeysKept ==
  ASSUME TypeInv, ChartInv, KeysInv, UpdatesAlone, [Next]_vars
  PROVE  /\ NameKeysCurrent'
         /\ \A c \in Callers :
               pc[c] = "update.commit" /\ pc'[c] = "update.commit" => \A row \in accounts' :
                  row.id = loaded[c].id => row.name = loaded[c].name /\ row.name_key = loaded[c].name_key
<1>1. CASE UNCHANGED accountTables
  BY <1>1 DEF accountTables, KeysInv, NameKeysCurrent, account_lookup_key
<1>2. /\ \A row \in accounts : row \in AccountRows
      /\ \A row \in accounts : row.name_key = account_lookup_key(row.name)
  BY DEF TypeInv, TypeOK, TablesOK, KeysInv, NameKeysCurrent
<1>3. ASSUME NEW d \in Callers, pc[d] = "create.insert", Inserts(d)
      PROVE  \E row : /\ accounts' = accounts \cup {row} /\ row.id = account_id + 1
                      /\ row.name_key = account_lookup_key(row.name)
  <2> DEFINE name == clean_account_name(dto[d].name)
             row == [id |-> account_id + 1, code |-> dto[d].code, name |-> name,
                     name_key |-> account_lookup_key(name), category |-> dto[d].category]
  <2>1. accounts' = accounts \cup {row}
    BY <1>3 DEF Inserts
  <2>2. row.id = account_id + 1 /\ row.name_key = account_lookup_key(row.name)
    OBVIOUS
  <2> QED
    BY <2>1, <2>2
<1>4. ASSUME NEW d \in Callers, pc[d] = "update.commit", Updates(d), NEW new \in accounts'
      PROVE  \E row \in accounts :
                /\ row.id = new.id /\ row.code = new.code
                /\ new.name_key = account_lookup_key(new.name)
                /\ new = row \/ row.id = loaded[d].id
  <2>1. PICK row \in accounts : \/ new = row
                                \/ new = Flushed(d, row) /\ row.id = loaded[d].id
    BY <1>4 DEF Updates
  <2>2. CASE new = row
    BY <1>2, <2>2
  <2>3. CASE new = Flushed(d, row) /\ row.id = loaded[d].id
    <3>1. row \in AccountRows /\ loaded[d] \in AccountRows
      BY <1>2, <1>4 DEF TypeInv, InputsOK, AccountInputs
    <3>2. row.name = loaded[d].name /\ row.name_key = loaded[d].name_key
      BY <1>4, <2>3 DEF KeysInv
    <3>3. Assigned(d).name_key = account_lookup_key(Assigned(d).name)
      BY <3>1 DEF Assigned, AccountRows
    <3>4. /\ new.id = row.id /\ new.code = row.code
          /\ new.name = Assigned(d).name /\ new.name_key = Assigned(d).name_key
      BY <2>3, <3>1, <3>2 DEF Flushed, AccountRows
    <3> QED
      BY <2>3, <3>3, <3>4
  <2> QED
    BY <2>1, <2>2, <2>3
<1>5. ASSUME NEW d \in Callers, pc[d] = "delete.commit", Deletes(d)
      PROVE  accounts' \subseteq accounts
  BY <1>5 DEF Deletes
<1>6. ASSUME NEW d \in Callers, ChartWrites(d) PROVE NameKeysCurrent'
  <2>1. \A new \in accounts' : new.name_key = account_lookup_key(new.name)
    BY <1>2, <1>3, <1>4, <1>5, <1>6 DEF ChartWrites
  <2> QED
    BY <2>1 DEF NameKeysCurrent, account_lookup_key
<1>7. ASSUME NEW d \in Callers, ChartWrites(d), NEW c \in Callers,
             pc[c] = "update.commit", pc'[c] = "update.commit",
             NEW new \in accounts', new.id = loaded[c].id
      PROVE  new \in accounts
  <2>1. c # d
    BY <1>7 DEF ChartWrites
  <2>2. /\ loaded[c].id <= account_id /\ account_id \in Nat /\ loaded[c].id \in Nat
        /\ \A row \in accounts : row.id = loaded[c].id => row.code = dto[c].code
    BY <1>7 DEF ChartInv, TypeInv, TypeOK, TablesOK, InputsOK, AccountInputs, AccountRows
  <2>3. CASE pc[d] = "create.insert" /\ Inserts(d)
    BY <1>3, <1>7, <2>2, <2>3
  <2>4. CASE pc[d] = "update.commit" /\ Updates(d)
    <3>1. dto[c].code # dto[d].code
      BY <1>7, <2>1, <2>4 DEF UpdatesAlone
    <3>2. \A row \in accounts : row.id = loaded[d].id => row.code = dto[d].code
      BY <2>4 DEF ChartInv
    <3> QED
      BY <1>4, <1>7, <2>2, <2>4, <3>1, <3>2
  <2> QED
    BY <1>5, <1>7, <2>3, <2>4 DEF ChartWrites
<1> QED
  BY <1>1, <1>6, <1>7, ChartSteps DEF KeysInv, accountTables

\* Every step keeps the lookup keys current.
LEMMA KeysInvStep ==
  TypeInv /\ ChartInv /\ KeysInv /\ UpdatesAlone /\ [Next]_vars => KeysInv'
<1> SUFFICES ASSUME TypeInv, ChartInv, KeysInv, UpdatesAlone, [Next]_vars PROVE KeysInv'
  OBVIOUS
<1>1. ASSUME NEW c \in Callers, pc'[c] = "update.commit", NEW row \in accounts',
             row.id = loaded'[c].id
      PROVE  row.name = loaded'[c].name /\ row.name_key = loaded'[c].name_key
  <2>1. CASE pc[c] = "update.commit" /\ loaded'[c] = loaded[c]
    BY <1>1, <2>1, KeysKept
  <2>2. CASE loaded'[c] \in accounts /\ UNCHANGED accountTables
    BY <1>1, <2>2 DEF accountTables, ChartInv, ChartKeysUnique
  <2> QED
    BY <1>1, <2>1, <2>2, LoadedStep
<1> QED
  BY <1>1, KeysKept DEF KeysInv

\* name_key is the lookup key of the name it stands beside, in every chart and
\* whatever else races, as long as no two updates of one account load it
\* before either writes it: the partial UPDATEs are safe one at a time.
THEOREM KeysCurrent == Spec /\ []UpdatesAlone => []NameKeysCurrent
<1>1. Init => KeysInv
  BY StorageAssumption DEF Init, StorageInit, CallsInit, KeysInv, NameKeysCurrent
<1>2. KeysInv => NameKeysCurrent
  BY DEF KeysInv
<1> QED
  BY <1>1, <1>2, KeysInvStep, CallsHoldTheirInputs, ChartKept, PTL DEF Spec

\* In particular the lookup keys are current when a single caller, like one
\* interactive shell, uses the database.
THEOREM OneCallersKeys ==
  ASSUME NEW CONSTANT caller, Callers = {caller}
  PROVE  Spec => []NameKeysCurrent
<1>1. UpdatesAlone
  BY DEF UpdatesAlone
<1> QED
  BY <1>1, KeysCurrent, PTL

-----------------------------------------------------------------------------
(* Omitted fields *)

\* No call creates or updates an account while an update that has read it has
\* yet to read it again.
RereadsAlone ==
    \A c, d \in Callers :
        pc[c] \in {"update.name", "update.select"} /\ pc[d] \in {"create.insert", "update.commit"}
            => dto[c].code # dto[d].code

\* The account an update has read is still as it was read, and what the update
\* has loaded is what it read first.
RereadInv ==
    \A c \in Callers :
        /\ pc[c] \in {"update.name", "update.select"} =>
              \A row \in accounts : row.code = dto[c].code =>
                 row.name = existing[c].name /\ row.category = existing[c].category
        /\ pc[c] = "update.commit" =>
              loaded[c].name = existing[c].name /\ loaded[c].category = existing[c].category

\* An update is between its two reads because it was, or because it has just
\* read its account for the first time, in a step that writes nothing.
LEMMA ExistingStep ==
  ASSUME TypeInv, ChartKeysUnique, [Next]_vars, NEW c \in Callers,
         pc'[c] \in {"update.name", "update.select"}
  PROVE  /\ dto'[c] = dto[c]
         /\ \/ pc[c] \in {"update.name", "update.select"} /\ existing'[c] = existing[c]
            \/ /\ UNCHANGED accountTables
               /\ \A row \in accounts : row.code = dto[c].code =>
                     row.name = existing'[c].name /\ row.category = existing'[c].category
<1> DEFINE reads == {"update.name", "update.select"}
<1>1. ASSUME NEW code, FinishAccountCall(c, code) PROVE FALSE
  BY <1>1 DEF FinishAccountCall, Finish, TypeInv, TypeOK, CallsOK
<1>2. ASSUME NEW next, next \notin reads, Begin(c, next) \/ Continue(c, next) PROVE FALSE
  BY <1>2 DEF Begin, Continue, TypeInv, TypeOK, CallsOK
<1>3. CASE AccountStep(c)
  <2>1. CASE UpdateGet(c)
    <3> DEFINE found == RowByCode(dto[c].code)
    <3>1. /\ found # None
          /\ existing' = [existing EXCEPT ![c] = [code |-> found.code, name |-> found.name,
                                                  category |-> found.category]]
          /\ UNCHANGED <<dto, accountTables>>
      BY <1>1, <2>1 DEF UpdateGet, tables
    <3>2. found \in accounts /\ found.code = dto[c].code
      BY <3>1, RowFound DEF TypeInv, TypeOK
    <3> HIDE DEF found
    <3>3. existing'[c].name = found.name /\ existing'[c].category = found.category
      BY <3>1 DEF TypeInv, TypeOK, AccountCallsOK
    <3> QED
      BY <3>1, <3>2, <3>3 DEF ChartKeysUnique
  <2>2. CASE UpdateCheckName(c)
    BY <1>1, <2>2 DEF UpdateCheckName, accountCallVars
  <2>3. CASE BeginCreate(c) \/ BeginUpdate(c) \/ BeginDelete(c)
    BY <1>2, <2>3 DEF BeginCreate, BeginUpdate, BeginDelete, BeginAccountCall
  <2>4. CASE CreateCheckCode(c) \/ CreateCheckName(c) \/ CreateInsert(c)
    BY <1>1, <1>2, <2>4 DEF CreateCheckCode, CreateCheckName, CreateInsert
  <2>5. CASE UpdateSelect(c) \/ DeleteSelect(c) \/ UpdateCommit(c)
    BY <1>1, <1>2, <2>5 DEF UpdateSelect, DeleteSelect, SelectRow, UpdateCommit
  <2>6. CASE DeleteGet(c) \/ DeleteCheckPostings(c) \/ DeleteCommit(c) \/ AccountFailure(c)
    BY <1>1, <1>2, <2>6 DEF DeleteGet, DeleteCheckPostings, DeleteCommit, AccountFailure
  <2> QED
    BY <1>3, <2>1, <2>2, <2>3, <2>4, <2>5, <2>6 DEF AccountStep, AccountNext
<1> QED
  BY <1>3, AccountCallFrame DEF AccountPcs

\* A write of the chart concerns the rows of one code.
LEMMA OneCodeWritten ==
  ASSUME TypeInv, ChartInv, NEW d \in Callers, ChartWrites(d), NEW new \in accounts'
  PROVE  \/ new \in accounts
         \/ pc[d] \in {"create.insert", "update.commit"} /\ new.code = dto[d].code
<1>1. \A row \in accounts : row \in AccountRows
  BY DEF TypeInv, TypeOK, TablesOK
<1>2. CASE pc[d] = "create.insert" /\ Inserts(d)
  BY <1>2 DEF Inserts
<1>3. CASE pc[d] = "update.commit" /\ Updates(d)
  <2>1. \A row \in accounts : Flushed(d, row).code = row.code
    BY <1>1 DEF Flushed, AccountRows
  <2>2. \A row \in accounts : row.id = loaded[d].id => row.code = dto[d].code
    BY <1>3 DEF ChartInv
  <2> QED
    BY <1>3, <2>1, <2>2 DEF Updates
<1> QED
  BY <1>2, <1>3 DEF ChartWrites, Deletes

\* Every step keeps what updates have read current.
LEMMA RereadStep ==
  TypeInv /\ ChartInv /\ RereadInv /\ RereadsAlone /\ [Next]_vars => RereadInv'
<1> SUFFICES ASSUME TypeInv, ChartInv, RereadInv, RereadsAlone, [Next]_vars PROVE RereadInv'
  OBVIOUS
<1>1. ChartKeysUnique
  BY DEF ChartInv
<1>2. ASSUME NEW c \in Callers, pc'[c] \in {"update.name", "update.select"},
             NEW new \in accounts', new.code = dto'[c].code
      PROVE  new.name = existing'[c].name /\ new.category = existing'[c].category
  <2>1. CASE UNCHANGED accountTables
    BY <1>1, <1>2, <2>1, ExistingStep DEF accountTables, RereadInv
  <2>2. ASSUME NEW d \in Callers, ChartWrites(d), ~UNCHANGED accountTables
        PROVE  new.name = existing'[c].name /\ new.category = existing'[c].category
    <3>1. /\ dto'[c] = dto[c] /\ existing'[c] = existing[c]
          /\ pc[c] \in {"update.name", "update.select"}
      BY <1>1, <1>2, <2>2, ExistingStep
    <3>2. new \in accounts
      BY <1>2, <2>2, <3>1, OneCodeWritten DEF RereadsAlone
    <3> QED
      BY <1>2, <3>1, <3>2 DEF RereadInv
  <2> QED
    BY <2>1, <2>2, ChartSteps
<1>3. ASSUME NEW c \in Callers, pc'[c] = "update.commit"
      PROVE  loaded'[c].name = existing'[c].name /\ loaded'[c].category = existing'[c].category
  BY <1>3, LoadedStep DEF RereadInv
<1> QED
  BY <1>2, <1>3 DEF RereadInv

\* What the step of a committing update does to the fields its input omits.
LEMMA OmittedKept ==
  ASSUME TypeInv, ChartInv, RereadInv, [Next]_vars, NEW c \in Callers,
         pc[c] = "update.commit", pc'[c] = "idle",
         NEW row \in accounts, NEW new \in accounts', row.id = new.id
  PROVE  /\ dto[c].name = None => new.name = row.name
         /\ dto[c].category = None => new.category = row.category
<1>1. CASE UNCHANGED accountTables
  BY <1>1 DEF accountTables, ChartInv, ChartKeysUnique
<1>2. ASSUME NEW d \in Callers, ChartWrites(d) PROVE c = d
  BY <1>2, AccountQuiet DEF ChartWrites, Quiet
<1>3. CASE ChartWrites(c)
  <2>1. Updates(c)
    BY <1>3 DEF ChartWrites
  <2>2. PICK old \in accounts : \/ new = old
                                \/ new = Flushed(c, old) /\ old.id = loaded[c].id
    BY <2>1 DEF Updates
  <2>3. old \in AccountRows /\ loaded[c] \in AccountRows /\ existing[c] \in ExistingAccounts
    BY DEF TypeInv, TypeOK, TablesOK, InputsOK, AccountInputs
  <2>4. new.id = old.id
    BY <2>2, <2>3 DEF Flushed, AccountRows
  <2>5. old = row
    BY <2>4 DEF ChartInv, ChartKeysUnique
  <2>6. ASSUME dto[c].name = None, new = Flushed(c, row) PROVE new.name = row.name
    <3>1. NewName(c) = existing[c].name /\ existing[c].name \in CleanNames
      BY <2>3, <2>6 DEF NewName, ExistingAccounts
    <3>2. Assigned(c).name = loaded[c].name
      BY <2>3, <3>1, CleaningNames DEF Assigned, AccountRows, RereadInv
    <3> QED
      BY <2>3, <2>5, <2>6, <3>2 DEF Flushed, AccountRows
  <2>7. ASSUME dto[c].category = None, new = Flushed(c, row) PROVE new.category = row.category
    <3>1. Assigned(c).category = loaded[c].category
      BY <2>3, <2>7 DEF Assigned, NewCategory, AccountRows, RereadInv
    <3> QED
      BY <2>3, <2>5, <2>7, <3>1 DEF Flushed, AccountRows
  <2> QED
    BY <2>2, <2>5, <2>6, <2>7
<1> QED
  BY <1>1, <1>2, <1>3, ChartSteps

\* A field the update input omits keeps its persisted value, whatever races
\* with the update after its second read, as long as nobody creates or
\* updates the account between the update's two reads of it.
THEOREM OmittedKeep == Spec /\ []RereadsAlone => OmittedFieldsRetained
<1>1. Init => RereadInv
  BY DEF Init, CallsInit, RereadInv
<1>2. TypeInv /\ ChartInv /\ RereadInv /\ [Next]_vars =>
         [\A c \in Callers :
            pc[c] = "update.commit" /\ pc'[c] = "idle" =>
               \A row \in accounts, new \in accounts' :
                  row.id = new.id =>
                     /\ dto[c].name = None => new.name = row.name
                     /\ dto[c].category = None => new.category = row.category]_vars
  BY OmittedKept
<1> QED
  BY <1>1, <1>2, RereadStep, CallsHoldTheirInputs, ChartKept, PTL DEF Spec, OmittedFieldsRetained

\* In particular a single caller's updates keep the fields they omit.
THEOREM OneCallersFields ==
  ASSUME NEW CONSTANT caller, Callers = {caller}
  PROVE  Spec => OmittedFieldsRetained
<1>1. RereadsAlone
  BY DEF RereadsAlone
<1> QED
  BY <1>1, OmittedKeep, PTL

-----------------------------------------------------------------------------
(* What reaches the callers *)

\* Every entry that balances as submitted balances as the columns keep it.
RoundingBalances ==
    \A input \in EntryInputs :
        BuildsEntry(input) => IsBalanced(StoredLines(BuildLines(input.lines)))

\* Every amount of an entry is a whole number of cents.
WholeCents(input) ==
    \A i \in DOMAIN input.lines :
        /\ Numeric18_2(input.lines[i].debit) = input.lines[i].debit
        /\ Numeric18_2(input.lines[i].credit) = input.lines[i].credit

\* An entry debits one account and credits another.
TwoLines(input) == Len(input.lines) = 2

\* Every entry submitted has whole cents only, or two lines only.
SafelyRounded == \A input \in EntryInputs : WholeCents(input) \/ TwoLines(input)

\* What the columns keep of a line, amount by amount.
LEMMA StoredAmountsOf ==
  ASSUME NEW input \in EntryInputs
  PROVE  LET lines == StoredLines(BuildLines(input.lines))
         IN  /\ DOMAIN lines = DOMAIN input.lines
             /\ \A i \in DOMAIN input.lines :
                   /\ lines[i].debit = Numeric18_2(input.lines[i].debit)
                   /\ lines[i].credit = Numeric18_2(input.lines[i].credit)
<1> DEFINE size == Len(input.lines)
<1>1. size \in Nat /\ DOMAIN input.lines = 1 .. size
      /\ \A i \in 1 .. size : input.lines[i] \in LineInputs
  BY JournalAssumption
<1> HIDE DEF size
<1>2. ASSUME NEW i \in 1 .. size
      PROVE  /\ BuildLines(input.lines)[i].debit = input.lines[i].debit
             /\ BuildLines(input.lines)[i].credit = input.lines[i].credit
             /\ DOMAIN BuildLines(input.lines)[i] = {"account", "debit", "credit"}
  BY <1>1 DEF BuildLines, LineInputs
<1>3. DOMAIN BuildLines(input.lines) = 1 .. size
  BY <1>1 DEF BuildLines
<1> QED
  BY <1>1, <1>2, <1>3 DEF StoredLines, StoredLine

\* Whole cents are stored as they are submitted.
LEMMA WholeCentsBalance ==
  ASSUME NEW input \in EntryInputs, BuildsEntry(input), WholeCents(input)
  PROVE  IsBalanced(StoredLines(BuildLines(input.lines)))
<1> DEFINE lines == StoredLines(BuildLines(input.lines))
<1>1. /\ DOMAIN lines = DOMAIN input.lines
      /\ \A i \in DOMAIN input.lines : /\ lines[i].debit = input.lines[i].debit
                                       /\ lines[i].credit = input.lines[i].credit
  BY StoredAmountsOf DEF WholeCents
<1> HIDE DEF lines
<1>2. /\ [i \in DOMAIN lines |-> lines[i].debit]
            = [i \in DOMAIN input.lines |-> input.lines[i].debit]
      /\ [i \in DOMAIN lines |-> lines[i].credit]
            = [i \in DOMAIN input.lines |-> input.lines[i].credit]
  BY <1>1
<1>3. IsBalanced(input.lines)
  BY DEF BuildsEntry, ValidEntry
<1>4. IsBalanced(lines)
  BY <1>2, <1>3 DEF IsBalanced, TotalDebits, TotalCredits
<1> QED
  BY <1>4 DEF lines

\* The totals of two lines.
LEMMA TotalsOfTwo ==
  ASSUME NEW lines, DOMAIN lines = {1, 2},
         \A i \in {1, 2} : lines[i].debit \in Nat /\ lines[i].credit \in Nat
  PROVE  /\ TotalDebits(lines) = lines[1].debit + lines[2].debit
         /\ TotalCredits(lines) = lines[1].credit + lines[2].credit
<1> DEFINE debits == [i \in DOMAIN lines |-> lines[i].debit]
           credits == [i \in DOMAIN lines |-> lines[i].credit]
<1>1. /\ DOMAIN debits = {1, 2} /\ debits[1] = lines[1].debit /\ debits[2] = lines[2].debit
      /\ DOMAIN credits = {1, 2} /\ credits[1] = lines[1].credit /\ credits[2] = lines[2].credit
      /\ debits[1] \in Nat /\ debits[2] \in Nat /\ credits[1] \in Nat /\ credits[2] \in Nat
  OBVIOUS
<1>2. TotalDebits(lines) = SumFunctionOnSet(debits, {1, 2})
      /\ TotalCredits(lines) = SumFunctionOnSet(credits, {1, 2})
  BY <1>1 DEF TotalDebits, TotalCredits, SumFunction
<1> HIDE DEF debits, credits
<1>3. SumFunctionOnSet(debits, {1, 2}) = debits[1] + debits[2]
  BY <1>1, SumOfTwo
<1>4. SumFunctionOnSet(credits, {1, 2}) = credits[1] + credits[2]
  BY <1>1, SumOfTwo
<1> QED
  BY <1>1, <1>2, <1>3, <1>4

\* Two lines that balance have one amount, which rounds to one amount.
LEMMA TwoLinesBalance ==
  ASSUME NEW input \in EntryInputs, BuildsEntry(input), TwoLines(input)
  PROVE  IsBalanced(StoredLines(BuildLines(input.lines)))
<1> DEFINE lines == StoredLines(BuildLines(input.lines))
           given == input.lines
<1>1. /\ DOMAIN given = {1, 2}
      /\ \A i \in {1, 2} : given[i].debit \in Nat /\ given[i].credit \in Nat
  <2>1. given \in Seq(LineInputs) /\ Len(given) = 2
    BY JournalAssumption DEF TwoLines
  <2>2. DOMAIN given = {1, 2} /\ \A i \in {1, 2} : given[i] \in LineInputs
    BY <2>1
  <2> QED
    BY <2>2 DEF LineInputs
<1>2. /\ DOMAIN lines = {1, 2}
      /\ \A i \in {1, 2} : /\ lines[i].debit = Numeric18_2(given[i].debit)
                           /\ lines[i].credit = Numeric18_2(given[i].credit)
  BY <1>1, StoredAmountsOf
<1>3. /\ \A i \in {1, 2} : is_valid_line_amounts(given[i].debit, given[i].credit)
      /\ IsBalanced(given)
  BY <1>1 DEF BuildsEntry, ValidEntry
<1> HIDE DEF lines, given
<1>4. \A i \in {1, 2} : lines[i].debit \in Nat /\ lines[i].credit \in Nat
  BY <1>1, <1>2, StoredAmounts
<1>5. given[1].debit + given[2].debit = given[1].credit + given[2].credit
  BY <1>1, <1>3, TotalsOfTwo DEF IsBalanced
<1>6. given[1].debit = given[2].credit /\ given[1].credit = given[2].debit
  <2>1. \A i \in {1, 2} : (given[i].debit > 0) # (given[i].credit > 0)
    BY <1>3 DEF is_valid_line_amounts
  <2> QED
    BY <1>1, <1>5, <2>1
<1>7. lines[1].debit = lines[2].credit /\ lines[1].credit = lines[2].debit
  BY <1>2, <1>6
<1>8. lines[1].debit + lines[2].debit = lines[1].credit + lines[2].credit
  BY <1>4, <1>7
<1>9. IsBalanced(lines)
  BY <1>2, <1>4, <1>8, TotalsOfTwo DEF IsBalanced
<1> QED
  BY <1>9 DEF lines

LEMMA SafelyRoundedBalances == SafelyRounded => RoundingBalances
  BY WholeCentsBalance, TwoLinesBalance DEF SafelyRounded, RoundingBalances

\* Every stored entry can be read back, and list_entries() reads stored ones.
ReadableInv ==
    /\ \A n \in DOMAIN journal_entries : ValidEntry(journal_entries[n], LinesOf(n))
    /\ \A c \in Callers : pc[c] = "list.lines" => entryRows[c] \subseteq DOMAIN journal_entries

\* An entry that is saved can be read back: the check constraints guarantee its lines.
LEMMA SavedReadable ==
  ASSUME TypeInv, LedgerInv, RoundingBalances, NEW c \in Callers, SavesEntry(c),
         NEW lines, lines = StoredLines(BuildLines(request[c].lines))
  PROVE  ValidEntry(request[c].date, lines)
<1>1. request[c] \in EntryInputs /\ BuildsEntry(request[c])
  BY DEF SavesEntry, JournalSave, TypeInv, InputsOK, JournalInputs
<1>2. lines \in Seq(Lines) /\ Len(lines) = Len(request[c].lines)
  <2>1. BuildLines(request[c].lines) \in Seq(Lines)
    BY <1>1, BuiltTypes
  <2>2. Len(BuildLines(request[c].lines)) = Len(request[c].lines)
    BY <1>1, JournalAssumption DEF BuildLines
  <2> QED
    BY <2>1, <2>2, StoredTypes DEF StoredLines
<1>3. ASSUME NEW i \in DOMAIN lines PROVE is_valid_line_amounts(lines[i].debit, lines[i].credit)
  <2>1. drawn[c] \notin DOMAIN journal_entries /\ drawn[c] \in DOMAIN journal_entries'
    BY DEF SavesEntry, JournalSave, Put, LedgerInv, NumbersInv, DrawnNumbersFresh
  <2>2. ~SaveViolatesConstraint(drawn[c], request[c].date, lines)
    BY <2>1 DEF SavesEntry, JournalSave
  <2>3. ExactlyOneSide(lines[i])
    BY <2>2 DEF SaveViolatesConstraint
  <2>4. lines[i] \in Lines
    BY <1>2
  <2>5. lines[i].debit \in Nat /\ lines[i].credit \in Nat
    BY <2>4 DEF Lines
  <2> QED
    BY <2>3, <2>5 DEF ExactlyOneSide, is_valid_line_amounts
<1>4. IsBalanced(lines)
  BY <1>1 DEF RoundingBalances
<1> QED
  BY <1>1, <1>2, <1>3, <1>4 DEF BuildsEntry, ValidEntry

\* What a step does to the rows list_entries() has read.
LEMMA RowsReadStep ==
  ASSUME TypeInv, [Next]_vars, NEW c \in Callers, pc'[c] = "list.lines"
  PROVE  \/ pc[c] = "list.lines" /\ entryRows'[c] = entryRows[c]
         \/ entryRows'[c] = DOMAIN journal_entries
<1> DEFINE kept == pc[c] = "list.lines" /\ entryRows'[c] = entryRows[c]
<1>1. CASE UNCHANGED vars
  BY <1>1 DEF vars, callVars, journalCallVars
<1>2. ASSUME NEW d \in Callers, AccountStep(d) PROVE kept
  BY <1>2, AccountQuiet DEF journalCallVars, Quiet, AccountPcs
<1>3. ASSUME NEW d \in Callers, PostingStep(d) PROVE kept
  BY <1>3, PostingMoves DEF journalCallVars, PostingPcs
<1>4. ASSUME NEW d \in Callers, BlankActorStep(d) PROVE kept
  BY <1>4 DEF BlankActorStep, RejectBlankActor, journalCallVars, Finish, TypeInv, TypeOK, CallsOK
<1>5. ASSUME NEW d \in Callers, JournalStep(d)
      PROVE  kept \/ entryRows'[c] = DOMAIN journal_entries
  <2> USE DEF TypeInv, TypeOK, CallsOK, JournalCallsOK, Finish, Begin, Continue, ForgetJournalCall
  <2>1. CASE BeginJournal(d)
    BY <2>1 DEF BeginJournal
  <2>2. CASE JournalValidateAccounts(d)
    BY <2>2 DEF JournalValidateAccounts
  <2>3. CASE JournalNumber(d)
    BY <2>3 DEF JournalNumber
  <2>4. CASE JournalSave(d)
    BY <2>4 DEF JournalSave
  <2>5. CASE BeginListEntries(d)
    BY <2>5 DEF BeginListEntries, journalCallVars
  <2>6. CASE ListSelectEntries(d)
    BY <2>6 DEF ListSelectEntries
  <2>7. CASE ListSelectLines(d)
    BY <2>7 DEF ListSelectLines
  <2>8. CASE JournalFailure(d)
    BY <2>8 DEF JournalFailure
  <2> QED
    BY <1>5, <2>1, <2>2, <2>3, <2>4, <2>5, <2>6, <2>7, <2>8 DEF JournalStep, JournalNext
<1> QED
  BY <1>1, <1>2, <1>3, <1>4, <1>5 DEF Next

\* Every step keeps the stored entries readable.
LEMMA ReadableStep ==
  ASSUME RoundingBalances
  PROVE  TypeInv /\ LedgerInv /\ ReadableInv /\ [Next]_vars => ReadableInv'
<1> SUFFICES ASSUME TypeInv, LedgerInv, ReadableInv, [Next]_vars PROVE ReadableInv'
  OBVIOUS
<1>1. \A n \in DOMAIN journal_entries :
         /\ n \in DOMAIN journal_entries'
         /\ journal_entries'[n] = journal_entries[n] /\ LinesOf(n)' = LinesOf(n)
  BY EntriesKept DEF LedgerInv, NumbersInv, LinesOf
<1>2. ASSUME NEW n \in DOMAIN journal_entries'
      PROVE  ValidEntry(journal_entries'[n], LinesOf(n)')
  <2>1. CASE n \in DOMAIN journal_entries
    BY <1>1, <2>1 DEF ReadableInv
  <2>2. ASSUME NEW c \in Callers, SavesEntry(c), n \notin DOMAIN journal_entries
        PROVE  ValidEntry(journal_entries'[n], LinesOf(n)')
    <3>1. n = drawn[c]
      BY <2>2 DEF SavesEntry, Put
    <3>2. /\ journal_entries'[n] = request[c].date
          /\ n \in DOMAIN journal_lines'
          /\ journal_lines'[n] = StoredLines(BuildLines(request[c].lines))
      BY <2>2, <3>1 DEF SavesEntry, Put
    <3>3. LinesOf(n)' = StoredLines(BuildLines(request[c].lines))
      BY <3>2 DEF LinesOf
    <3> QED
      BY <2>2, <3>2, <3>3, SavedReadable
  <2> QED
    BY <1>2, <2>1, <2>2, JournalWrites
<1>3. ASSUME NEW c \in Callers, pc'[c] = "list.lines"
      PROVE  entryRows'[c] \subseteq DOMAIN journal_entries'
  BY <1>1, <1>3, RowsReadStep DEF ReadableInv
<1>4. \A n \in DOMAIN journal_entries' : ValidEntry(journal_entries[n], LinesOf(n))'
  BY <1>2 DEF ValidEntry, IsBalanced, TotalDebits, TotalCredits, is_valid_line_amounts
<1> QED
  BY <1>3, <1>4 DEF ReadableInv

\* A chart whose lookup keys are current and unique can be built.
LEMMA ChartBuilds == ChartKeysUnique /\ NameKeysCurrent => ChartIsValid(accounts)
  BY DEF ChartKeysUnique, NameKeysCurrent, ChartIsValid

\* Caller c alone is told something, and it is not a ValidationError.
Translated(c) ==
    /\ \A d \in Callers \ {c} : outcome'[d] = outcome[d]
    /\ outcome'[c] = outcome[c] \/ outcome'[c].code # "ValidationError"

\* Beginning, going on, or ending in any other way.
LEMMA TranslatedMoves ==
  ASSUME TypeInv, NEW c \in Callers
  PROVE  /\ \A next : Begin(c, next) \/ Continue(c, next) => Translated(c)
         /\ \A code, n : Finish(c, code, n) /\ code # "ValidationError" => Translated(c)
         /\ \A code : FinishAccountCall(c, code) /\ code # "ValidationError" => Translated(c)
         /\ \A code : FinishPosting(c, code) /\ code # "ValidationError" => Translated(c)
  BY DEF Begin, Continue, Finish, FinishAccountCall, FinishPosting, Translated, NoOutcome,
         TypeInv, TypeOK, CallsOK

\* No account call ends with a ValidationError.
LEMMA AccountTranslated ==
  ASSUME TypeInv, NEW c \in Callers, AccountStep(c)
  PROVE  Translated(c)
<1> USE TranslatedMoves DEF BeginAccountCall, CommitReports
<1>1. CASE BeginCreate(c) \/ BeginUpdate(c) \/ BeginDelete(c)
  BY <1>1 DEF BeginCreate, BeginUpdate, BeginDelete
<1>2. CASE CreateCheckCode(c) \/ CreateCheckName(c) \/ CreateInsert(c)
  BY <1>2 DEF CreateCheckCode, CreateCheckName, CreateInsert, InsertConflict
<1>3. CASE UpdateGet(c) \/ UpdateCheckName(c) \/ UpdateCommit(c)
  BY <1>3 DEF UpdateGet, UpdateCheckName, UpdateCommit
<1>4. CASE UpdateSelect(c) \/ DeleteSelect(c)
  BY <1>4 DEF UpdateSelect, DeleteSelect, SelectRow
<1>5. CASE DeleteGet(c) \/ DeleteCheckPostings(c) \/ DeleteCommit(c) \/ AccountFailure(c)
  BY <1>5 DEF DeleteGet, DeleteCheckPostings, DeleteCommit, AccountFailure
<1> QED
  BY <1>1, <1>2, <1>3, <1>4, <1>5 DEF AccountStep, AccountNext

\* Nor a journal call, while the chart can be built and the entries can be read.
LEMMA JournalTranslated ==
  ASSUME TypeInv, ReadableInv, ChartIsValid(accounts), NEW c \in Callers, JournalStep(c)
  PROVE  Translated(c)
<1> USE TranslatedMoves DEF CommitReports
<1>1. CASE BeginJournal(c) \/ BeginListEntries(c) \/ ListSelectEntries(c) \/ JournalFailure(c)
  BY <1>1 DEF BeginJournal, BeginListEntries, ListSelectEntries, JournalFailure
<1>2. CASE JournalValidateAccounts(c)
  BY <1>2 DEF JournalValidateAccounts
<1>3. CASE JournalNumber(c) \/ JournalSave(c)
  BY <1>3 DEF JournalNumber, JournalSave
<1>4. CASE ListSelectLines(c)
  <2>1. \A n \in entryRows[c] : ValidEntry(journal_entries[n], LinesOf(n))
    BY <1>4 DEF ListSelectLines, ReadableInv
  <2> QED
    BY <1>4, <2>1 DEF ListSelectLines
<1> QED
  BY <1>1, <1>2, <1>3, <1>4 DEF JournalStep, JournalNext

\* Nor a posting call, while the entries can be read.
LEMMA PostingTranslated ==
  ASSUME TypeInv, ReadableInv, NEW c \in Callers, PostingStep(c)
  PROVE  Translated(c)
<1> USE TranslatedMoves DEF CommitReports
<1>1. CASE BeginPosting(c) \/ PostSelectEntry(c) \/ PostCheckPosted(c) \/ PostingFailure(c)
  BY <1>1 DEF BeginPosting, PostSelectEntry, PostCheckPosted, PostingFailure
<1>2. CASE PostSelectLines(c)
  <2>1. ValidEntry(journal_entries[target[c]], LinesOf(target[c]))
    BY <1>2 DEF PostSelectLines, ReadableInv, TypeInv, InputsOK, PostingInputs
  <2> QED
    BY <1>2, <2>1 DEF PostSelectLines
<1>3. CASE PostSave(c)
  BY <1>3 DEF PostSave
<1> QED
  BY <1>1, <1>2, <1>3 DEF PostingStep, PostingNext

\* No step ends a call with a ValidationError.
LEMMA OnlyAppErrorsStep ==
  TypeInv /\ ReadableInv /\ ChartIsValid(accounts) /\ OnlyAppErrors /\ [Next]_vars
    => OnlyAppErrors'
<1> SUFFICES ASSUME TypeInv, ReadableInv, ChartIsValid(accounts), OnlyAppErrors, [Next]_vars
             PROVE  OnlyAppErrors'
  OBVIOUS
<1>1. CASE UNCHANGED vars
  BY <1>1 DEF vars, callVars, OnlyAppErrors
<1>2. ASSUME NEW c \in Callers, BlankActorStep(c) PROVE Translated(c)
  BY <1>2, TranslatedMoves DEF BlankActorStep, RejectBlankActor
<1>3. ASSUME NEW c \in Callers, Translated(c) PROVE OnlyAppErrors'
  BY <1>3 DEF Translated, OnlyAppErrors
<1> QED
  BY <1>1, <1>2, <1>3, AccountTranslated, JournalTranslated, PostingTranslated DEF Next

\* No pydantic ValidationError crosses the service boundary: what was accepted
\* can be read back and the chart can always be built, whatever races, as long
\* as rounding to cents keeps the entries submitted balanced and no two
\* updates of one account load it before either writes it.
THEOREM ErrorsTranslated ==
  ASSUME RoundingBalances
  PROVE  Spec /\ []UpdatesAlone => []OnlyAppErrors
<1>1. Init => ReadableInv /\ OnlyAppErrors
  BY DEF Init, StorageInit, CallsInit, NoOutcome, ReadableInv, OnlyAppErrors
<1>2. TypeInv /\ LedgerInv /\ ReadableInv /\ [Next]_vars => ReadableInv'
  BY ReadableStep
<1>3. TypeInv /\ ReadableInv /\ ChartKeysUnique /\ NameKeysCurrent /\ OnlyAppErrors
         /\ [Next]_vars => OnlyAppErrors'
  BY OnlyAppErrorsStep, ChartBuilds
<1> QED
  BY <1>1, <1>2, <1>3, KeysCurrent, KeysUnique, BooksKept, CallsHoldTheirInputs, PTL DEF Spec

\* In particular a single caller never sees a ValidationError if what is finer
\* than a cent is only in entries of two lines.
THEOREM OneCallersErrors ==
  ASSUME SafelyRounded, NEW CONSTANT caller, Callers = {caller}
  PROVE  Spec => []OnlyAppErrors
<1>1. UpdatesAlone
  BY DEF UpdatesAlone
<1>2. RoundingBalances
  BY SafelyRoundedBalances
<1> QED
  BY <1>1, <1>2, ErrorsTranslated, PTL
=============================================================================
