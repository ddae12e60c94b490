--------------------------- MODULE AccountService ---------------------------
(***************************************************************************)
(* AccountService over PostgresAccountRepo: create, update and delete of   *)
(* an account, one step per statement awaited.  update() and               *)
(* delete_by_code() SELECT the row and write it in the same transaction    *)
(* but, at READ COMMITTED, another call may commit in between.             *)
(***************************************************************************)
EXTENDS Storage, Calls

CONSTANTS
    NameInputs,   \* the names callers submit
    MaxAccounts,  \* bound on the accounts ever created
    MaxUpdates    \* bound on the updates recorded per account code

ASSUME AccountAssumption ==
    /\ NameInputs \subseteq Names
    /\ MaxAccounts \in Nat
    /\ MaxUpdates \in Nat
    /\ None \notin {"DUPLICATE_ACCOUNT_CODE", "DUPLICATE_ACCOUNT_NAME"}

VARIABLES
    dto,        \* the input of the call in progress
    existing,   \* the Account get_by_code() returned to the service
    loaded      \* the row SELECTed by the repository's write transaction

accountCallVars == <<dto, existing, loaded>>

AccountDtos == [code : Codes, name : NameInputs \cup {None},
                category : Categories \cup {None}]

ForgetAccountCall(c) ==
    /\ dto' = [dto EXCEPT ![c] = None]
    /\ existing' = [existing EXCEPT ![c] = None]
    /\ loaded' = [loaded EXCEPT ![c] = None]

FinishAccountCall(c, code) ==
    /\ Finish(c, code, 0)
    /\ ForgetAccountCall(c)

BeginAccountCall(c, d, first) ==
    /\ Begin(c, first)
    /\ dto' = [dto EXCEPT ![c] = d]
    /\ UNCHANGED <<tables, existing, loaded>>

-----------------------------------------------------------------------------
(* create_account *)

BeginCreate(c) ==
    /\ account_id < MaxAccounts
    /\ \E d \in AccountDtos :
          /\ d.name # None /\ d.category # None
          /\ BeginAccountCall(c, d, "create.code")

CreateCheckCode(c) ==
    /\ pc[c] = "create.code"
    /\ \/ /\ exists_by_code(dto[c].code)
          /\ FinishAccountCall(c, "DUPLICATE_ACCOUNT_CODE")
       \/ /\ ~exists_by_code(dto[c].code)
          /\ Continue(c, "create.name")
          /\ UNCHANGED accountCallVars
    /\ UNCHANGED tables

\* The name check, then the construction of Account, which strips the name.
CreateCheckName(c) ==
    /\ pc[c] = "create.name"
    /\ \/ /\ exists_by_name(dto[c].name)
          /\ FinishAccountCall(c, "DUPLICATE_ACCOUNT_NAME")
       \/ /\ ~exists_by_name(dto[c].name)
          /\ clean_account_name(dto[c].name) = None
          /\ FinishAccountCall(c, "VALIDATION_ERROR")
       \/ /\ ~exists_by_name(dto[c].name)
          /\ clean_account_name(dto[c].name) # None
          /\ Continue(c, "create.insert")
          /\ UNCHANGED accountCallVars
    /\ UNCHANGED tables

\* Faulty variant: name_key has no unique constraint.
NoNameConflict(code, key) ==
    IF \E row \in accounts : row.code = code THEN "DUPLICATE_ACCOUNT_CODE" ELSE None

\* The constraint an INSERT of this row violates, if any.
InsertConflict(code, key) ==
    IF \E row \in accounts : row.code = code THEN "DUPLICATE_ACCOUNT_CODE"
    ELSE IF \E row \in accounts : row.name_key = key THEN "DUPLICATE_ACCOUNT_NAME"
    ELSE None

\* INSERT of the account and of its audit row, committed together.  (A
\* rejected INSERT also burns a value of the identity; only the values rows
\* carry are counted here.)
CreateInsert(c) ==
    LET name == clean_account_name(dto[c].name)
        conflict == InsertConflict(dto[c].code, account_lookup_key(name))
    IN  /\ pc[c] = "create.insert"
        /\ \/ /\ conflict # None
              /\ FinishAccountCall(c, conflict)
              /\ UNCHANGED <<accounts, account_id, audit_events>>
           \/ /\ conflict = None
              /\ account_id' = account_id + 1
              /\ accounts' = accounts \cup
                    {[id |-> account_id + 1, code |-> dto[c].code, name |-> name,
                      name_key |-> account_lookup_key(name),
                      category |-> dto[c].category]}
              /\ audit_events' = Audited("CREATE", dto[c].code)
              /\ \E report \in CommitReports : FinishAccountCall(c, report)
        /\ UNCHANGED <<journalTables, postings>>

-----------------------------------------------------------------------------
(* update_account *)

NewName(c) == IF dto[c].name # None THEN dto[c].name ELSE existing[c].name
\* Faulty variant: an omitted category is not filled in.
SubmittedCategory(c) == dto[c].category

NewCategory(c) ==
    IF dto[c].category # None THEN dto[c].category ELSE existing[c].category

BeginUpdate(c) ==
    \E d \in AccountDtos :
        /\ audit_events[d.code]["UPDATE"] < MaxUpdates
        /\ BeginAccountCall(c, d, "update.get")

\* get_by_code(); the name is checked only if it differs from the one read.
UpdateGet(c) ==
    LET row == RowByCode(dto[c].code)
    IN  /\ pc[c] = "update.get"
        /\ \/ /\ row = None
              /\ FinishAccountCall(c, "UNKNOWN_ACCOUNT")
           \/ /\ row # None
              /\ existing' = [existing EXCEPT ![c] = [code |-> row.code,
                                 name |-> row.name, category |-> row.category]]
              /\ Continue(c, IF dto[c].name \in {None, row.name}
                             THEN "update.select" ELSE "update.name")
              /\ UNCHANGED <<dto, loaded>>
        /\ UNCHANGED tables

UpdateCheckName(c) ==
    /\ pc[c] = "update.name"
    /\ \/ /\ exists_by_name(NewName(c))
          /\ FinishAccountCall(c, "DUPLICATE_ACCOUNT_NAME")
       \/ /\ ~exists_by_name(NewName(c))
          /\ clean_account_name(NewName(c)) = None
          /\ FinishAccountCall(c, "VALIDATION_ERROR")
       \/ /\ ~exists_by_name(NewName(c))
          /\ clean_account_name(NewName(c)) # None
          /\ Continue(c, "update.select")
          /\ UNCHANGED accountCallVars
    /\ UNCHANGED tables

\* The SELECT a repository write starts with.
SelectRow(c, pcHere, pcNext) ==
    LET row == RowByCode(dto[c].code)
    IN  /\ pc[c] = pcHere
        /\ \/ /\ row = None
              /\ FinishAccountCall(c, "UNKNOWN_ACCOUNT")
           \/ /\ row # None
              /\ loaded' = [loaded EXCEPT ![c] = row]
              /\ Continue(c, pcNext)
              /\ UNCHANGED <<dto, existing>>
        /\ UNCHANGED tables

UpdateSelect(c) == SelectRow(c, "update.select", "update.commit")

\* Faulty variant: name_key is not recomputed.
AssignedStaleKey(c) ==
    [loaded[c] EXCEPT !.name = clean_account_name(NewName(c)), !.category = NewCategory(c)]

\* The values the call assigns to the loaded row.
Assigned(c) ==
    LET name == clean_account_name(NewName(c))
    IN  [loaded[c] EXCEPT !.name = name, !.name_key = account_lookup_key(name),
                          !.category = NewCategory(c)]

\* The flush writes, by primary key, only the columns whose value differs
\* from the one loaded; the others keep what the table now holds.
Flushed(c, row) ==
    [row EXCEPT !.name = IF Assigned(c).name # loaded[c].name
                         THEN Assigned(c).name ELSE @,
                !.name_key = IF Assigned(c).name_key # loaded[c].name_key
                             THEN Assigned(c).name_key ELSE @,
                !.category = IF Assigned(c).category # loaded[c].category
                             THEN Assigned(c).category ELSE @]

UpdateConflict(c) ==
    /\ Assigned(c).name_key # loaded[c].name_key
    /\ \E row \in accounts : /\ row.id # loaded[c].id
                             /\ row.name_key = Assigned(c).name_key

\* UPDATE (none when nothing changed) and audit row, committed together.
\* An UPDATE that matches no row is a StaleDataError.
UpdateCommit(c) ==
    LET changed == Assigned(c) # loaded[c]
        here == {row \in accounts : row.id = loaded[c].id}
    IN  /\ pc[c] = "update.commit"
        /\ \/ /\ changed /\ here = {}
              /\ FinishAccountCall(c, "UNKNOWN_ERROR")
              /\ UNCHANGED <<accounts, audit_events>>
           \/ /\ here # {} /\ UpdateConflict(c)
              /\ FinishAccountCall(c, "DUPLICATE_ACCOUNT_NAME")
              /\ UNCHANGED <<accounts, audit_events>>
           \/ /\ changed => here # {}
              /\ ~UpdateConflict(c)
              /\ accounts' = (accounts \ here) \cup {Flushed(c, row) : row \in here}
              /\ audit_events' = Audited("UPDATE", dto[c].code)
              /\ \E report \in CommitReports : FinishAccountCall(c, report)
        /\ UNCHANGED <<account_id, journalTables, postings>>

-----------------------------------------------------------------------------
(* delete_account *)

BeginDelete(c) ==
    \E code \in Codes :
        /\ audit_events[code]["DELETE"] < MaxAccounts
        /\ BeginAccountCall(c, [code |-> code, name |-> None, category |-> None],
                            "delete.get")

DeleteGet(c) ==
    LET row == RowByCode(dto[c].code)
    IN  /\ pc[c] = "delete.get"
        /\ \/ /\ row = None
              /\ FinishAccountCall(c, "UNKNOWN_ACCOUNT")
           \/ /\ row # None
              /\ existing' = [existing EXCEPT ![c] = [code |-> row.code,
                                 name |-> row.name, category |-> row.category]]
              /\ Continue(c, "delete.postings")
              /\ UNCHANGED <<dto, loaded>>
        /\ UNCHANGED tables

\* The has_postings predicate the composition roots wire in.
DeleteCheckPostings(c) ==
    /\ pc[c] = "delete.postings"
    /\ \/ /\ has_postings(existing[c].name)
          /\ FinishAccountCall(c, "ACCOUNT_HAS_POSTINGS")
       \/ /\ ~has_postings(existing[c].name)
          /\ Continue(c, "delete.select")
          /\ UNCHANGED accountCallVars
    /\ UNCHANGED tables

DeleteSelect(c) == SelectRow(c, "delete.select", "delete.commit")

\* DELETE by primary key and audit row, committed together.  A DELETE that
\* matches no row is only a warning.
DeleteCommit(c) ==
    /\ pc[c] = "delete.commit"
    /\ accounts' = {row \in accounts : row.id # loaded[c].id}
    /\ audit_events' = Audited("DELETE", dto[c].code)
    /\ \E report \in CommitReports : FinishAccountCall(c, report)
    /\ UNCHANGED <<account_id, journalTables, postings>>

-----------------------------------------------------------------------------

AccountPcs == {"create.code", "create.name", "create.insert",
               "update.get", "update.name", "update.select", "update.commit",
               "delete.get", "delete.postings", "delete.select", "delete.commit"}

\* The statement fails, or times out, before it has any effect.
AccountFailure(c) ==
    /\ pc[c] \in AccountPcs
    /\ FinishAccountCall(c, "STORAGE_FAILURE")
    /\ UNCHANGED tables

AccountInit ==
    /\ dto = [c \in Callers |-> None]
    /\ existing = [c \in Callers |-> None]
    /\ loaded = [c \in Callers |-> None]

AccountNext(c) ==
    \/ BeginCreate(c) \/ CreateCheckCode(c) \/ CreateCheckName(c) \/ CreateInsert(c)
    \/ BeginUpdate(c) \/ UpdateGet(c) \/ UpdateCheckName(c)
    \/ UpdateSelect(c) \/ UpdateCommit(c)
    \/ BeginDelete(c) \/ DeleteGet(c) \/ DeleteCheckPostings(c)
    \/ DeleteSelect(c) \/ DeleteCommit(c)
    \/ AccountFailure(c)
=============================================================================
