---------------------------- MODULE Registration ----------------------------
(***************************************************************************)
(* RegistrationService.register: validation, the duplicate pre-check, the  *)
(* hash and the insert, each a step that others may run between.           *)
(***************************************************************************)
EXTENDS IdentityStore, Hasher

CONSTANTS
    RegisterInputs,     \* the calls made: [email, password]
    IllFormedEmails,    \* addresses is_well_formed_email() refuses
    UnacceptableSecrets \* blank, too short or too long to register

ASSUME RegistrationAssumption ==
    \A d \in RegisterInputs : /\ d.email.key \in EmailKeys
                              /\ d.password.secret \in Secrets

VARIABLE data   \* the input of each caller's last valid registration

RegisterStatements == {"register.lookup", "register.create"}
RegisterPcs == RegisterStatements \cup {"register.hash", "register.hashing"}

NewEmail(c) == normalize_email(data[c].email)

\* Faulty variant: the password is hashed as typed.
RawNewUser(c) == [secret |-> data[c].password, current |-> TRUE, is_active |-> TRUE]

\* The row to insert: a fresh hash of the normalized password, active.
NewUser(c) == [secret |-> normalize_password(data[c].password),
               current |-> TRUE, is_active |-> TRUE]

ValidRegistration(d) ==
    /\ normalize_email(d.email) \notin IllFormedEmails
    /\ normalize_password(d.password) \notin UnacceptableSecrets

BeginRegister(c, d) ==
    /\ pc[c] = "idle"
    /\ \/ /\ ValidRegistration(d)
          /\ Begin(c, "register.lookup")
          /\ data' = [data EXCEPT ![c] = d]
       \/ /\ ~ValidRegistration(d)
          /\ Finish(c, "VALIDATION_ERROR", 0)
          /\ UNCHANGED data
    /\ UNCHANGED <<identityTables, slots>>

CheckEmail(c) ==
    /\ pc[c] = "register.lookup"
    /\ \/ /\ get_by_email(NewEmail(c)) # None
          /\ Finish(c, "DUPLICATE_USER_EMAIL", 0)
       \/ /\ get_by_email(NewEmail(c)) = None
          /\ Continue(c, "register.hash")
    /\ UNCHANGED <<identityTables, slots, data>>

StartPasswordHash(c) ==
    /\ Acquire(c, "register.hash", "register.hashing")
    /\ UNCHANGED <<identityTables, data>>

EndPasswordHash(c) ==
    /\ pc[c] = "register.hashing"
    /\ Release
    /\ Continue(c, "register.create")
    /\ UNCHANGED <<identityTables, data>>

CreateUser(c) ==
    /\ pc[c] = "register.create"
    /\ \/ /\ ViolatesUniqueEmail(NewEmail(c))
          /\ Finish(c, "DUPLICATE_USER_EMAIL", 0)
          /\ UNCHANGED users
       \/ /\ ~ViolatesUniqueEmail(NewEmail(c))
          /\ InsertUser(NewEmail(c), NewUser(c))
          /\ Finish(c, "REGISTERED", 0) \/ Finish(c, "STORAGE_FAILURE", 0)
    /\ UNCHANGED <<attempts, slots, data>>

RegisterStorageFails(c) ==
    /\ pc[c] \in RegisterStatements
    /\ Finish(c, "STORAGE_FAILURE", 0)
    /\ UNCHANGED <<identityTables, slots, data>>

RegistrationInit == data = [c \in Callers |-> None]

RegisterStep(c) ==
    \/ CheckEmail(c) \/ EndPasswordHash(c) \/ CreateUser(c)
    \/ RegisterStorageFails(c)

RegistrationNext(c) == \/ \E d \in RegisterInputs : BeginRegister(c, d)
                       \/ StartPasswordHash(c)
                       \/ RegisterStep(c)
=============================================================================
