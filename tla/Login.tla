------------------------------- MODULE Login -------------------------------
(***************************************************************************)
(* A login: ThrottledAuthenticator around PasswordAuthenticator.  The      *)
(* throttle counts the failures of the client and address, lets the inner  *)
(* authenticator check the password, and records the failure or clears the *)
(* count afterwards; other logins run between any two of these steps.      *)
(***************************************************************************)
EXTENDS IdentityStore, Hasher

CONSTANTS
    LoginInputs,    \* the calls made: [ip, email, password]
    LongSecrets,    \* passwords over MAX_PASSWORD_LENGTH
    UnknownIp,      \* UNKNOWN_CLIENT_IP
    MaxFailures     \* max_failures

ASSUME LoginAssumption ==
    /\ MaxFailures \in Nat \ {0}
    /\ UnknownIp \in Ips
    /\ \A r \in LoginInputs : /\ r.ip \in Ips \cup {None}
                              /\ r.email.key \in EmailKeys
                              /\ r.password.secret \in Secrets
    /\ \A e \in DOMAIN SeededUsers : SeededUsers[e].secret \notin LongSecrets \cup {Blank}

VARIABLES
    request,    \* the credentials of each caller's last login
    failures,   \* what count_failures returned
    found,      \* the User that get_by_email returned
    elapsed     \* ticks since the clock reading in use

loginVars == <<request, failures, found, elapsed>>

LoginStatements == {"login.count", "login.lookup", "login.update",
                    "login.clear", "login.record", "login.purge"}
LoginHashing == {"login.verifying", "login.rehashing"}
LoginPcs == LoginStatements \cup LoginHashing \cup {"login.verify", "login.rehash"}

Ip(c) == IF request[c].ip = None THEN UnknownIp ELSE request[c].ip
Email(c) == normalize_email(request[c].email)
Secret(c) == normalize_password(request[c].password)

\* Faulty variant: the password as typed.
RawSecret(c) == request[c].password

\* A clock reading in use: since, then failed_at.
Stamped(c) == pc[c] \in {"login.count", "login.record", "login.purge"}

EndLogin(c, code) ==
    /\ Finish(c, code, 0)
    /\ failures' = [failures EXCEPT ![c] = 0]
    /\ found' = [found EXCEPT ![c] = None]
    /\ elapsed' = [elapsed EXCEPT ![c] = 0]
    /\ UNCHANGED request

\* The inner authenticator raises AUTH_INVALID_CREDENTIALS: the throttle
\* reads the clock and is about to record the failure.
RaiseInvalid(c) ==
    /\ Continue(c, "login.record")
    /\ failures' = [failures EXCEPT ![c] = 0]
    /\ found' = [found EXCEPT ![c] = None]
    /\ elapsed' = [elapsed EXCEPT ![c] = 0]
    /\ UNCHANGED request

\* Faulty variant: a throttled attempt is recorded as a failure.
RecordThrottled(c) == RaiseInvalid(c)

RaiseThrottled(c) == EndLogin(c, "AUTH_THROTTLED")

\* The identity is returned, once the pair's failures are cleared if any
\* were counted.
Authenticated(c) ==
    \/ /\ failures[c] = 0
       /\ EndLogin(c, "LOGGED_IN")
    \/ /\ failures[c] > 0
       /\ Continue(c, "login.clear")
       /\ found' = [found EXCEPT ![c] = None]
       /\ UNCHANGED <<request, failures, elapsed>>

-----------------------------------------------------------------------------

\* An over-limit address goes straight to the inner authenticator, which
\* refuses it before any lookup: it is neither throttled nor recorded.
BeginLogin(c, r) ==
    /\ pc[c] = "idle"
    /\ request' = [request EXCEPT ![c] = r]
    /\ \/ /\ normalize_email(r.email) \notin LongEmails
          /\ Begin(c, "login.count")
       \/ /\ normalize_email(r.email) \in LongEmails
          /\ Finish(c, "AUTH_INVALID_CREDENTIALS", 0)
    /\ UNCHANGED <<identityTables, slots, failures, found, elapsed>>

AcceptableSecret(c) == Secret(c) # Blank /\ Secret(c) \notin LongSecrets

\* Faulty variant: one failure too many.
PastLimit(counted) == counted > MaxFailures

AtLimit(counted) == counted >= MaxFailures

CountFailures(c) ==
    /\ pc[c] = "login.count"
    /\ LET counted == Cardinality(FailuresSince(Ip(c), Email(c), elapsed[c]))
       IN  \/ /\ AtLimit(counted)
              /\ RaiseThrottled(c)
           \/ /\ ~AtLimit(counted)
              /\ AcceptableSecret(c)
              /\ Continue(c, "login.lookup")
              /\ failures' = [failures EXCEPT ![c] = counted]
              /\ elapsed' = [elapsed EXCEPT ![c] = 0]
              /\ UNCHANGED <<request, found>>
           \/ /\ ~AtLimit(counted)
              /\ ~AcceptableSecret(c)
              /\ RaiseInvalid(c)
    /\ UNCHANGED <<identityTables, slots>>

\* The user is read once: what happens to it later is not seen.
Lookup(c) ==
    /\ pc[c] = "login.lookup"
    /\ found' = [found EXCEPT ![c] = get_by_email(Email(c))]
    /\ Continue(c, "login.verify")
    /\ UNCHANGED <<identityTables, slots, request, failures, elapsed>>

StartVerify(c) ==
    /\ Acquire(c, "login.verify", "login.verifying")
    /\ UNCHANGED <<identityTables, loginVars>>

\* A missing user is verified against the dummy hash, which never matches.
Matches(c) == found[c] # None /\ found[c].secret = Secret(c)

\* Faulty variant: a disabled user is admitted.
AdmittedAnyway(c) == Matches(c)

Admitted(c) == Matches(c) /\ found[c].is_active

EndVerify(c) ==
    /\ pc[c] = "login.verifying"
    /\ Release
    /\ \/ /\ ~Admitted(c)
          /\ RaiseInvalid(c)
       \/ /\ Admitted(c)
          /\ ~found[c].current   \* needs_rehash
          /\ Continue(c, "login.rehash")
          /\ UNCHANGED loginVars
       \/ /\ Admitted(c)
          /\ found[c].current
          /\ Authenticated(c)
    /\ UNCHANGED identityTables

StartRehash(c) ==
    /\ Acquire(c, "login.rehash", "login.rehashing")
    /\ UNCHANGED <<identityTables, loginVars>>

EndRehash(c) ==
    /\ pc[c] = "login.rehashing"
    /\ Release
    /\ Continue(c, "login.update")
    /\ UNCHANGED <<identityTables, loginVars>>

\* Faulty variant: the password is rehashed as typed.
UpdateRawHash(c) ==
    /\ pc[c] = "login.update"
    /\ update_password_hash(Email(c), RawSecret(c))
    /\ Authenticated(c) \/ EndLogin(c, "STORAGE_FAILURE")
    /\ UNCHANGED <<attempts, slots>>

\* The hash of the candidate replaces the stored one; the row is always
\* there, users are never deleted.
UpdateHash(c) ==
    /\ pc[c] = "login.update"
    /\ update_password_hash(Email(c), Secret(c))
    /\ Authenticated(c) \/ EndLogin(c, "STORAGE_FAILURE")
    /\ UNCHANGED <<attempts, slots>>

Clear(c) ==
    /\ pc[c] = "login.clear"
    /\ clear(Ip(c), Email(c))
    /\ EndLogin(c, "LOGGED_IN") \/ EndLogin(c, "STORAGE_FAILURE")
    /\ UNCHANGED <<users, slots>>

\* The failure is recorded with the time it was noticed; the purge that
\* follows reuses that time.
RecordFailure(c) ==
    /\ pc[c] = "login.record"
    /\ record_failure(Ip(c), Email(c), elapsed[c])
    /\ \/ /\ Continue(c, "login.purge")
          /\ UNCHANGED loginVars
       \/ EndLogin(c, "STORAGE_FAILURE")
    /\ UNCHANGED <<users, slots>>

Purge(c) ==
    /\ pc[c] = "login.purge"
    /\ purge_before(Window, elapsed[c])
    /\ EndLogin(c, "AUTH_INVALID_CREDENTIALS") \/ EndLogin(c, "STORAGE_FAILURE")
    /\ UNCHANGED <<users, slots>>

\* A statement fails without effect; the error propagates, whichever it was.
LoginStorageFails(c) ==
    /\ pc[c] \in LoginStatements
    /\ EndLogin(c, "STORAGE_FAILURE")
    /\ UNCHANGED <<identityTables, slots>>

-----------------------------------------------------------------------------

LoginInit ==
    /\ request = [c \in Callers |-> None]
    /\ failures = [c \in Callers |-> 0]
    /\ found = [c \in Callers |-> None]
    /\ elapsed = [c \in Callers |-> 0]

StartHash(c) == StartVerify(c) \/ StartRehash(c)

LoginStep(c) ==
    \/ CountFailures(c) \/ Lookup(c)
    \/ EndVerify(c) \/ EndRehash(c) \/ UpdateHash(c)
    \/ Clear(c) \/ RecordFailure(c) \/ Purge(c)
    \/ LoginStorageFails(c)

LoginNext(c) == \/ \E r \in LoginInputs : BeginLogin(c, r)
                \/ StartHash(c)
                \/ LoginStep(c)
=============================================================================
