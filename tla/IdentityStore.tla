--------------------------- MODULE IdentityStore ---------------------------
(***************************************************************************)
(* The identity tables of trutina.storage_postgres, users and              *)
(* login_attempts, as PostgresUserRepo and PostgresLoginAttemptRepo read   *)
(* and write them, one statement per operation.                            *)
(*                                                                         *)
(* An email is [key, form]: the normalized address and the spelling that   *)
(* normalize_email() erases.  A password is [secret, form] likewise.       *)
(* A user is identified by the normalized address: both it and the id are  *)
(* unique, neither ever changes, and users are never deleted.              *)
(*                                                                         *)
(* Time is relative: each row has the ticks since its attempted_at, and a  *)
(* call that has read the clock has the ticks since then.  A row too old   *)
(* for any count and doomed in any purge is not represented.               *)
(***************************************************************************)
EXTENDS Integers, FiniteSets

CONSTANTS
    EmailKeys,      \* normalized addresses
    LongEmails,     \* those over MAX_EMAIL_LENGTH
    Secrets,        \* normalized passwords
    Blank,          \* the empty one
    Ips,            \* client addresses, with the "unknown" sentinel
    AttemptIds,     \* bounds the login_attempts rows that exist at once
    Window,         \* the throttle window, in ticks
    MaxDelay,       \* most ticks from a clock reading to the end of its use
    SeededUsers,    \* the users in the database at the start
    None            \* Python's None

VARIABLES
    users,      \* address -> the rest of its users row
    attempts    \* set of login_attempts rows

identityTables == <<users, attempts>>

normalize_email(email) == email.key
normalize_password(password) == password.secret

\* A hash is the secret it verifies, and whether it has the parameters of
\* the running hasher.
Users == [secret : Secrets, current : BOOLEAN, is_active : BOOLEAN]

ASSUME IdentityAssumption ==
    /\ Window \in Nat \ {0}
    /\ MaxDelay \in Nat \ {0}
    /\ None \notin Users
    /\ DOMAIN SeededUsers \subseteq EmailKeys
    /\ \A e \in DOMAIN SeededUsers : SeededUsers[e] \in Users

Horizon == Window + MaxDelay
Attempts == [id : AttemptIds, ip : Ips, email : EmailKeys, age : 0 .. Horizon]

-----------------------------------------------------------------------------
(* PostgresUserRepo *)

get_by_email(email) == IF email \in DOMAIN users THEN users[email] ELSE None

\* The insert, once uq_users_email has let it through.
InsertUser(email, user) ==
    users' = [e \in DOMAIN users \cup {email} |-> IF e = email THEN user ELSE users[e]]

\* Faulty variant: no unique constraint on users.email.
NeverViolated(email) == FALSE

ViolatesUniqueEmail(email) == email \in DOMAIN users

\* Only password_hash is written: is_active stays as it is by then.
update_password_hash(email, secret) ==
    users' = [users EXCEPT ![email].secret = secret, ![email].current = TRUE]

\* UserRepo.set_active, called by whoever administers the users.
set_active(email, is_active) ==
    /\ email \in DOMAIN users
    /\ users' = [users EXCEPT ![email].is_active = is_active]
    /\ UNCHANGED attempts

-----------------------------------------------------------------------------
(* PostgresLoginAttemptRepo *)

\* Faulty variant: the failures of an account count for every address.
FailuresOfEmail(ip, email, elapsed) ==
    {a \in attempts : a.email = email /\ a.age <= Window + elapsed}

\* Rows of the pair that a count sees when the clock was read elapsed ticks
\* ago: since is the reading minus the window, and inclusive.
FailuresSince(ip, email, elapsed) ==
    {a \in attempts : a.ip = ip /\ a.email = email /\ a.age <= Window + elapsed}

UnusedIds == AttemptIds \ {a.id : a \in attempts}

record_failure(ip, email, elapsed) ==
    /\ UnusedIds # {}
    /\ attempts' = attempts \cup
         {[id |-> CHOOSE i \in UnusedIds : TRUE, ip |-> ip, email |-> email, age |-> elapsed]}

\* Faulty variant: the cutoff is the current time, not the window's start.
PurgeEverything(keep, elapsed) ==
    attempts' = {a \in attempts : a.age <= elapsed}

\* The cutoff was computed elapsed ticks ago as that time minus keep; rows
\* stamped strictly before it go, whatever their pair.
purge_before(keep, elapsed) ==
    attempts' = {a \in attempts : a.age <= keep + elapsed}

clear(ip, email) ==
    attempts' = {a \in attempts : ~(a.ip = ip /\ a.email = email)}

\* A tick of the clock.
Older == attempts' = {[a EXCEPT !.age = @ + 1] : a \in {b \in attempts : b.age < Horizon}}

\* tools/purge-login-attempts.py takes any --older-than-hours, whatever the
\* window: none, a part of the window, or a negative one, which takes even the
\* rows that are stamped this tick.
OlderThan == -1 .. Window
PurgeTool(older_than) ==
    /\ \E delay \in 0 .. MaxDelay : purge_before(older_than, delay)
    /\ UNCHANGED users

IdentityInit ==
    /\ users = SeededUsers
    /\ attempts = {}
=============================================================================
