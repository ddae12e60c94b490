--------------------------- MODULE Authentication ---------------------------
(***************************************************************************)
(* Logins and registrations of several callers over one identity store and *)
(* one hasher, with the clock, the administrator's set_active and the      *)
(* purge tool.                                                             *)
(***************************************************************************)
EXTENDS Login, Registration

CONSTANT Switchable   \* the users an administrator may disable and enable

VARIABLE seen_active   \* history, not in the code: the users that have been
                       \* active at some time since the caller's call began

vars == <<identityTables, callVars, slots, loginVars, data, seen_active>>

Active(table) == {e \in DOMAIN table : table[e].is_active}

Remember ==
    seen_active' = [c \in Callers |->
        Active(users') \cup IF pc[c] = "idle" THEN {} ELSE seen_active[c]]

\* A stamped call ends the use of its clock reading within MaxDelay ticks.
Tick ==
    /\ \A c \in Callers : Stamped(c) => elapsed[c] < MaxDelay
    /\ Older
    /\ elapsed' = [c \in Callers |-> IF Stamped(c) THEN elapsed[c] + 1 ELSE 0]
    /\ UNCHANGED <<users, callVars, slots, request, failures, found, data>>

SetActive ==
    /\ \E e \in Switchable, flag \in BOOLEAN : set_active(e, flag)
    /\ UNCHANGED <<callVars, slots, loginVars, data>>

PurgeByHand(older_than) ==
    /\ PurgeTool(older_than)
    /\ UNCHANGED <<callVars, slots, loginVars, data>>
PurgesByHand == \E older_than \in OlderThan : PurgeByHand(older_than)

Init ==
    /\ IdentityInit
    /\ CallsInit
    /\ HasherInit
    /\ LoginInit
    /\ RegistrationInit
    /\ seen_active = [c \in Callers |-> Active(SeededUsers)]

CallerNext(c) == \/ LoginNext(c) /\ UNCHANGED data
                 \/ RegistrationNext(c) /\ UNCHANGED loginVars

Next == /\ \/ \E c \in Callers : CallerNext(c)
           \/ Tick
           \/ SetActive
           \/ PurgesByHand
        /\ Remember

Spec == Init /\ [][Next]_vars

\* The event loop runs every ready task and every statement ends, at worst
\* by its timeout: weak fairness.  The semaphore is first come, first
\* served: a waiter is not passed over for ever, strong fairness.  Nobody has
\* to call, disable a user or run the purge tool.
GoesOn(c) == /\ \/ LoginStep(c) /\ UNCHANGED data
                \/ RegisterStep(c) /\ UNCHANGED loginVars
             /\ Remember
GetsSlot(c) == /\ \/ StartHash(c) /\ UNCHANGED data
                  \/ StartPasswordHash(c) /\ UNCHANGED loginVars
               /\ Remember
Fairness == /\ \A c \in Callers : WF_vars(GoesOn(c)) /\ SF_vars(GetsSlot(c))
            /\ WF_vars(Tick /\ Remember)

FairSpec == Spec /\ Fairness

-----------------------------------------------------------------------------
(* Types *)

OutcomeCodes == {"NONE", "LOGGED_IN", "REGISTERED", "AUTH_INVALID_CREDENTIALS",
                 "AUTH_THROTTLED", "STORAGE_FAILURE", "VALIDATION_ERROR",
                 "DUPLICATE_USER_EMAIL"}

Pcs == {"idle"} \cup LoginPcs \cup RegisterPcs

TablesOK == /\ DOMAIN users \subseteq EmailKeys
            /\ \A e \in DOMAIN users : users[e] \in Users
            /\ attempts \subseteq Attempts
            /\ IsFiniteSet(attempts)

CallsOK == /\ pc \in [Callers -> Pcs]
           /\ outcome \in [Callers -> [code : OutcomeCodes, number : {0}]]
           /\ slots \in 0 .. MaxConcurrency

LoginsOK == /\ request \in [Callers -> LoginInputs \cup {None}]
            /\ failures \in [Callers -> 0 .. MaxFailures - 1]
            /\ found \in [Callers -> Users \cup {None}]
            /\ elapsed \in [Callers -> 0 .. MaxDelay]

\* A call in progress has its input.
InputsOK == /\ data \in [Callers -> RegisterInputs \cup {None}]
            /\ \A c \in Callers :
                  /\ pc[c] \in LoginPcs => request[c] \in LoginInputs
                  /\ pc[c] \in RegisterPcs => data[c] \in RegisterInputs

\* Every row, call and permit has the shape the code gives it; in particular
\* a stored hash is always one of a normalized password, and the failures a
\* call carries past the throttle are below the limit.
TypeOK == /\ TablesOK
          /\ CallsOK
          /\ LoginsOK
          /\ InputsOK

\* As many hashes run as permits are taken, and never more than the bound
\* (Argon2PasswordHasher, no caller being cancelled).
Hashing == {c \in Callers : pc[c] \in LoginHashing \cup {"register.hashing"}}
SlotsAccounted == slots + Cardinality(Hashing) = MaxConcurrency

-----------------------------------------------------------------------------
(* The throttle *)

Failures(ip, email) == {a \in attempts : a.ip = ip /\ a.email = email /\ a.age <= Window}

\* Counted, and able to record a failure that the count did not include.
InFlight(ip, email) ==
    {c \in Callers : /\ pc[c] \in {"login.lookup", "login.verify", "login.verifying",
                                   "login.record"}
                     /\ Ip(c) = ip
                     /\ Email(c) = email}

\* The count and the record are not atomic, yet the failures of one client
\* and address within the window exceed the limit by no more than the number
\* of attempts in flight (ThrottledAuthenticator).
ThrottleBound ==
    \A ip \in Ips, email \in EmailKeys :
        Cardinality(Failures(ip, email)) + Cardinality(InFlight(ip, email))
            <= MaxFailures - 1 + Cardinality(Callers)

\* A failure is forgotten only by growing older than the window, by a
\* successful login from the same address to the same account, or by the tool
\* where it is told to keep less than the window: no purge of a login, however
\* old its clock reading, and no other pair's success takes it away.
ForgetsOnlyItsOwn ==
    [][\A a \in attempts : (a.age <= Window /\ a \notin attempts') =>
           \/ [a EXCEPT !.age = @ + 1] \in attempts'
           \/ a.age = Horizon
           \/ \E c \in Callers : pc[c] = "login.clear" /\ pc'[c] = "idle"
                                 /\ Ip(c) = a.ip /\ Email(c) = a.email
           \/ \E older_than \in OlderThan \ {Window} : PurgeByHand(older_than)]_vars

\* An address from which only right passwords have come for an account is
\* not throttled for it, whatever fails elsewhere: throttling does not lock
\* accounts.
WrongFrom(ip, email) ==
    \E r \in LoginInputs :
        /\ (IF r.ip = None THEN UnknownIp ELSE r.ip) = ip
        /\ normalize_email(r.email) = email
        /\ \/ email \notin DOMAIN SeededUsers
           \/ normalize_password(r.password) # SeededUsers[email].secret
           \/ ~SeededUsers[email].is_active
           \/ email \in Switchable
OthersUnaffected ==
    \A c \in Callers : outcome[c].code = "AUTH_THROTTLED" => WrongFrom(Ip(c), Email(c))

\* A client that is throttled becomes able to try again, even if it never
\* stops trying: throttled attempts do not extend the delay.
ThrottleLifts ==
    \A ip \in Ips, email \in EmailKeys :
        (Cardinality(Failures(ip, email)) >= MaxFailures)
            ~> (Cardinality(Failures(ip, email)) < MaxFailures)

\* Every login and registration ends, whatever competes for the hasher.
EveryCallEnds == \A c \in Callers : (pc[c] # "idle") ~> (pc[c] = "idle")

-----------------------------------------------------------------------------
(* The identities *)

\* A login succeeds only with the stored password of a user that has been
\* active during the call: disabling a user stops every login begun later.
LoginsGenuine ==
    [][\A c \in Callers :
         (pc[c] \in LoginPcs /\ pc'[c] = "idle" /\ outcome'[c].code = "LOGGED_IN") =>
             /\ Email(c) \in DOMAIN users
             /\ users[Email(c)].secret = Secret(c)
             /\ Email(c) \in seen_active[c]]_vars

\* No step changes the password of a registered user: rehashing it under new
\* parameters keeps what the user typed at registration.
PasswordsStand ==
    [][\A e \in DOMAIN users :
         e \in DOMAIN users' /\ users'[e].secret = users[e].secret]_vars

\* Of the registrations racing for an address at most one is told it has
\* succeeded, and its password is the one the account has from then on.
RegistrationsTruthful ==
    \A c \in Callers : outcome[c].code = "REGISTERED" =>
        /\ NewEmail(c) \in DOMAIN users
        /\ users[NewEmail(c)].secret = normalize_password(data[c].password)
        /\ \A d \in Callers \ {c} :
               outcome[d].code = "REGISTERED" => NewEmail(d) # NewEmail(c)
=============================================================================
