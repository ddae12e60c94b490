--------------------------- MODULE ThrottleProofs ---------------------------
(***************************************************************************)
(* What the throttle bounds, forgets and refuses.  Counting and recording  *)
(* are separate steps, so the number of recorded failures is not an        *)
(* invariant by itself: what a step may add to it is carried by the calls  *)
(* in flight, and ThrottleBound adds the two.                              *)
(***************************************************************************)
EXTENDS AuthenticationProofs

FlightPcs == {"login.lookup", "login.verify", "login.verifying", "login.record"}

\* Failures and calls in flight can be counted.
LEMMA Countable ==
  ASSUME TypeInv, NEW ip, NEW email
  PROVE  /\ IsFiniteSet(Failures(ip, email))
         /\ Cardinality(Failures(ip, email)) \in Nat
         /\ IsFiniteSet(InFlight(ip, email))
         /\ Cardinality(InFlight(ip, email)) \in Nat
         /\ Cardinality(InFlight(ip, email)) <= Cardinality(Callers)
         /\ Cardinality(Callers) \in Nat
<1>1. Failures(ip, email) \in SUBSET attempts /\ InFlight(ip, email) \in SUBSET Callers
  BY DEF Failures, InFlight
<1>2. IsFiniteSet(attempts) /\ IsFiniteSet(Callers)
  BY HasherAssumption DEF TypeInv, TypeOK, TablesOK
<1> QED
  BY <1>1, <1>2, FS_Subset, FS_CardinalityType

\* A pair whose failures do not grow in number, and whose calls in flight do
\* not grow, stays within the bound.
LEMMA Shrinks ==
  ASSUME TypeInv, TypeInv', ThrottleBound, NEW ip \in Ips, NEW email \in EmailKeys,
         Cardinality(Failures(ip, email)') <= Cardinality(Failures(ip, email)),
         InFlight(ip, email)' \subseteq InFlight(ip, email)
  PROVE  Cardinality(Failures(ip, email)') + Cardinality(InFlight(ip, email)')
            <= MaxFailures - 1 + Cardinality(Callers)
<1>1. Cardinality(Failures(ip, email)) + Cardinality(InFlight(ip, email))
        <= MaxFailures - 1 + Cardinality(Callers)
  BY DEF ThrottleBound
<1>2. Cardinality(InFlight(ip, email)') <= Cardinality(InFlight(ip, email))
  BY Countable, FS_Subset
<1>3. /\ Cardinality(Failures(ip, email)) \in Nat
      /\ Cardinality(InFlight(ip, email)) \in Nat
      /\ Cardinality(Callers) \in Nat
      /\ MaxFailures \in Nat
  BY Countable, LoginAssumption
<1>4. Failures(ip, email)' \subseteq attempts' /\ InFlight(ip, email)' \subseteq Callers
  BY DEF Failures, InFlight
<1>5. /\ Cardinality(Failures(ip, email)') \in Nat
      /\ Cardinality(InFlight(ip, email)') \in Nat
  BY <1>4, FS_Subset, FS_CardinalityType, HasherAssumption DEF TypeInv, TypeOK, TablesOK
<1> QED
  BY <1>1, <1>2, <1>3, <1>5

\* A step that removes rows, or none, and that takes no call past the count.
LEMMA QuietBound ==
  ASSUME TypeInv, TypeInv', ThrottleBound, attempts' \subseteq attempts,
         \A d \in Callers : pc'[d] \in FlightPcs =>
             pc[d] \in FlightPcs /\ request'[d] = request[d]
  PROVE  ThrottleBound'
<1> SUFFICES ASSUME NEW ip \in Ips, NEW email \in EmailKeys
             PROVE  Cardinality(Failures(ip, email)') + Cardinality(InFlight(ip, email)')
                       <= MaxFailures - 1 + Cardinality(Callers)
  BY DEF ThrottleBound
<1>1. Failures(ip, email)' \in SUBSET Failures(ip, email)
  BY DEF Failures
<1>2. Cardinality(Failures(ip, email)') <= Cardinality(Failures(ip, email))
  BY <1>1, Countable, FS_Subset
<1>3. InFlight(ip, email)' \subseteq InFlight(ip, email)
  BY DEF InFlight, FlightPcs, Ip, Email
<1> QED
  BY <1>2, <1>3, Shrinks

\* A login that passes the count makes room for itself: the failures of its
\* pair are below the limit, and no more than all callers are in flight.
LEMMA CountBound ==
  ASSUME TypeInv, TypeInv', ThrottleBound, NEW c \in Callers, CountFailures(c)
  PROVE  ThrottleBound'
<1> SUFFICES ASSUME NEW ip \in Ips, NEW email \in EmailKeys
             PROVE  Cardinality(Failures(ip, email)') + Cardinality(InFlight(ip, email)')
                       <= MaxFailures - 1 + Cardinality(Callers)
  BY DEF ThrottleBound
<1> DEFINE counted == Cardinality(FailuresSince(Ip(c), Email(c), elapsed[c]))
<1>1. UNCHANGED attempts /\ UNCHANGED request
  BY DEF CountFailures, identityTables, RaiseThrottled, RaiseInvalid, EndLogin
<1>2. Failures(ip, email)' = Failures(ip, email)
  BY <1>1 DEF Failures
<1>3. \A d \in Callers \ {c} : pc'[d] = pc[d]
  BY DEF TypeInv, TypeOK, CallsOK, CountFailures, RaiseThrottled, RaiseInvalid, EndLogin,
         Continue, Finish
<1>4. CASE c \in InFlight(ip, email)'
  <2>1. ip = Ip(c) /\ email = Email(c) /\ pc'[c] \in FlightPcs
    BY <1>1, <1>4 DEF InFlight, FlightPcs, Ip, Email
  <2>2. ~AtLimit(counted)
    BY <2>1 DEF CountFailures, RaiseThrottled, EndLogin, Finish, TypeInv, TypeOK, CallsOK, FlightPcs
  <2>3. Failures(ip, email) \in SUBSET FailuresSince(Ip(c), Email(c), elapsed[c])
    BY <2>1, IdentityAssumption DEF Failures, FailuresSince, TypeInv, TypeOK, TablesOK, LoginsOK,
       Attempts, Horizon
  <2>4. IsFiniteSet(FailuresSince(Ip(c), Email(c), elapsed[c]))
    BY FS_Subset DEF FailuresSince, TypeInv, TypeOK, TablesOK
  <2>5. counted \in Nat /\ Cardinality(Failures(ip, email)) <= counted
    BY <2>3, <2>4, FS_Subset, FS_CardinalityType
  <2>6. Cardinality(Failures(ip, email)) <= MaxFailures - 1
    BY <2>2, <2>5, Countable, LoginAssumption DEF AtLimit
  <2>7. InFlight(ip, email)' \in SUBSET Callers
    BY DEF InFlight
  <2>8. /\ Cardinality(InFlight(ip, email)') <= Cardinality(Callers)
        /\ Cardinality(InFlight(ip, email)') \in Nat
        /\ Cardinality(Callers) \in Nat
    BY <2>7, FS_Subset, FS_CardinalityType, HasherAssumption
  <2> QED
    BY <1>2, <2>6, <2>8, Countable, LoginAssumption
<1>5. CASE c \notin InFlight(ip, email)'
  <2>1. InFlight(ip, email)' \subseteq InFlight(ip, email)
    BY <1>1, <1>3, <1>5 DEF InFlight, Ip, Email
  <2>2. Cardinality(Failures(ip, email)') <= Cardinality(Failures(ip, email))
    BY <1>2, Countable
  <2> QED
    BY <2>1, <2>2, Shrinks
<1> QED
  BY <1>4, <1>5

\* A recorded failure was in flight and no longer is.
LEMMA RecordBound ==
  ASSUME TypeInv, TypeInv', ThrottleBound, NEW c \in Callers, RecordFailure(c)
  PROVE  ThrottleBound'
<1> SUFFICES ASSUME NEW ip \in Ips, NEW email \in EmailKeys
             PROVE  Cardinality(Failures(ip, email)') + Cardinality(InFlight(ip, email)')
                       <= MaxFailures - 1 + Cardinality(Callers)
  BY DEF ThrottleBound
<1>1. PICK id : attempts' = attempts \cup
                  {[id |-> id, ip |-> Ip(c), email |-> Email(c), age |-> elapsed[c]]}
  BY DEF RecordFailure, record_failure
<1> DEFINE row == [id |-> id, ip |-> Ip(c), email |-> Email(c), age |-> elapsed[c]]
<1>2. UNCHANGED request
  BY DEF RecordFailure, EndLogin, loginVars
<1>3. /\ \A d \in Callers \ {c} : pc'[d] = pc[d]
      /\ pc[c] = "login.record"
      /\ pc'[c] \notin FlightPcs
  BY DEF TypeInv, TypeOK, CallsOK, RecordFailure, EndLogin, Continue, Finish, FlightPcs
<1>4. InFlight(ip, email)' \subseteq InFlight(ip, email) \ {c}
  BY <1>2, <1>3 DEF InFlight, FlightPcs, Ip, Email
<1>5. CASE ip = Ip(c) /\ email = Email(c)
  <2>1. c \in InFlight(ip, email)
    BY <1>3, <1>5 DEF InFlight
  <2>2. Failures(ip, email)' \in SUBSET (Failures(ip, email) \cup {row})
    BY <1>1 DEF Failures
  <2>3. /\ IsFiniteSet(Failures(ip, email) \cup {row})
        /\ Cardinality(Failures(ip, email) \cup {row}) <= Cardinality(Failures(ip, email)) + 1
    <3>1. IsFiniteSet(Failures(ip, email)) /\ Cardinality(Failures(ip, email)) \in Nat
      BY Countable
    <3>2. /\ IsFiniteSet(Failures(ip, email) \cup {row})
          /\ Cardinality(Failures(ip, email) \cup {row})
               = IF row \in Failures(ip, email) THEN Cardinality(Failures(ip, email))
                                                ELSE Cardinality(Failures(ip, email)) + 1
      BY <3>1, FS_AddElement, Zenon
    <3> QED
      BY <3>1, <3>2
  <2>4. /\ Cardinality(Failures(ip, email)') <= Cardinality(Failures(ip, email) \cup {row})
        /\ Cardinality(Failures(ip, email)') \in Nat
        /\ Cardinality(Failures(ip, email) \cup {row}) \in Nat
    BY <2>2, <2>3, FS_Subset, FS_CardinalityType
  <2>5. /\ IsFiniteSet(InFlight(ip, email) \ {c})
        /\ Cardinality(InFlight(ip, email) \ {c}) = Cardinality(InFlight(ip, email)) - 1
    BY <2>1, Countable, FS_RemoveElement
  <2>6. /\ Cardinality(InFlight(ip, email)') <= Cardinality(InFlight(ip, email) \ {c})
        /\ Cardinality(InFlight(ip, email)') \in Nat
        /\ Cardinality(InFlight(ip, email) \ {c}) \in Nat
    BY <1>4, <2>5, FS_Subset, FS_CardinalityType
  <2>7. Cardinality(Failures(ip, email)) + Cardinality(InFlight(ip, email))
          <= MaxFailures - 1 + Cardinality(Callers)
    BY DEF ThrottleBound
  <2> QED
    BY <2>3, <2>4, <2>5, <2>6, <2>7, Countable, LoginAssumption
<1>6. CASE ~(ip = Ip(c) /\ email = Email(c))
  <2>1. Failures(ip, email)' \in SUBSET Failures(ip, email)
    BY <1>1, <1>6 DEF Failures
  <2>2. Cardinality(Failures(ip, email)') <= Cardinality(Failures(ip, email))
    BY <2>1, Countable, FS_Subset
  <2> QED
    BY <1>4, <2>2, Shrinks
<1> QED
  BY <1>5, <1>6

\* Time only takes failures out of the window.
LEMMA TickBound ==
  ASSUME TypeInv, TypeInv', ThrottleBound, Tick
  PROVE  ThrottleBound'
<1> SUFFICES ASSUME NEW ip \in Ips, NEW email \in EmailKeys
             PROVE  Cardinality(Failures(ip, email)') + Cardinality(InFlight(ip, email)')
                       <= MaxFailures - 1 + Cardinality(Callers)
  BY DEF ThrottleBound
<1> DEFINE older(a) == [a EXCEPT !.age = @ + 1]
           young == {a \in Failures(ip, email) : a.age + 1 <= Window /\ a.age < Horizon}
           f == [a \in young |-> older(a)]
<1>1. attempts' = {older(a) : a \in {b \in attempts : b.age < Horizon}}
  BY DEF Tick, Older
<1>2. \A a \in attempts : /\ older(a).ip = a.ip
                          /\ older(a).email = a.email
                          /\ older(a).age = a.age + 1
                          /\ a.age \in Nat
  BY IdentityAssumption DEF TypeInv, TypeOK, TablesOK, Attempts, Horizon
<1>3. Failures(ip, email)' = {older(a) : a \in young}
  <2> HIDE DEF older
  <2>1. ASSUME NEW r \in Failures(ip, email)' PROVE r \in {older(a) : a \in young}
    <3>1. PICK a \in {b \in attempts : b.age < Horizon} : r = older(a)
      BY <1>1, <2>1 DEF Failures
    <3>2. a \in young
      BY <1>2, <2>1, <3>1, IdentityAssumption DEF Failures
    <3> QED
      BY <3>1, <3>2
  <2>2. ASSUME NEW a \in young PROVE older(a) \in Failures(ip, email)'
    BY <1>1, <1>2 DEF Failures
  <2> QED
    BY <2>1, <2>2
<1>4. young \in SUBSET Failures(ip, email)
  OBVIOUS
<1>5. IsFiniteSet(young) /\ Cardinality(young) <= Cardinality(Failures(ip, email))
  BY <1>4, Countable, FS_Subset
<1>6. f \in Surjection(young, Failures(ip, email)')
  <2> HIDE DEF older, young
  <2> QED
    BY <1>3 DEF Surjection
<1>7. Cardinality(Failures(ip, email)') <= Cardinality(young)
  BY <1>5, <1>6, FS_Surjection
<1>8. Cardinality(Failures(ip, email)') <= Cardinality(Failures(ip, email))
  <2>1. IsFiniteSet(Failures(ip, email)')
    BY <1>5, <1>6, FS_Surjection
  <2> QED
    BY <1>5, <1>7, <2>1, Countable, FS_CardinalityType
<1>9. InFlight(ip, email)' = InFlight(ip, email)
  BY DEF Tick, callVars, InFlight, Ip, Email
<1> QED
  BY <1>8, <1>9, Shrinks

\* A login's own steps: those that take a call past the count, or that add a
\* row, are the two above; the others only leave.
LEMMA LoginBound ==
  ASSUME TypeInv, TypeInv', ThrottleBound, NEW c \in Callers, LoginNext(c)
  PROVE  ThrottleBound'
<1> USE DEF TypeInv, TypeOK, CallsOK, Continue, Finish, Begin, EndLogin, FlightPcs
<1>1. CASE \E r \in LoginInputs : BeginLogin(c, r)
  <2>1. PICK r \in LoginInputs : BeginLogin(c, r)
    BY <1>1
  <2>2. /\ \A d \in Callers \ {c} : pc'[d] = pc[d] /\ request'[d] = request[d]
        /\ pc'[c] \notin FlightPcs
    BY <2>1 DEF BeginLogin, LoginsOK
  <2> QED
    BY <2>1, <2>2, QuietBound DEF BeginLogin, identityTables
<1>2. CASE StartHash(c)
  BY <1>2, QuietBound DEF StartHash, StartVerify, StartRehash, Acquire, identityTables, loginVars
<1>3. CASE CountFailures(c)
  BY <1>3, CountBound
<1>4. CASE Lookup(c)
  BY <1>4, QuietBound DEF Lookup, identityTables
<1>5. CASE EndVerify(c)
  BY <1>5, QuietBound DEF EndVerify, RaiseInvalid, Authenticated, identityTables, loginVars
<1>6. CASE EndRehash(c)
  BY <1>6, QuietBound DEF EndRehash, identityTables, loginVars
<1>7. CASE UpdateHash(c)
  BY <1>7, QuietBound DEF UpdateHash, Authenticated
<1>8. CASE Clear(c)
  BY <1>8, QuietBound DEF Clear, clear
<1>9. CASE RecordFailure(c)
  BY <1>9, RecordBound
<1>10. CASE Purge(c)
  BY <1>10, QuietBound DEF Purge, purge_before
<1>11. CASE LoginStorageFails(c)
  BY <1>11, QuietBound DEF LoginStorageFails, identityTables
<1> QED
  BY <1>1, <1>2, <1>3, <1>4, <1>5, <1>6, <1>7, <1>8, <1>9, <1>10, <1>11
     DEF LoginNext, LoginStep

\* A registration neither records failures nor is one of the throttle's.
LEMMA RegistrationBound ==
  ASSUME TypeInv, TypeInv', ThrottleBound, NEW c \in Callers, RegistrationNext(c),
         UNCHANGED loginVars
  PROVE  ThrottleBound'
<1> USE DEF TypeInv, TypeOK, CallsOK, Continue, Finish, Begin, FlightPcs, loginVars
<1>1. CASE \E d \in RegisterInputs : BeginRegister(c, d)
  BY <1>1, QuietBound DEF BeginRegister, identityTables
<1>2. CASE StartPasswordHash(c)
  BY <1>2, QuietBound DEF StartPasswordHash, Acquire, identityTables
<1>3. CASE CheckEmail(c)
  BY <1>3, QuietBound DEF CheckEmail, identityTables
<1>4. CASE EndPasswordHash(c)
  BY <1>4, QuietBound DEF EndPasswordHash, identityTables
<1>5. CASE CreateUser(c)
  BY <1>5, QuietBound DEF CreateUser
<1>6. CASE RegisterStorageFails(c)
  BY <1>6, QuietBound DEF RegisterStorageFails, identityTables
<1> QED
  BY <1>1, <1>2, <1>3, <1>4, <1>5, <1>6 DEF RegistrationNext, RegisterStep

\* The failures of one client and address within the window never exceed the
\* limit by more than the attempts in flight, for any number of callers, any
\* limit and any window (ThrottledAuthenticator).
THEOREM Throttled == Spec => []ThrottleBound
<1>1. Init => ThrottleBound
  <2> SUFFICES ASSUME Init, NEW ip \in Ips, NEW email \in EmailKeys
               PROVE  Cardinality(Failures(ip, email)) + Cardinality(InFlight(ip, email))
                         <= MaxFailures - 1 + Cardinality(Callers)
    BY DEF ThrottleBound
  <2>1. Failures(ip, email) = {} /\ InFlight(ip, email) = {}
    BY DEF Init, IdentityInit, CallsInit, Failures, InFlight
  <2> QED
    BY <2>1, FS_EmptySet, FS_CardinalityType, HasherAssumption, LoginAssumption
<1>2. TypeInv /\ TypeInv' /\ ThrottleBound /\ [Next]_vars => ThrottleBound'
  <2> SUFFICES ASSUME TypeInv, TypeInv', ThrottleBound, [Next]_vars
               PROVE  ThrottleBound'
    OBVIOUS
  <2>1. ASSUME NEW c \in Callers, CallerNext(c) PROVE ThrottleBound'
    BY <2>1, LoginBound, RegistrationBound DEF CallerNext
  <2>2. CASE Tick
    BY <2>2, TickBound
  <2>3. CASE SetActive
    BY <2>3, QuietBound DEF SetActive, set_active, callVars, loginVars
  <2>4. CASE PurgesByHand
    BY <2>4, QuietBound DEF PurgesByHand, PurgeByHand, PurgeTool, purge_before, callVars, loginVars
  <2>5. CASE UNCHANGED vars
    BY <2>5, QuietBound DEF vars, identityTables, callVars, loginVars
  <2> QED
    BY <2>1, <2>2, <2>3, <2>4, <2>5 DEF Next
<1> QED
  BY <1>1, <1>2, AlwaysTyped, PTL DEF Spec

-----------------------------------------------------------------------------
(* What is forgotten *)

\* A row that counts stays, grows older by the tick, or is cleared by its own.
Kept(a) ==
    \/ a \in attempts'
    \/ [a EXCEPT !.age = @ + 1] \in attempts'
    \/ a.age = Horizon
    \/ \E c \in Callers : pc[c] = "login.clear" /\ pc'[c] = "idle"
                          /\ Ip(c) = a.ip /\ Email(c) = a.email
    \/ \E older_than \in OlderThan \ {Window} : PurgeByHand(older_than)

\* A purge with a clock reading of any age leaves what counts.
LEMMA PurgeKeeps ==
  ASSUME TypeInv, NEW delay \in 0 .. MaxDelay, purge_before(Window, delay),
         NEW a \in attempts, a.age <= Window
  PROVE  a \in attempts'
<1>1. a.age \in Nat /\ Window \in Nat /\ delay \in Nat
  BY IdentityAssumption DEF TypeInv, TypeOK, TablesOK, Attempts, Horizon
<1>2. a.age <= Window + delay
  BY <1>1
<1> QED
  BY <1>2 DEF purge_before

LEMMA LoginKeeps ==
  ASSUME TypeInv, NEW c \in Callers, LoginNext(c), NEW a \in attempts, a.age <= Window
  PROVE  Kept(a)
<1>1. CASE Clear(c)
  <2>1. CASE a.ip = Ip(c) /\ a.email = Email(c)
    <3>1. pc[c] = "login.clear" /\ pc'[c] = "idle"
      BY <1>1 DEF Clear, EndLogin, Finish, TypeInv, TypeOK, CallsOK
    <3> QED
      BY <2>1, <3>1 DEF Kept
  <2>2. CASE ~(a.ip = Ip(c) /\ a.email = Email(c))
    BY <1>1, <2>2 DEF Clear, clear, Kept
  <2> QED
    BY <2>1, <2>2
<1>2. CASE RecordFailure(c)
  BY <1>2 DEF RecordFailure, record_failure, Kept
<1>3. CASE Purge(c)
  <2>1. elapsed[c] \in 0 .. MaxDelay
    BY DEF TypeInv, TypeOK, LoginsOK
  <2>2. a \in attempts'
    BY <1>3, <2>1, PurgeKeeps DEF Purge
  <2> QED
    BY <2>2 DEF Kept
<1>4. CASE UNCHANGED attempts
  BY <1>4 DEF Kept
<1>5. Clear(c) \/ RecordFailure(c) \/ Purge(c) \/ UNCHANGED attempts
  BY DEF LoginNext, LoginStep, BeginLogin, StartHash, StartVerify, StartRehash, CountFailures,
         Lookup, EndVerify, EndRehash, UpdateHash, LoginStorageFails, identityTables
<1> QED
  BY <1>1, <1>2, <1>3, <1>4, <1>5

\* Only age, the client's own success, and the tool where it is told to keep
\* less than the window make the throttle forget a failure that counts: no
\* purge of a login, with a clock reading of any age, no other run of the tool
\* and no other pair's success does.
THEOREM Forgetful == Spec => ForgetsOnlyItsOwn
<1>1. ASSUME TypeInv, [Next]_vars, NEW a \in attempts, a.age <= Window
      PROVE  Kept(a)
  <2>1. ASSUME NEW c \in Callers, LoginNext(c) PROVE Kept(a)
    BY <1>1, <2>1, LoginKeeps
  <2>2. ASSUME NEW c \in Callers, RegistrationNext(c) PROVE Kept(a)
    <3>1. UNCHANGED attempts
      BY <2>2 DEF RegistrationNext, RegisterStep, BeginRegister, StartPasswordHash, CheckEmail,
                  EndPasswordHash, CreateUser, RegisterStorageFails, identityTables
    <3> QED
      BY <1>1, <3>1 DEF Kept
  <2>3. CASE Tick
    <3>1. CASE a.age = Horizon
      BY <3>1 DEF Kept
    <3>2. CASE a.age # Horizon
      <4>1. a.age < Horizon
        BY <1>1, <3>2, IdentityAssumption DEF TypeInv, TypeOK, TablesOK, Attempts, Horizon
      <4> QED
        BY <1>1, <2>3, <4>1 DEF Tick, Older, Kept
    <3> QED
      BY <3>1, <3>2
  <2>4. CASE PurgesByHand
    <3>1. PICK older_than \in OlderThan : PurgeByHand(older_than)
      BY <2>4 DEF PurgesByHand
    <3>2. CASE older_than # Window
      BY <3>1, <3>2 DEF Kept
    <3>3. CASE older_than = Window
      <4>1. PICK delay \in 0 .. MaxDelay : purge_before(Window, delay)
        BY <3>1, <3>3 DEF PurgeByHand, PurgeTool
      <4> QED
        BY <1>1, <4>1, PurgeKeeps DEF Kept
    <3> QED
      BY <3>2, <3>3
  <2>5. CASE SetActive \/ UNCHANGED vars
    BY <1>1, <2>5 DEF SetActive, set_active, vars, identityTables, Kept
  <2> QED
    BY <1>1, <2>1, <2>2, <2>3, <2>4, <2>5 DEF Next, CallerNext
<1>2. ASSUME TypeInv, [Next]_vars
      PROVE  [\A a \in attempts : (a.age <= Window /\ a \notin attempts') =>
                 \/ [a EXCEPT !.age = @ + 1] \in attempts'
                 \/ a.age = Horizon
                 \/ \E c \in Callers : pc[c] = "login.clear" /\ pc'[c] = "idle"
                                       /\ Ip(c) = a.ip /\ Email(c) = a.email
                 \/ \E older_than \in OlderThan \ {Window} : PurgeByHand(older_than)]_vars
  BY <1>1, <1>2 DEF Kept
<1> QED
  BY <1>2, AlwaysTyped, PTL DEF Spec, ForgetsOnlyItsOwn

-----------------------------------------------------------------------------
(* Who is throttled *)

\* What the database had at the start stands, but for the flags that an
\* administrator may switch.
SeededRow(e, user) ==
    /\ user.secret = SeededUsers[e].secret
    /\ e \notin Switchable => user.is_active = SeededUsers[e].is_active
SeedStands == \A e \in DOMAIN SeededUsers : e \in DOMAIN users /\ SeededRow(e, users[e])

\* What a call knows of a seeded account, and why it is refused.
LookedUp == {"login.verify", "login.verifying"}
Matched == {"login.rehash", "login.rehashing", "login.update"}
Knows(c) ==
    /\ pc[c] \in LookedUp /\ Email(c) \in DOMAIN SeededUsers =>
          found[c] # None /\ SeededRow(Email(c), found[c])
    /\ pc[c] \in Matched /\ Email(c) \in DOMAIN SeededUsers =>
          Secret(c) = SeededUsers[Email(c)].secret
    /\ pc[c] = "login.record" => WrongFrom(Ip(c), Email(c))
    /\ outcome[c].code = "AUTH_THROTTLED" => WrongFrom(Ip(c), Email(c))

RowsWrong == \A a \in attempts : WrongFrom(a.ip, a.email)
WrongInv == SeedStands /\ RowsWrong /\ \A c \in Callers : Knows(c)

\* An attempt with anything but the password of a seeded user that is always
\* active is a wrong one.
LEMMA WrongAttempt ==
  ASSUME TypeInv, NEW c \in Callers, pc[c] \in LoginPcs,
         \/ Email(c) \notin DOMAIN SeededUsers
         \/ Secret(c) # SeededUsers[Email(c)].secret
         \/ ~SeededUsers[Email(c)].is_active
         \/ Email(c) \in Switchable
  PROVE  WrongFrom(Ip(c), Email(c))
<1>1. request[c] \in LoginInputs
  BY DEF TypeInv, TypeOK, InputsOK
<1> QED
  BY <1>1 DEF WrongFrom, Ip, Email, Secret

\* A step of one call that leaves rows and seeded users as they should be.
LEMMA OneKnows ==
  ASSUME WrongInv, NEW c \in Callers,
         \A d \in Callers \ {c} : /\ pc'[d] = pc[d] /\ outcome'[d] = outcome[d]
                                  /\ request'[d] = request[d] /\ found'[d] = found[d],
         Knows(c)', SeedStands', RowsWrong'
  PROVE  WrongInv'
<1>1. ASSUME NEW d \in Callers \ {c}
      PROVE  Knows(d)'
  <2>1. Ip(d)' = Ip(d) /\ Email(d)' = Email(d) /\ Secret(d)' = Secret(d)
    BY DEF Ip, Email, Secret
  <2>2. Knows(d)
    BY DEF WrongInv
  <2> QED
    BY <2>1, <2>2 DEF Knows
<1> QED
  BY <1>1 DEF WrongInv

\* A call at none of these statements knows nothing that could be wrong.
LEMMA KnowsNothing ==
  ASSUME NEW c \in Callers,
         pc'[c] \notin LookedUp \cup Matched \cup {"login.record"},
         outcome'[c].code # "AUTH_THROTTLED"
  PROVE  Knows(c)'
BY DEF Knows, LookedUp, Matched

LEMMA CountKnows ==
  ASSUME TypeInv, WrongInv, NEW c \in Callers, CountFailures(c)
  PROVE  WrongInv'
<1> DEFINE counted == Cardinality(FailuresSince(Ip(c), Email(c), elapsed[c]))
<1>1. /\ pc[c] = "login.count" /\ UNCHANGED identityTables /\ UNCHANGED request
      /\ \A d \in Callers \ {c} : /\ pc'[d] = pc[d] /\ outcome'[d] = outcome[d]
                                  /\ request'[d] = request[d] /\ found'[d] = found[d]
  BY DEF CountFailures, RaiseThrottled, RaiseInvalid, EndLogin, Continue, Finish, TypeInv,
         TypeOK, CallsOK, LoginsOK
<1>2. SeedStands' /\ RowsWrong'
  BY <1>1 DEF WrongInv, SeedStands, RowsWrong, identityTables
<1>3. Ip(c)' = Ip(c) /\ Email(c)' = Email(c) /\ pc[c] \in LoginPcs
  BY <1>1 DEF Ip, Email, LoginPcs, LoginStatements
<1>4. Knows(c)
  BY DEF WrongInv
<1>5. CASE AtLimit(counted) /\ RaiseThrottled(c)
  <2>1. FailuresSince(Ip(c), Email(c), elapsed[c]) # {}
    <3>1. SUFFICES ASSUME FailuresSince(Ip(c), Email(c), elapsed[c]) = {} PROVE FALSE
      OBVIOUS
    <3>2. counted = 0
      BY <3>1, FS_EmptySet
    <3> HIDE DEF counted
    <3> QED
      BY <1>5, <3>2, LoginAssumption DEF AtLimit
  <2>2. WrongFrom(Ip(c), Email(c))
    BY <2>1 DEF FailuresSince, WrongInv, RowsWrong
  <2>3. pc'[c] = "idle"
    BY <1>5 DEF RaiseThrottled, EndLogin, Finish, TypeInv, TypeOK, CallsOK
  <2>4. Knows(c)'
    BY <1>3, <2>2, <2>3 DEF Knows, LookedUp, Matched
  <2> QED
    BY <1>1, <1>2, <2>4, OneKnows
<1>6. CASE Continue(c, "login.lookup")
  <2>1. pc'[c] = "login.lookup" /\ outcome'[c] = outcome[c]
    BY <1>6 DEF Continue, TypeInv, TypeOK, CallsOK
  <2>2. Knows(c)'
    BY <1>3, <1>4, <2>1 DEF Knows, LookedUp, Matched
  <2> QED
    BY <1>1, <1>2, <2>2, OneKnows
<1>7. CASE ~AcceptableSecret(c) /\ RaiseInvalid(c)
  <2>1. pc'[c] = "login.record" /\ outcome'[c] = outcome[c]
    BY <1>7 DEF RaiseInvalid, Continue, TypeInv, TypeOK, CallsOK
  <2>2. Email(c) \in DOMAIN SeededUsers => Secret(c) # SeededUsers[Email(c)].secret
    BY <1>7, LoginAssumption DEF AcceptableSecret
  <2>3. WrongFrom(Ip(c), Email(c))
    BY <1>3, <2>2, WrongAttempt
  <2>4. Knows(c)'
    BY <1>3, <1>4, <2>1, <2>3 DEF Knows, LookedUp, Matched
  <2> QED
    BY <1>1, <1>2, <2>4, OneKnows
<1> QED
  BY <1>5, <1>6, <1>7 DEF CountFailures

\* A seeded user that is looked up has been found as it was seeded.
LEMMA LookupKnows ==
  ASSUME TypeInv, WrongInv, NEW c \in Callers, Lookup(c)
  PROVE  WrongInv'
<1>1. /\ pc'[c] = "login.verify" /\ UNCHANGED identityTables /\ UNCHANGED request
      /\ outcome'[c] = outcome[c] /\ found'[c] = get_by_email(Email(c))
      /\ \A d \in Callers \ {c} : /\ pc'[d] = pc[d] /\ outcome'[d] = outcome[d]
                                  /\ request'[d] = request[d] /\ found'[d] = found[d]
  BY DEF Lookup, Continue, TypeInv, TypeOK, CallsOK, LoginsOK
<1>2. SeedStands' /\ RowsWrong'
  BY <1>1 DEF WrongInv, SeedStands, RowsWrong, identityTables
<1>3. Ip(c)' = Ip(c) /\ Email(c)' = Email(c)
  BY <1>1 DEF Ip, Email
<1>4. Email(c) \in DOMAIN SeededUsers => found'[c] # None /\ SeededRow(Email(c), found'[c])
  <2> SUFFICES ASSUME Email(c) \in DOMAIN SeededUsers
               PROVE  found'[c] # None /\ SeededRow(Email(c), found'[c])
    OBVIOUS
  <2>1. Email(c) \in DOMAIN users /\ SeededRow(Email(c), users[Email(c)])
    BY DEF WrongInv, SeedStands
  <2>2. found'[c] = users[Email(c)]
    BY <1>1, <2>1 DEF get_by_email
  <2>3. users[Email(c)] \in Users
    BY <2>1 DEF TypeInv, TypeOK, TablesOK
  <2> QED
    BY <2>1, <2>2, <2>3, IdentityAssumption
<1>5. Knows(c)
  BY DEF WrongInv
<1>6. Knows(c)'
  BY <1>1, <1>3, <1>4, <1>5 DEF Knows, LookedUp, Matched
<1> QED
  BY <1>1, <1>2, <1>6, OneKnows

\* The end of a login other than by the throttle.
LEMMA EndKnows ==
  ASSUME TypeInv, WrongInv, NEW c \in Callers, NEW code, code # "AUTH_THROTTLED",
         EndLogin(c, code), SeedStands', RowsWrong'
  PROVE  WrongInv'
<1>1. /\ pc'[c] = "idle" /\ outcome'[c].code = code
      /\ \A d \in Callers \ {c} : /\ pc'[d] = pc[d] /\ outcome'[d] = outcome[d]
                                  /\ request'[d] = request[d] /\ found'[d] = found[d]
  BY DEF EndLogin, Finish, TypeInv, TypeOK, CallsOK, LoginsOK
<1>2. Knows(c)'
  BY <1>1, KnowsNothing DEF LookedUp, Matched
<1> QED
  BY <1>1, <1>2, OneKnows

\* A login that goes on without reading or writing.
LEMMA ContinueKnows ==
  ASSUME TypeInv, WrongInv, NEW c \in Callers, NEW next, Continue(c, next),
         UNCHANGED request, \A d \in Callers \ {c} : found'[d] = found[d],
         next \in LookedUp => pc[c] \in LookedUp /\ found'[c] = found[c],
         next \in Matched =>
            (Email(c) \in DOMAIN SeededUsers => Secret(c) = SeededUsers[Email(c)].secret),
         next = "login.record" => WrongFrom(Ip(c), Email(c)),
         SeedStands', RowsWrong'
  PROVE  WrongInv'
<1>1. /\ pc'[c] = next /\ outcome' = outcome
      /\ \A d \in Callers \ {c} : pc'[d] = pc[d]
  BY DEF Continue, TypeInv, TypeOK, CallsOK
<1>2. Ip(c)' = Ip(c) /\ Email(c)' = Email(c) /\ Secret(c)' = Secret(c)
  BY DEF Ip, Email, Secret
<1>3. Knows(c)
  BY DEF WrongInv
<1>4. Knows(c)'
  BY <1>1, <1>2, <1>3 DEF Knows
<1> QED
  BY <1>1, <1>4, OneKnows

\* What an attempt is refused or admitted for.
LEMMA Refused ==
  ASSUME TypeInv, WrongInv, NEW c \in Callers, pc[c] = "login.verifying"
  PROVE  /\ ~Admitted(c) => WrongFrom(Ip(c), Email(c))
         /\ Admitted(c) /\ Email(c) \in DOMAIN SeededUsers =>
               Secret(c) = SeededUsers[Email(c)].secret
<1>1. pc[c] \in LoginPcs
  BY DEF LoginPcs, LoginHashing
<1>2. Email(c) \in DOMAIN SeededUsers =>
         found[c] # None /\ SeededRow(Email(c), found[c])
  BY DEF WrongInv, Knows, LookedUp
<1>3. ASSUME ~Admitted(c) PROVE WrongFrom(Ip(c), Email(c))
  <2>1. CASE Email(c) \notin DOMAIN SeededUsers \/ Email(c) \in Switchable
    BY <1>1, <2>1, WrongAttempt
  <2>2. CASE Email(c) \in DOMAIN SeededUsers /\ Email(c) \notin Switchable
    <3>1. \/ Secret(c) # SeededUsers[Email(c)].secret
          \/ ~SeededUsers[Email(c)].is_active
      BY <1>2, <1>3, <2>2, Zenon DEF Admitted, Matches, SeededRow
    <3> QED
      BY <1>1, <3>1, WrongAttempt
  <2> QED
    BY <2>1, <2>2
<1>4. Admitted(c) /\ Email(c) \in DOMAIN SeededUsers => Secret(c) = SeededUsers[Email(c)].secret
  BY <1>2, Zenon DEF Admitted, Matches, SeededRow
<1> QED
  BY <1>3, <1>4

LEMMA AuthenticatedKnows ==
  ASSUME TypeInv, WrongInv, NEW c \in Callers, Authenticated(c), SeedStands', RowsWrong'
  PROVE  WrongInv'
<1>1. CASE EndLogin(c, "LOGGED_IN")
  BY <1>1, EndKnows
<1>2. CASE /\ Continue(c, "login.clear")
           /\ found' = [found EXCEPT ![c] = None]
           /\ UNCHANGED <<request, failures, elapsed>>
  BY <1>2, ContinueKnows DEF LookedUp, Matched, TypeInv, TypeOK, LoginsOK
<1> QED
  BY <1>1, <1>2 DEF Authenticated

LEMMA VerifyKnows ==
  ASSUME TypeInv, WrongInv, NEW c \in Callers, EndVerify(c)
  PROVE  WrongInv'
<1>1. SeedStands' /\ RowsWrong' /\ pc[c] = "login.verifying"
  BY DEF EndVerify, WrongInv, SeedStands, RowsWrong, identityTables
<1>2. CASE ~Admitted(c) /\ RaiseInvalid(c)
  BY <1>1, <1>2, Refused, ContinueKnows
  DEF RaiseInvalid, LookedUp, Matched, TypeInv, TypeOK, LoginsOK
<1>3. CASE Admitted(c) /\ Continue(c, "login.rehash") /\ UNCHANGED loginVars
  BY <1>1, <1>3, Refused, ContinueKnows DEF loginVars, LookedUp
<1>4. CASE Authenticated(c)
  BY <1>1, <1>4, AuthenticatedKnows
<1> QED
  BY <1>2, <1>3, <1>4 DEF EndVerify

\* The rehash writes the secret that is there.
LEMMA UpdateKnows ==
  ASSUME TypeInv, WrongInv, NEW c \in Callers, UpdateHash(c)
  PROVE  WrongInv'
<1>1. SeedStands'
  <2> SUFFICES ASSUME NEW e \in DOMAIN SeededUsers
               PROVE  e \in DOMAIN users' /\ SeededRow(e, users'[e])
    BY DEF SeedStands
  <2>1. e \in DOMAIN users /\ SeededRow(e, users[e]) /\ users[e] \in Users
    BY DEF WrongInv, SeedStands, TypeInv, TypeOK, TablesOK
  <2>2. users' = [users EXCEPT ![Email(c)].secret = Secret(c), ![Email(c)].current = TRUE]
    BY DEF UpdateHash, update_password_hash
  <2>3. CASE e = Email(c)
    <3>1. Secret(c) = SeededUsers[e].secret
      BY <2>3 DEF UpdateHash, WrongInv, Knows, Matched
    <3>2. users'[e] = [users[e] EXCEPT !.secret = Secret(c), !.current = TRUE]
      BY <2>1, <2>2, <2>3
    <3> QED
      BY <2>1, <2>2, <3>1, <3>2 DEF SeededRow, Users
  <2>4. CASE e # Email(c)
    BY <2>1, <2>2, <2>4
  <2> QED
    BY <2>3, <2>4
<1>2. RowsWrong'
  BY DEF UpdateHash, WrongInv, RowsWrong
<1>3. CASE Authenticated(c)
  BY <1>1, <1>2, <1>3, AuthenticatedKnows
<1>4. CASE EndLogin(c, "STORAGE_FAILURE")
  BY <1>1, <1>2, <1>4, EndKnows
<1> QED
  BY <1>3, <1>4 DEF UpdateHash

\* Rows are recorded for attempts that were refused, and otherwise only leave.
LEMMA LoginKnows ==
  ASSUME TypeInv, WrongInv, NEW c \in Callers, LoginNext(c)
  PROVE  WrongInv'
<1> USE DEF LookedUp, Matched
<1>1. ASSUME UNCHANGED users PROVE SeedStands'
  BY <1>1 DEF WrongInv, SeedStands
<1>2. ASSUME attempts' \subseteq attempts PROVE RowsWrong'
  BY <1>2 DEF WrongInv, RowsWrong
<1>3. ASSUME NEW r \in LoginInputs, BeginLogin(c, r) PROVE WrongInv'
  <2>1. /\ pc'[c] \in {"idle", "login.count"} /\ outcome'[c].code # "AUTH_THROTTLED"
        /\ \A d \in Callers \ {c} : /\ pc'[d] = pc[d] /\ outcome'[d] = outcome[d]
                                    /\ request'[d] = request[d] /\ found'[d] = found[d]
    BY <1>3 DEF BeginLogin, Begin, Finish, NoOutcome, TypeInv, TypeOK, CallsOK, LoginsOK
  <2>2. Knows(c)'
    BY <2>1, KnowsNothing
  <2> QED
    BY <1>1, <1>2, <1>3, <2>1, <2>2, OneKnows DEF BeginLogin, identityTables
<1>4. CASE StartVerify(c)
  BY <1>1, <1>2, <1>4, ContinueKnows DEF StartVerify, Acquire, identityTables, loginVars
<1>5. CASE StartRehash(c)
  <2>1. Email(c) \in DOMAIN SeededUsers => Secret(c) = SeededUsers[Email(c)].secret
    BY <1>5 DEF StartRehash, Acquire, WrongInv, Knows
  <2> QED
    BY <1>1, <1>2, <1>5, <2>1, ContinueKnows DEF StartRehash, Acquire, identityTables, loginVars
<1>6. CASE EndRehash(c)
  <2>1. Email(c) \in DOMAIN SeededUsers => Secret(c) = SeededUsers[Email(c)].secret
    BY <1>6 DEF EndRehash, WrongInv, Knows
  <2> QED
    BY <1>1, <1>2, <1>6, <2>1, ContinueKnows DEF EndRehash, identityTables, loginVars
<1>7. CASE Clear(c)
  <2>1. attempts' \subseteq attempts
    BY <1>7 DEF Clear, clear
  <2> QED
    BY <1>1, <1>2, <1>7, <2>1, EndKnows DEF Clear
<1>8. CASE RecordFailure(c)
  <2>1. PICK id : attempts' = attempts \cup
                    {[id |-> id, ip |-> Ip(c), email |-> Email(c), age |-> elapsed[c]]}
    BY <1>8 DEF RecordFailure, record_failure
  <2>2. WrongFrom(Ip(c), Email(c))
    BY <1>8 DEF RecordFailure, WrongInv, Knows
  <2>3. RowsWrong'
    BY <2>1, <2>2 DEF WrongInv, RowsWrong
  <2>4. CASE Continue(c, "login.purge") /\ UNCHANGED loginVars
    BY <1>1, <1>8, <2>3, <2>4, ContinueKnows DEF RecordFailure, loginVars
  <2>5. CASE EndLogin(c, "STORAGE_FAILURE")
    BY <1>1, <1>8, <2>3, <2>5, EndKnows DEF RecordFailure
  <2> QED
    BY <1>8, <2>4, <2>5 DEF RecordFailure
<1>9. CASE Purge(c)
  <2>1. attempts' \subseteq attempts
    BY <1>9 DEF Purge, purge_before
  <2> QED
    BY <1>1, <1>2, <1>9, <2>1, EndKnows DEF Purge
<1>10. CASE LoginStorageFails(c)
  BY <1>1, <1>2, <1>10, EndKnows DEF LoginStorageFails, identityTables
<1> QED
  BY <1>3, <1>4, <1>5, <1>6, <1>7, <1>8, <1>9, <1>10, CountKnows, LookupKnows, VerifyKnows,
     UpdateKnows
  DEF LoginNext, StartHash, LoginStep

\* A registration adds a user and alters none.
LEMMA RegistrationKnows ==
  ASSUME TypeInv, WrongInv, NEW c \in Callers, RegistrationNext(c), UNCHANGED loginVars
  PROVE  WrongInv'
<1>1. /\ pc'[c] \in {"idle", "register.lookup", "register.hash", "register.hashing",
                     "register.create"}
      /\ outcome'[c] # outcome[c] => outcome'[c].code # "AUTH_THROTTLED"
      /\ \A d \in Callers \ {c} : pc'[d] = pc[d] /\ outcome'[d] = outcome[d]
      /\ UNCHANGED attempts
  BY DEF RegistrationNext, BeginRegister, StartPasswordHash, RegisterStep, CheckEmail,
         EndPasswordHash, CreateUser, RegisterStorageFails, Acquire, Begin, Continue, Finish,
         NoOutcome, identityTables, TypeInv, TypeOK, CallsOK
<1>2. \A e \in DOMAIN users : e \in DOMAIN users' /\ users'[e] = users[e]
  BY DEF RegistrationNext, BeginRegister, StartPasswordHash, RegisterStep, CheckEmail,
         EndPasswordHash, CreateUser, RegisterStorageFails, ViolatesUniqueEmail, InsertUser,
         identityTables
<1>3. SeedStands' /\ RowsWrong'
  BY <1>1, <1>2 DEF WrongInv, SeedStands, RowsWrong
<1>4. /\ UNCHANGED <<request, found>>
      /\ Ip(c)' = Ip(c) /\ Email(c)' = Email(c)
  BY DEF loginVars, Ip, Email
<1>5. Knows(c)'
  BY <1>1, <1>4 DEF WrongInv, Knows, LookedUp, Matched
<1> QED
  BY <1>1, <1>3, <1>4, <1>5, OneKnows

\* Nobody moves: time, the administrator and the purge tool.
LEMMA OthersKnow ==
  ASSUME WrongInv, UNCHANGED <<pc, outcome, request, found>>, SeedStands', RowsWrong'
  PROVE  WrongInv'
<1>1. ASSUME NEW d \in Callers PROVE Knows(d)'
  <2>1. Ip(d)' = Ip(d) /\ Email(d)' = Email(d) /\ Secret(d)' = Secret(d)
    BY DEF Ip, Email, Secret
  <2>2. Knows(d)
    BY DEF WrongInv
  <2> QED
    BY <2>1, <2>2 DEF Knows
<1> QED
  BY <1>1 DEF WrongInv

\* A client that is throttled for an account has itself tried it with something
\* else than the password of an active user: failures elsewhere throttle no
\* one.
THEOREM Unaffected == Spec => []OthersUnaffected
<1>1. Init => WrongInv
  <2> SUFFICES ASSUME Init PROVE WrongInv
    OBVIOUS
  <2>1. SeedStands /\ RowsWrong
    BY DEF Init, IdentityInit, SeedStands, SeededRow, RowsWrong
  <2>2. \A c \in Callers : Knows(c)
    BY DEF Init, CallsInit, NoOutcome, Knows, LookedUp, Matched
  <2> QED
    BY <2>1, <2>2 DEF WrongInv
<1>2. TypeInv /\ WrongInv /\ [Next]_vars => WrongInv'
  <2> SUFFICES ASSUME TypeInv, WrongInv, [Next]_vars
               PROVE  WrongInv'
    OBVIOUS
  <2>1. ASSUME NEW c \in Callers, CallerNext(c) PROVE WrongInv'
    BY <2>1, LoginKnows, RegistrationKnows DEF CallerNext
  <2>2. CASE Tick
    <3>1. \A a \in attempts : /\ [a EXCEPT !.age = @ + 1].ip = a.ip
                              /\ [a EXCEPT !.age = @ + 1].email = a.email
      BY DEF TypeInv, TypeOK, TablesOK, Attempts
    <3>2. RowsWrong'
      BY <2>2, <3>1 DEF Tick, Older, WrongInv, RowsWrong
    <3>3. SeedStands'
      BY <2>2 DEF Tick, WrongInv, SeedStands
    <3> QED
      BY <2>2, <3>2, <3>3, OthersKnow DEF Tick, callVars
  <2>3. CASE SetActive
    <3>1. PICK e \in Switchable, flag \in BOOLEAN :
              users' = [users EXCEPT ![e].is_active = flag] /\ UNCHANGED attempts
      BY <2>3 DEF SetActive, set_active
    <3>2. ASSUME NEW s \in DOMAIN SeededUsers
          PROVE  s \in DOMAIN users' /\ SeededRow(s, users'[s])
      <4>1. s \in DOMAIN users /\ SeededRow(s, users[s]) /\ users[s] \in Users
        BY DEF WrongInv, SeedStands, TypeInv, TypeOK, TablesOK
      <4>2. CASE s = e
        <5>1. users'[s] = [users[s] EXCEPT !.is_active = flag]
          BY <3>1, <4>1, <4>2
        <5>2. users'[s].secret = users[s].secret
          BY <4>1, <5>1 DEF Users
        <5> QED
          BY <3>1, <4>1, <4>2, <5>2 DEF SeededRow
      <4>3. CASE s # e
        BY <3>1, <4>1, <4>3
      <4> QED
        BY <4>2, <4>3
    <3>3. SeedStands' /\ RowsWrong'
      BY <3>1, <3>2 DEF SeedStands, RowsWrong, WrongInv
    <3> QED
      BY <2>3, <3>3, OthersKnow DEF SetActive, callVars, loginVars
  <2>4. CASE PurgesByHand
    <3>1. SeedStands' /\ RowsWrong'
      BY <2>4 DEF PurgesByHand, PurgeByHand, PurgeTool, purge_before, WrongInv, SeedStands, RowsWrong
    <3> QED
      BY <2>4, <3>1, OthersKnow DEF PurgesByHand, PurgeByHand, callVars, loginVars
  <2>5. CASE UNCHANGED vars
    <3>1. SeedStands' /\ RowsWrong'
      BY <2>5 DEF vars, identityTables, WrongInv, SeedStands, RowsWrong
    <3> QED
      BY <2>5, <3>1, OthersKnow DEF vars, callVars, loginVars
  <2> QED
    BY <2>1, <2>2, <2>3, <2>4, <2>5 DEF Next
<1>3. WrongInv => OthersUnaffected
  BY DEF WrongInv, Knows, OthersUnaffected
<1> QED
  BY <1>1, <1>2, <1>3, AlwaysTyped, PTL DEF Spec
=============================================================================
