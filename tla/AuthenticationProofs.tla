------------------------ MODULE AuthenticationProofs ------------------------
(***************************************************************************)
(* The types of Authentication, the semaphore of the hasher, and the       *)
(* identities.  TypeInv is inductive: a permit is given back only by a     *)
(* call that holds one, which is SlotsAccounted.  A login reads the user   *)
(* once and acts on it later: it writes a new hash, clears the failures    *)
(* and is told it has succeeded.  KnownInv carries what it read across the *)
(* steps of the others: the user is still there with the same secret, and  *)
(* has been active meanwhile.                                              *)
(***************************************************************************)
EXTENDS Authentication, FiniteSetTheorems, TLAPS

TypeInv == TypeOK /\ SlotsAccounted

HashingPcs == LoginHashing \cup {"register.hashing"}

\* The initial state is typed and every permit is free.
LEMMA InitTyped == Init => TypeInv
<1> SUFFICES ASSUME Init PROVE TypeInv
  OBVIOUS
<1>1. TablesOK
  BY IdentityAssumption, FS_EmptySet DEF Init, IdentityInit, TablesOK
<1>2. CallsOK
  BY HasherAssumption DEF Init, CallsInit, HasherInit, NoOutcome, CallsOK, Pcs, OutcomeCodes
<1>3. LoginsOK
  BY IdentityAssumption, LoginAssumption DEF Init, LoginInit, LoginsOK
<1>4. InputsOK
  BY DEF Init, CallsInit, RegistrationInit, InputsOK, LoginPcs, LoginStatements,
         LoginHashing, RegisterPcs, RegisterStatements
<1>5. Hashing = {}
  BY DEF Init, CallsInit, Hashing, LoginHashing
<1>6. SlotsAccounted
  BY <1>5, FS_EmptySet, HasherAssumption DEF Init, HasherInit, SlotsAccounted
<1> QED
  BY <1>1, <1>2, <1>3, <1>4, <1>6 DEF TypeInv, TypeOK

-----------------------------------------------------------------------------
(* What the ways of going on do to the call *)

\* A call that moves to a statement of its own kind keeps its input.
LEMMA GoesOnTyped ==
  ASSUME TypeInv, NEW c \in Callers, NEW next \in Pcs, Continue(c, next),
         UNCHANGED <<request, data>>, slots' \in 0 .. MaxConcurrency,
         next \in LoginPcs => pc[c] \in LoginPcs,
         next \in RegisterPcs => pc[c] \in RegisterPcs
  PROVE  CallsOK' /\ InputsOK'
<1>1. CallsOK'
  BY DEF TypeInv, TypeOK, CallsOK, Continue
<1>2. InputsOK'
  BY DEF TypeInv, TypeOK, CallsOK, InputsOK, Continue
<1> QED
  BY <1>1, <1>2

\* A call that ends needs no input.
LEMMA FinishTyped ==
  ASSUME TypeInv, NEW c \in Callers, NEW code \in OutcomeCodes, Finish(c, code, 0),
         UNCHANGED <<request, data>>, slots' \in 0 .. MaxConcurrency
  PROVE  CallsOK' /\ InputsOK'
<1>1. "idle" \in Pcs /\ "idle" \notin LoginPcs /\ "idle" \notin RegisterPcs
  BY DEF Pcs, LoginPcs, LoginStatements, LoginHashing, RegisterPcs, RegisterStatements
<1>2. CallsOK'
  BY <1>1 DEF TypeInv, TypeOK, CallsOK, Finish
<1>3. InputsOK'
  BY <1>1 DEF TypeInv, TypeOK, CallsOK, InputsOK, Finish
<1> QED
  BY <1>2, <1>3

\* The end of a login, however it ends.
LEMMA EndLoginTyped ==
  ASSUME TypeInv, NEW c \in Callers, NEW code \in OutcomeCodes, EndLogin(c, code),
         UNCHANGED data, slots' \in 0 .. MaxConcurrency
  PROVE  CallsOK' /\ InputsOK' /\ LoginsOK'
<1>1. CallsOK' /\ InputsOK'
  BY FinishTyped DEF EndLogin
<1>2. LoginsOK'
  BY IdentityAssumption, LoginAssumption DEF TypeInv, TypeOK, LoginsOK, EndLogin
<1> QED
  BY <1>1, <1>2

\* A refused password: the call goes on to record the failure.
LEMMA RaiseInvalidTyped ==
  ASSUME TypeInv, NEW c \in Callers, RaiseInvalid(c), pc[c] \in LoginPcs,
         UNCHANGED data, slots' \in 0 .. MaxConcurrency
  PROVE  CallsOK' /\ InputsOK' /\ LoginsOK'
<1>1. "login.record" \in Pcs /\ "login.record" \notin RegisterPcs
  BY DEF Pcs, LoginPcs, LoginStatements, RegisterPcs, RegisterStatements
<1>2. CallsOK' /\ InputsOK'
  BY <1>1, GoesOnTyped DEF RaiseInvalid
<1>3. LoginsOK'
  BY IdentityAssumption, LoginAssumption DEF TypeInv, TypeOK, LoginsOK, RaiseInvalid
<1> QED
  BY <1>2, <1>3

\* An accepted password: the call ends, or goes on to clear the failures.
LEMMA AuthenticatedTyped ==
  ASSUME TypeInv, NEW c \in Callers, Authenticated(c), pc[c] \in LoginPcs,
         UNCHANGED data, slots' \in 0 .. MaxConcurrency
  PROVE  CallsOK' /\ InputsOK' /\ LoginsOK'
<1>1. CASE EndLogin(c, "LOGGED_IN")
  BY <1>1, EndLoginTyped DEF OutcomeCodes
<1>2. CASE /\ Continue(c, "login.clear")
           /\ found' = [found EXCEPT ![c] = None]
           /\ UNCHANGED <<request, failures, elapsed>>
  <2>1. "login.clear" \in Pcs /\ "login.clear" \notin RegisterPcs
    BY DEF Pcs, LoginPcs, LoginStatements, RegisterPcs, RegisterStatements
  <2>2. CallsOK' /\ InputsOK'
    BY <1>2, <2>1, GoesOnTyped
  <2>3. LoginsOK'
    BY <1>2 DEF TypeInv, TypeOK, LoginsOK
  <2> QED
    BY <2>2, <2>3
<1> QED
  BY <1>1, <1>2 DEF Authenticated

\* Tables no statement writes keep their types.
LEMMA SameTables ==
  ASSUME TablesOK, UNCHANGED identityTables PROVE TablesOK'
BY DEF TablesOK, identityTables

-----------------------------------------------------------------------------
(* The semaphore *)

\* Starting a hash takes a permit and joins the callers that hold one.
LEMMA AcquireTaken ==
  ASSUME TypeInv, NEW c \in Callers, NEW wait \in Pcs \ HashingPcs,
         NEW run \in HashingPcs, Acquire(c, wait, run)
  PROVE  SlotsAccounted' /\ slots' \in 0 .. MaxConcurrency
<1>1. Hashing' = Hashing \cup {c} /\ c \notin Hashing
  BY DEF TypeInv, TypeOK, CallsOK, Acquire, Continue, Hashing, HashingPcs
<1>2. IsFiniteSet(Hashing)
  BY HasherAssumption, FS_Subset DEF Hashing
<1>3. Cardinality(Hashing') = Cardinality(Hashing) + 1
  BY <1>1, <1>2, FS_AddElement
<1>4. Cardinality(Hashing) \in Nat
  BY <1>2, FS_CardinalityType
<1>5. slots \in Nat /\ slots > 0 /\ slots' = slots - 1 /\ slots + Cardinality(Hashing) = MaxConcurrency
  BY HasherAssumption DEF TypeInv, TypeOK, CallsOK, SlotsAccounted, Acquire
<1>6. slots' + Cardinality(Hashing') = MaxConcurrency
  BY <1>3, <1>4, <1>5, HasherAssumption
<1>7. slots' \in 0 .. MaxConcurrency
  BY <1>4, <1>5, HasherAssumption
<1> QED
  BY <1>6, <1>7 DEF SlotsAccounted

\* The end of a hash gives its permit back and leaves.
LEMMA ReleaseGiven ==
  ASSUME TypeInv, NEW c \in Callers, pc[c] \in HashingPcs, NEW next \in Pcs \ HashingPcs,
         Release, pc' = [pc EXCEPT ![c] = next]
  PROVE  SlotsAccounted' /\ slots' \in 0 .. MaxConcurrency
<1>1. Hashing' = Hashing \ {c} /\ c \in Hashing
  BY DEF TypeInv, TypeOK, CallsOK, Hashing, HashingPcs
<1>2. IsFiniteSet(Hashing)
  BY HasherAssumption, FS_Subset DEF Hashing
<1>3. Cardinality(Hashing') = Cardinality(Hashing) - 1
  BY <1>1, <1>2, FS_RemoveElement
<1>4. Cardinality(Hashing) \in Nat /\ Cardinality(Hashing') \in Nat
  BY <1>1, <1>2, FS_CardinalityType, FS_RemoveElement
<1>5. slots \in Nat /\ slots' = slots + 1 /\ slots + Cardinality(Hashing) = MaxConcurrency
  BY HasherAssumption DEF TypeInv, TypeOK, CallsOK, SlotsAccounted, Release
<1>6. slots' + Cardinality(Hashing') = MaxConcurrency
  BY <1>3, <1>4, <1>5, HasherAssumption
<1>7. slots' \in 0 .. MaxConcurrency
  BY <1>4, <1>5, <1>6, HasherAssumption
<1> QED
  BY <1>6, <1>7 DEF SlotsAccounted

\* A move between statements leaves the semaphore alone.
LEMMA SlotsKept ==
  ASSUME TypeInv, NEW c \in Callers, pc[c] \notin HashingPcs, NEW next \in Pcs \ HashingPcs,
         UNCHANGED slots, pc' = [pc EXCEPT ![c] = next]
  PROVE  SlotsAccounted' /\ slots' \in 0 .. MaxConcurrency
<1>1. Hashing' = Hashing
  BY DEF TypeInv, TypeOK, CallsOK, Hashing, HashingPcs
<1> QED
  BY <1>1 DEF TypeInv, TypeOK, CallsOK, SlotsAccounted

\* The names of the program counter, for the steps below.
LEMMA PcNames ==
  /\ {"idle", "login.count", "login.lookup", "login.verify", "login.rehash", "login.update",
      "login.clear", "login.record", "login.purge", "register.lookup", "register.hash",
      "register.create"} \subseteq Pcs \ HashingPcs
  /\ HashingPcs \subseteq Pcs
  /\ HashingPcs = {"login.verifying", "login.rehashing", "register.hashing"}
  /\ LoginPcs = {"login.count", "login.lookup", "login.update", "login.clear", "login.record",
                 "login.purge", "login.verifying", "login.rehashing", "login.verify",
                 "login.rehash"}
  /\ RegisterPcs = {"register.lookup", "register.create", "register.hash", "register.hashing"}
BY DEF Pcs, HashingPcs, LoginHashing, LoginPcs, LoginStatements, RegisterPcs, RegisterStatements

-----------------------------------------------------------------------------
(* One lemma per kind of step *)

\* The end of EndLogin, RaiseInvalid and Authenticated as moves of pc.
LEMMA LoginMoves ==
  ASSUME NEW c \in Callers
  PROVE  /\ \A code : EndLogin(c, code) => pc' = [pc EXCEPT ![c] = "idle"]
         /\ RaiseInvalid(c) => pc' = [pc EXCEPT ![c] = "login.record"]
         /\ Authenticated(c) => \/ pc' = [pc EXCEPT ![c] = "idle"]
                                \/ pc' = [pc EXCEPT ![c] = "login.clear"]
BY DEF EndLogin, RaiseInvalid, Authenticated, Finish, Continue

\* A login begins with typed input.
LEMMA BeginLoginTyped ==
  ASSUME TypeInv, NEW c \in Callers, NEW r \in LoginInputs, BeginLogin(c, r), UNCHANGED data
  PROVE  TypeInv'
<1>1. TablesOK'
  BY SameTables DEF TypeInv, TypeOK, BeginLogin
<1>2. PICK next \in {"idle", "login.count"} : pc' = [pc EXCEPT ![c] = next]
  BY DEF BeginLogin, Begin, Finish
<1>3. SlotsAccounted' /\ slots' \in 0 .. MaxConcurrency
  BY <1>2, SlotsKept, PcNames DEF BeginLogin
<1>4. CallsOK'
  BY <1>2, <1>3, PcNames DEF TypeInv, TypeOK, CallsOK, BeginLogin, Begin, Finish, NoOutcome, OutcomeCodes
<1>5. LoginsOK'
  BY DEF TypeInv, TypeOK, LoginsOK, BeginLogin
<1>6. InputsOK'
  BY <1>2, PcNames DEF TypeInv, TypeOK, CallsOK, LoginsOK, InputsOK, BeginLogin
<1> QED
  BY <1>1, <1>3, <1>4, <1>5, <1>6 DEF TypeInv, TypeOK

\* The count that lets a login pass is a number below the limit.
LEMMA CountTyped ==
  ASSUME TypeInv, NEW c \in Callers, CountFailures(c), UNCHANGED data
  PROVE  TypeInv'
<1> DEFINE counted == Cardinality(FailuresSince(Ip(c), Email(c), elapsed[c]))
<1>1. counted \in Nat
  BY FS_Subset, FS_CardinalityType DEF TypeInv, TypeOK, TablesOK, FailuresSince
<1>2. TablesOK' /\ UNCHANGED slots /\ pc[c] = "login.count" /\ slots' \in 0 .. MaxConcurrency
  BY SameTables DEF TypeInv, TypeOK, CallsOK, CountFailures
<1>3. CASE RaiseThrottled(c)
  <2>1. EndLogin(c, "AUTH_THROTTLED")
    BY <1>3 DEF RaiseThrottled
  <2>2. SlotsAccounted'
    BY <2>1, <1>2, LoginMoves, SlotsKept, PcNames
  <2> QED
    BY <2>1, <2>2, <1>2, EndLoginTyped DEF TypeInv, TypeOK, OutcomeCodes
<1>4. CASE RaiseInvalid(c)
  <2>1. SlotsAccounted'
    BY <1>4, <1>2, LoginMoves, SlotsKept, PcNames
  <2> QED
    BY <1>4, <2>1, <1>2, RaiseInvalidTyped, PcNames DEF TypeInv, TypeOK
<1>5. CASE /\ ~AtLimit(counted)
           /\ Continue(c, "login.lookup")
           /\ failures' = [failures EXCEPT ![c] = counted]
           /\ elapsed' = [elapsed EXCEPT ![c] = 0]
           /\ UNCHANGED <<request, found>>
  <2>1. SlotsAccounted'
    BY <1>5, <1>2, SlotsKept, PcNames DEF Continue
  <2>2. CallsOK' /\ InputsOK'
    BY <1>5, <1>2, GoesOnTyped, PcNames
  <2>3. counted \in 0 .. MaxFailures - 1
    BY <1>1, <1>5, LoginAssumption DEF AtLimit
  <2>4. LoginsOK'
    BY <1>5, <2>3, IdentityAssumption DEF TypeInv, TypeOK, LoginsOK
  <2> QED
    BY <2>1, <2>2, <2>4, <1>2 DEF TypeInv, TypeOK
<1> QED
  BY <1>3, <1>4, <1>5 DEF CountFailures

\* A login that goes on to its next statement without touching its data.
LEMMA NextStatementTyped ==
  ASSUME TypeInv, NEW c \in Callers, NEW next \in LoginPcs, Continue(c, next),
         pc[c] \in LoginPcs, UNCHANGED <<loginVars, data>>,
         TablesOK', SlotsAccounted', slots' \in 0 .. MaxConcurrency
  PROVE  TypeInv'
<1>1. next \in Pcs /\ next \notin RegisterPcs
  BY PcNames DEF Pcs
<1>2. CallsOK' /\ InputsOK'
  BY <1>1, GoesOnTyped DEF loginVars
<1>3. LoginsOK'
  BY DEF TypeInv, TypeOK, LoginsOK, loginVars
<1> QED
  BY <1>2, <1>3 DEF TypeInv, TypeOK

\* What get_by_email returns is a user or None.
LEMMA LookupTyped ==
  ASSUME TypeInv, NEW c \in Callers, Lookup(c), UNCHANGED data
  PROVE  TypeInv'
<1>1. TablesOK' /\ UNCHANGED slots /\ pc[c] = "login.lookup"
  BY SameTables DEF TypeInv, TypeOK, Lookup
<1>2. SlotsAccounted' /\ slots' \in 0 .. MaxConcurrency
  BY <1>1, SlotsKept, PcNames DEF Lookup, Continue
<1>3. CallsOK' /\ InputsOK'
  BY <1>1, <1>2, GoesOnTyped, PcNames DEF Lookup
<1>4. get_by_email(Email(c)) \in Users \cup {None}
  BY DEF TypeInv, TypeOK, TablesOK, get_by_email
<1>5. LoginsOK'
  BY <1>4 DEF TypeInv, TypeOK, LoginsOK, Lookup
<1> QED
  BY <1>1, <1>2, <1>3, <1>5 DEF TypeInv, TypeOK

\* A login that waits for the hasher gets a permit.
LEMMA StartHashTyped ==
  ASSUME TypeInv, NEW c \in Callers, StartHash(c), UNCHANGED data
  PROVE  TypeInv'
<1>1. TablesOK'
  BY SameTables DEF TypeInv, TypeOK, StartHash, StartVerify, StartRehash
<1>2. PICK wait \in {"login.verify", "login.rehash"}, run \in {"login.verifying", "login.rehashing"} :
        Acquire(c, wait, run) /\ UNCHANGED loginVars
  BY DEF StartHash, StartVerify, StartRehash
<1>3. wait \in Pcs \ HashingPcs /\ run \in HashingPcs /\ run \in LoginPcs
  BY PcNames
<1>4. SlotsAccounted' /\ slots' \in 0 .. MaxConcurrency
  BY <1>2, <1>3, AcquireTaken
<1>5. Continue(c, run) /\ pc[c] \in LoginPcs
  BY <1>2, PcNames DEF Acquire
<1> QED
  BY <1>1, <1>2, <1>3, <1>4, <1>5, NextStatementTyped

\* The end of a verification, whether it admits the caller or not.
LEMMA EndVerifyTyped ==
  ASSUME TypeInv, NEW c \in Callers, EndVerify(c), UNCHANGED data
  PROVE  TypeInv'
<1>1. TablesOK' /\ pc[c] = "login.verifying" /\ pc[c] \in LoginPcs /\ pc[c] \in HashingPcs /\ Release
  BY SameTables, PcNames DEF TypeInv, TypeOK, EndVerify
<1>2. CASE RaiseInvalid(c)
  <2>1. SlotsAccounted' /\ slots' \in 0 .. MaxConcurrency
    BY <1>1, <1>2, LoginMoves, ReleaseGiven, PcNames
  <2> QED
    BY <1>1, <1>2, <2>1, RaiseInvalidTyped DEF TypeInv, TypeOK
<1>3. CASE Continue(c, "login.rehash") /\ UNCHANGED loginVars
  <2>1. SlotsAccounted' /\ slots' \in 0 .. MaxConcurrency
    BY <1>1, <1>3, ReleaseGiven, PcNames DEF Continue
  <2> QED
    BY <1>1, <1>3, <2>1, NextStatementTyped, PcNames
<1>4. CASE Authenticated(c)
  <2>1. SlotsAccounted' /\ slots' \in 0 .. MaxConcurrency
    BY <1>1, <1>4, LoginMoves, ReleaseGiven, PcNames
  <2> QED
    BY <1>1, <1>4, <2>1, AuthenticatedTyped DEF TypeInv, TypeOK
<1> QED
  BY <1>2, <1>3, <1>4 DEF EndVerify

\* The end of a rehash.
LEMMA EndRehashTyped ==
  ASSUME TypeInv, NEW c \in Callers, EndRehash(c), UNCHANGED data
  PROVE  TypeInv'
<1>1. TablesOK' /\ pc[c] \in LoginPcs /\ pc[c] \in HashingPcs /\ Release
  BY SameTables, PcNames DEF TypeInv, TypeOK, EndRehash
<1>2. SlotsAccounted' /\ slots' \in 0 .. MaxConcurrency
  BY <1>1, ReleaseGiven, PcNames DEF EndRehash, Continue
<1> QED
  BY <1>1, <1>2, NextStatementTyped, PcNames DEF EndRehash

\* The hash that update_password_hash stores is of a normalized password.
LEMMA UpdateHashTyped ==
  ASSUME TypeInv, NEW c \in Callers, UpdateHash(c), UNCHANGED data
  PROVE  TypeInv'
<1>1. UNCHANGED <<attempts, slots>> /\ pc[c] \in LoginPcs /\ pc[c] \notin HashingPcs
      /\ slots' \in 0 .. MaxConcurrency
  BY PcNames DEF UpdateHash, TypeInv, TypeOK, CallsOK
<1>2. Secret(c) \in Secrets
  BY <1>1, LoginAssumption DEF TypeInv, TypeOK, InputsOK, Secret, normalize_password
<1>3. TablesOK'
  BY <1>1, <1>2 DEF TypeInv, TypeOK, TablesOK, UpdateHash, update_password_hash, Users
<1>4. SlotsAccounted'
  BY <1>1, LoginMoves, SlotsKept, PcNames DEF UpdateHash
<1> QED
  BY <1>1, <1>3, <1>4, AuthenticatedTyped, EndLoginTyped DEF UpdateHash, TypeInv, TypeOK, OutcomeCodes

\* Purges and clears only remove rows.
LEMMA FewerAttempts ==
  ASSUME TablesOK, attempts' \subseteq attempts, UNCHANGED users
  PROVE  TablesOK'
BY FS_Subset DEF TablesOK

\* clear() after a success.
LEMMA ClearTyped ==
  ASSUME TypeInv, NEW c \in Callers, Clear(c), UNCHANGED data
  PROVE  TypeInv'
<1>1. UNCHANGED slots /\ pc[c] \in LoginPcs /\ pc[c] \notin HashingPcs /\ slots' \in 0 .. MaxConcurrency
  BY PcNames DEF Clear, TypeInv, TypeOK, CallsOK
<1>2. TablesOK'
  BY FewerAttempts DEF Clear, clear, TypeInv, TypeOK
<1>3. SlotsAccounted'
  BY <1>1, LoginMoves, SlotsKept, PcNames DEF Clear
<1> QED
  BY <1>1, <1>2, <1>3, EndLoginTyped DEF Clear, TypeInv, TypeOK, OutcomeCodes

\* purge_before() after a recorded failure.
LEMMA PurgeTyped ==
  ASSUME TypeInv, NEW c \in Callers, Purge(c), UNCHANGED data
  PROVE  TypeInv'
<1>1. UNCHANGED slots /\ pc[c] \in LoginPcs /\ pc[c] \notin HashingPcs /\ slots' \in 0 .. MaxConcurrency
  BY PcNames DEF Purge, TypeInv, TypeOK, CallsOK
<1>2. TablesOK'
  BY FewerAttempts DEF Purge, purge_before, TypeInv, TypeOK
<1>3. SlotsAccounted'
  BY <1>1, LoginMoves, SlotsKept, PcNames DEF Purge
<1> QED
  BY <1>1, <1>2, <1>3, EndLoginTyped DEF Purge, TypeInv, TypeOK, OutcomeCodes

\* The stored address and client of a login are ones the tables allow.
LEMMA PairTyped ==
  ASSUME TypeInv, NEW c \in Callers, pc[c] \in LoginPcs
  PROVE  Ip(c) \in Ips /\ Email(c) \in EmailKeys
BY LoginAssumption DEF TypeInv, TypeOK, InputsOK, Ip, Email, normalize_email

\* record_failure() adds one typed row.
LEMMA RecordTyped ==
  ASSUME TypeInv, NEW c \in Callers, RecordFailure(c), UNCHANGED data
  PROVE  TypeInv'
<1>1. UNCHANGED <<slots, users>> /\ pc[c] \in LoginPcs /\ pc[c] \notin HashingPcs
      /\ slots' \in 0 .. MaxConcurrency
  BY PcNames DEF RecordFailure, TypeInv, TypeOK, CallsOK
<1>2. PICK id \in AttemptIds :
        attempts' = attempts \cup {[id |-> id, ip |-> Ip(c), email |-> Email(c), age |-> elapsed[c]]}
  <2>1. (CHOOSE i \in UnusedIds : TRUE) \in AttemptIds
    BY DEF RecordFailure, record_failure, UnusedIds
  <2> QED
    BY <2>1 DEF RecordFailure, record_failure
<1>3. elapsed[c] \in 0 .. Horizon
  BY IdentityAssumption DEF TypeInv, TypeOK, LoginsOK, Horizon
<1>4. TablesOK'
  <2> DEFINE row == [id |-> id, ip |-> Ip(c), email |-> Email(c), age |-> elapsed[c]]
  <2>1. row \in Attempts
    BY <1>1, <1>3, PairTyped DEF Attempts
  <2>2. IsFiniteSet(attempts \cup {row})
    BY FS_AddElement DEF TypeInv, TypeOK, TablesOK
  <2> QED
    BY <1>1, <1>2, <2>1, <2>2 DEF TypeInv, TypeOK, TablesOK
<1>5. pc' = [pc EXCEPT ![c] = "login.purge"] \/ pc' = [pc EXCEPT ![c] = "idle"]
  BY LoginMoves DEF RecordFailure, Continue
<1>6. SlotsAccounted'
  BY <1>1, <1>5, SlotsKept, PcNames
<1>7. CASE EndLogin(c, "STORAGE_FAILURE")
  BY <1>1, <1>4, <1>6, <1>7, EndLoginTyped DEF TypeInv, TypeOK, OutcomeCodes
<1>8. CASE Continue(c, "login.purge") /\ UNCHANGED loginVars
  BY <1>1, <1>4, <1>6, <1>8, NextStatementTyped, PcNames
<1> QED
  BY <1>7, <1>8 DEF RecordFailure

\* A failed statement ends the login.
LEMMA LoginFailsTyped ==
  ASSUME TypeInv, NEW c \in Callers, LoginStorageFails(c), UNCHANGED data
  PROVE  TypeInv'
<1>1. UNCHANGED slots /\ pc[c] \notin HashingPcs /\ slots' \in 0 .. MaxConcurrency /\ TablesOK'
  BY PcNames, SameTables DEF LoginStorageFails, LoginStatements, TypeInv, TypeOK, CallsOK
<1>2. SlotsAccounted'
  BY <1>1, LoginMoves, SlotsKept, PcNames DEF LoginStorageFails
<1> QED
  BY <1>1, <1>2, EndLoginTyped DEF LoginStorageFails, TypeInv, TypeOK, OutcomeCodes

\* Every step of a login keeps the types.
LEMMA LoginTyped ==
  ASSUME TypeInv, NEW c \in Callers, LoginNext(c), UNCHANGED data
  PROVE  TypeInv'
BY BeginLoginTyped, StartHashTyped, CountTyped, LookupTyped, EndVerifyTyped, EndRehashTyped,
   UpdateHashTyped, ClearTyped, RecordTyped, PurgeTyped, LoginFailsTyped
   DEF LoginNext, LoginStep

-----------------------------------------------------------------------------
(* Registrations and the rest *)

\* A registration that moves on or ends keeps the types.
LEMMA RegisterMoveTyped ==
  ASSUME TypeInv, NEW c \in Callers, pc[c] \in RegisterPcs, UNCHANGED <<loginVars, data>>,
         \/ \E next \in RegisterPcs : Continue(c, next)
         \/ \E code \in OutcomeCodes : Finish(c, code, 0),
         TablesOK', SlotsAccounted', slots' \in 0 .. MaxConcurrency
  PROVE  TypeInv'
<1>1. LoginsOK'
  BY DEF TypeInv, TypeOK, LoginsOK, loginVars
<1>2. ASSUME NEW next \in RegisterPcs, Continue(c, next) PROVE TypeInv'
  <2>1. next \in Pcs /\ next \notin LoginPcs
    BY PcNames DEF Pcs
  <2>2. CallsOK' /\ InputsOK'
    BY <1>2, <2>1, GoesOnTyped DEF loginVars
  <2> QED
    BY <1>1, <2>2 DEF TypeInv, TypeOK
<1>3. ASSUME NEW code \in OutcomeCodes, Finish(c, code, 0) PROVE TypeInv'
  BY <1>1, <1>3, FinishTyped DEF loginVars, TypeInv, TypeOK
<1> QED
  BY <1>2, <1>3

\* A registration begins with typed input, or not at all.
LEMMA BeginRegisterTyped ==
  ASSUME TypeInv, NEW c \in Callers, NEW d \in RegisterInputs, BeginRegister(c, d),
         UNCHANGED loginVars
  PROVE  TypeInv'
<1>1. TablesOK'
  BY SameTables DEF TypeInv, TypeOK, BeginRegister
<1>2. PICK next \in {"idle", "register.lookup"} : pc' = [pc EXCEPT ![c] = next]
  BY DEF BeginRegister, Begin, Finish
<1>3. SlotsAccounted' /\ slots' \in 0 .. MaxConcurrency
  BY <1>2, SlotsKept, PcNames DEF BeginRegister
<1>4. CallsOK'
  BY <1>2, <1>3, PcNames DEF TypeInv, TypeOK, CallsOK, BeginRegister, Begin, Finish, NoOutcome, OutcomeCodes
<1>5. LoginsOK'
  BY DEF TypeInv, TypeOK, LoginsOK, loginVars
<1>6. data' \in [Callers -> RegisterInputs \cup {None}]
  BY DEF TypeInv, TypeOK, InputsOK, BeginRegister
<1>7. next = "register.lookup" => data'[c] \in RegisterInputs
  BY <1>2 DEF TypeInv, TypeOK, CallsOK, InputsOK, BeginRegister, Begin, Finish
<1>8. \A e \in Callers \ {c} : data'[e] = data[e] /\ pc'[e] = pc[e]
  BY <1>2 DEF TypeInv, TypeOK, CallsOK, InputsOK, BeginRegister
<1>9. pc'[c] = next /\ next \notin LoginPcs
  BY <1>2, PcNames DEF TypeInv, TypeOK, CallsOK
<1>10. InputsOK'
  BY <1>2, <1>6, <1>7, <1>8, <1>9, PcNames DEF TypeInv, TypeOK, InputsOK, loginVars
<1> QED
  BY <1>1, <1>3, <1>4, <1>5, <1>10 DEF TypeInv, TypeOK

\* The pre-check of a registration.
LEMMA CheckEmailTyped ==
  ASSUME TypeInv, NEW c \in Callers, CheckEmail(c), UNCHANGED loginVars
  PROVE  TypeInv'
<1>1. TablesOK' /\ UNCHANGED slots /\ pc[c] \in RegisterPcs /\ pc[c] \notin HashingPcs
  BY SameTables, PcNames DEF TypeInv, TypeOK, CheckEmail
<1>2. SlotsAccounted' /\ slots' \in 0 .. MaxConcurrency
  BY <1>1, SlotsKept, PcNames DEF CheckEmail, Continue, Finish
<1> QED
  BY <1>1, <1>2, RegisterMoveTyped, PcNames DEF CheckEmail, OutcomeCodes

\* The hash of a registration, started and ended.
LEMMA PasswordHashTyped ==
  ASSUME TypeInv, NEW c \in Callers, StartPasswordHash(c) \/ EndPasswordHash(c),
         UNCHANGED loginVars
  PROVE  TypeInv'
<1>1. TablesOK' /\ pc[c] \in RegisterPcs /\ UNCHANGED data
  BY SameTables, PcNames DEF TypeInv, TypeOK, StartPasswordHash, EndPasswordHash, Acquire
<1>2. CASE StartPasswordHash(c)
  <2>1. SlotsAccounted' /\ slots' \in 0 .. MaxConcurrency
    BY <1>2, AcquireTaken, PcNames DEF StartPasswordHash
  <2> QED
    BY <1>1, <1>2, <2>1, RegisterMoveTyped, PcNames DEF StartPasswordHash, Acquire
<1>3. CASE EndPasswordHash(c)
  <2>1. SlotsAccounted' /\ slots' \in 0 .. MaxConcurrency
    BY <1>3, ReleaseGiven, PcNames DEF EndPasswordHash, Continue
  <2> QED
    BY <1>1, <1>3, <2>1, RegisterMoveTyped, PcNames DEF EndPasswordHash
<1> QED
  BY <1>2, <1>3

\* The row create() inserts is typed.
LEMMA CreateUserTyped ==
  ASSUME TypeInv, NEW c \in Callers, CreateUser(c), UNCHANGED loginVars
  PROVE  TypeInv'
<1>1. UNCHANGED <<attempts, slots, data>> /\ pc[c] \in RegisterPcs /\ pc[c] \notin HashingPcs
  BY PcNames DEF CreateUser
<1>2. data[c] \in RegisterInputs
  BY <1>1 DEF TypeInv, TypeOK, InputsOK
<1>3. NewEmail(c) \in EmailKeys /\ NewUser(c) \in Users
  BY <1>2, RegistrationAssumption DEF NewEmail, NewUser, Users, normalize_email, normalize_password
<1>4. TablesOK'
  BY <1>1, <1>3 DEF TypeInv, TypeOK, TablesOK, CreateUser, InsertUser
<1>5. SlotsAccounted' /\ slots' \in 0 .. MaxConcurrency
  BY <1>1, SlotsKept, PcNames DEF CreateUser, Finish
<1> QED
  BY <1>1, <1>4, <1>5, RegisterMoveTyped DEF CreateUser, OutcomeCodes

\* A failed statement ends the registration.
LEMMA RegisterFailsTyped ==
  ASSUME TypeInv, NEW c \in Callers, RegisterStorageFails(c), UNCHANGED loginVars
  PROVE  TypeInv'
<1>1. TablesOK' /\ UNCHANGED <<slots, data>> /\ pc[c] \in RegisterPcs /\ pc[c] \notin HashingPcs
  BY SameTables, PcNames DEF RegisterStorageFails, RegisterStatements, TypeInv, TypeOK
<1>2. SlotsAccounted' /\ slots' \in 0 .. MaxConcurrency
  BY <1>1, SlotsKept, PcNames DEF RegisterStorageFails, Finish
<1> QED
  BY <1>1, <1>2, RegisterMoveTyped DEF RegisterStorageFails, OutcomeCodes

\* Every step of a registration keeps the types.
LEMMA RegistrationTyped ==
  ASSUME TypeInv, NEW c \in Callers, RegistrationNext(c), UNCHANGED loginVars
  PROVE  TypeInv'
BY BeginRegisterTyped, CheckEmailTyped, PasswordHashTyped, CreateUserTyped, RegisterFailsTyped
   DEF RegistrationNext, RegisterStep

\* Rows grow older, but not beyond the horizon.
LEMMA TickTyped ==
  ASSUME TypeInv, Tick PROVE TypeInv'
<1> DEFINE kept == {b \in attempts : b.age < Horizon}
           older(a) == [a EXCEPT !.age = @ + 1]
<1>1. IsFiniteSet(attempts')
  <2>1. IsFiniteSet(kept)
    BY FS_Subset DEF TypeInv, TypeOK, TablesOK
  <2> DEFINE f == [a \in kept |-> older(a)]
  <2>2. attempts' = {older(a) : a \in kept}
    BY DEF Tick, Older
  <2> HIDE DEF older, kept
  <2>3. f \in Surjection(kept, attempts')
    BY <2>2 DEF Surjection
  <2> QED
    BY <2>1, <2>3, FS_Surjection
<1>2. attempts' \subseteq Attempts
  BY IdentityAssumption DEF Tick, Older, TypeInv, TypeOK, TablesOK, Attempts, Horizon
<1>3. TablesOK'
  BY <1>1, <1>2 DEF Tick, TypeInv, TypeOK, TablesOK
<1>4. CallsOK' /\ InputsOK' /\ SlotsAccounted'
  BY DEF Tick, callVars, TypeInv, TypeOK, CallsOK, InputsOK, SlotsAccounted, Hashing
<1>5. LoginsOK'
  BY IdentityAssumption DEF Tick, TypeInv, TypeOK, LoginsOK
<1> QED
  BY <1>3, <1>4, <1>5 DEF TypeInv, TypeOK

\* Outside the calls only the tables change.
LEMMA QuietTyped ==
  ASSUME TypeInv, TablesOK', UNCHANGED <<callVars, slots, loginVars, data>> PROVE TypeInv'
BY DEF callVars, loginVars, TypeInv, TypeOK, CallsOK, InputsOK, LoginsOK, SlotsAccounted, Hashing

\* The administrator and the purge tool keep the types.
LEMMA OthersTyped ==
  ASSUME TypeInv, SetActive \/ PurgesByHand PROVE TypeInv'
<1>1. CASE SetActive
  <2>1. TablesOK'
    BY <1>1 DEF SetActive, set_active, TypeInv, TypeOK, TablesOK, Users
  <2> QED
    BY <1>1, <2>1, QuietTyped DEF SetActive
<1>2. CASE PurgesByHand
  <2>1. TablesOK'
    BY <1>2, FewerAttempts DEF PurgesByHand, PurgeByHand, PurgeTool, purge_before, TypeInv, TypeOK
  <2> QED
    BY <1>2, <2>1, QuietTyped DEF PurgesByHand, PurgeByHand
<1> QED
  BY <1>1, <1>2

\* TypeInv is inductive.
LEMMA NextTyped == TypeInv /\ [Next]_vars => TypeInv'
<1> SUFFICES ASSUME TypeInv, [Next]_vars PROVE TypeInv'
  OBVIOUS
<1>1. CASE UNCHANGED vars
  <2>1. TablesOK'
    BY <1>1, SameTables DEF vars, TypeInv, TypeOK
  <2> QED
    BY <1>1, <2>1, QuietTyped DEF vars
<1>2. CASE Next
  BY <1>2, LoginTyped, RegistrationTyped, TickTyped, OthersTyped DEF Next, CallerNext
<1> QED
  BY <1>1, <1>2

\* The invariant of every behaviour.
LEMMA AlwaysTyped == Spec => []TypeInv
BY InitTyped, NextTyped, PTL DEF Spec

\* Tables, calls and inputs keep their types for every set of callers,
\* addresses and passwords, every window and every limit.
THEOREM Typed == Spec => []TypeOK
<1>1. TypeInv => TypeOK
  BY DEF TypeInv
<1> QED
  BY <1>1, AlwaysTyped, PTL

\* As many hashes run as permits are taken, however logins and registrations
\* interleave: no path through a call loses its slot or frees it twice.
THEOREM SlotsNeverLost == Spec => []SlotsAccounted
<1>1. TypeInv => SlotsAccounted
  BY DEF TypeInv
<1> QED
  BY <1>1, AlwaysTyped, PTL

-----------------------------------------------------------------------------
(* What a login knows *)

\* What a login has read still holds but for is_active, which held when read.
ReadStands(c) ==
    (pc[c] \in {"login.verify", "login.verifying"} /\ found[c] # None) =>
        /\ Email(c) \in DOMAIN users
        /\ users[Email(c)].secret = found[c].secret
        /\ found[c].is_active => Email(c) \in seen_active[c]

\* A login whose password was right has the user's secret.
Genuine(c) ==
    /\ Email(c) \in DOMAIN users
    /\ users[Email(c)].secret = Secret(c)
    /\ Email(c) \in seen_active[c]

AcceptedPcs == {"login.rehash", "login.rehashing", "login.update", "login.clear"}

Accepted(c) == pc[c] \in AcceptedPcs => Genuine(c)

KnownInv == \A c \in Callers : ReadStands(c) /\ Accepted(c)

IdentityInv == TypeInv /\ KnownInv /\ RegistrationsTruthful

SecretsStay == \A e \in DOMAIN users : e \in DOMAIN users' /\ users'[e].secret = users[e].secret

-----------------------------------------------------------------------------
(* The callers that do not move *)

\* What a caller has read stands while others move and secrets stay.
LEMMA StillKnown ==
  ASSUME TypeInv, Remember, SecretsStay, NEW d \in Callers, ReadStands(d), Accepted(d),
         pc'[d] = pc[d], request'[d] = request[d], found'[d] = found[d]
  PROVE  ReadStands(d)' /\ Accepted(d)'
<1>1. Email(d)' = Email(d) /\ Secret(d)' = Secret(d)
  BY DEF Email, Secret
<1>2. pc[d] # "idle" => seen_active[d] \subseteq seen_active'[d]
  BY DEF Remember
<1> QED
  BY <1>1, <1>2 DEF ReadStands, Accepted, Genuine, AcceptedPcs, SecretsStay

\* A step that leaves every caller with what it had.
LEMMA AllStillKnown ==
  ASSUME TypeInv, Remember, SecretsStay, KnownInv, UNCHANGED <<pc, request, found>>
  PROVE  KnownInv'
BY StillKnown DEF KnownInv

\* A step of one caller: the others know what they knew.
LEMMA OneMoves ==
  ASSUME TypeInv, Remember, SecretsStay, KnownInv, NEW c \in Callers,
         \A d \in Callers \ {c} : /\ pc'[d] = pc[d]
                                  /\ request'[d] = request[d]
                                  /\ found'[d] = found[d],
         ReadStands(c)', Accepted(c)'
  PROVE  KnownInv'
BY StillKnown DEF KnownInv

\* A call that is at none of the statements after a lookup has read nothing.
LEMMA NothingRead ==
  ASSUME NEW c \in Callers,
         pc'[c] \notin AcceptedPcs \cup {"login.verify", "login.verifying"}
  PROVE  ReadStands(c)' /\ Accepted(c)'
BY DEF ReadStands, Accepted, AcceptedPcs

-----------------------------------------------------------------------------
(* Secrets *)

\* A login writes only the secret it was admitted with.
LEMMA LoginKeepsSecrets ==
  ASSUME TypeInv, KnownInv, NEW c \in Callers, LoginNext(c)
  PROVE  SecretsStay
<1>1. CASE UpdateHash(c)
  <2>1. Genuine(c)
    BY <1>1 DEF UpdateHash, KnownInv, Accepted, AcceptedPcs
  <2> QED
    BY <1>1, <2>1 DEF UpdateHash, update_password_hash, Genuine, SecretsStay, TypeInv, TypeOK,
                      TablesOK, Users
<1>2. CASE UNCHANGED users
  BY <1>2 DEF SecretsStay
<1> QED
  BY <1>1, <1>2 DEF LoginNext, LoginStep, BeginLogin, StartHash, StartVerify, StartRehash,
     CountFailures, Lookup, EndVerify, EndRehash, Clear, RecordFailure, Purge,
     LoginStorageFails, identityTables

\* A registration adds a user where there was none.
LEMMA RegistrationKeepsSecrets ==
  ASSUME TypeInv, NEW c \in Callers, RegistrationNext(c)
  PROVE  SecretsStay
<1>1. CASE CreateUser(c)
  BY <1>1 DEF CreateUser, ViolatesUniqueEmail, InsertUser, SecretsStay
<1>2. CASE UNCHANGED users
  BY <1>2 DEF SecretsStay
<1> QED
  BY <1>1, <1>2 DEF RegistrationNext, RegisterStep, BeginRegister, StartPasswordHash,
     CheckEmail, EndPasswordHash, RegisterStorageFails, identityTables

\* No step changes a secret.
LEMMA StepKeepsSecrets ==
  ASSUME TypeInv, KnownInv, [Next]_vars
  PROVE  SecretsStay
<1>1. CASE SetActive
  BY <1>1 DEF SetActive, set_active, SecretsStay, TypeInv, TypeOK, TablesOK, Users
<1>2. CASE UNCHANGED users
  BY <1>2 DEF SecretsStay
<1> QED
  BY <1>1, <1>2, LoginKeepsSecrets, RegistrationKeepsSecrets
     DEF Next, CallerNext, Tick, PurgesByHand, PurgeByHand, PurgeTool, vars, identityTables

-----------------------------------------------------------------------------
(* Logins *)

\* The end of the check: the candidate matched the secret that was read.
LEMMA AdmittedGenuine ==
  ASSUME KnownInv, NEW c \in Callers, pc[c] = "login.verifying", Admitted(c)
  PROVE  Genuine(c)
BY DEF KnownInv, ReadStands, Admitted, Matches, Genuine

\* Genuine outlives the step of the call itself.
LEMMA GenuineStays ==
  ASSUME Remember, SecretsStay, NEW c \in Callers, Genuine(c), pc[c] # "idle",
         request'[c] = request[c]
  PROVE  Genuine(c)'
<1>1. Email(c)' = Email(c) /\ Secret(c)' = Secret(c)
  BY DEF Email, Secret
<1>2. seen_active[c] \subseteq seen_active'[c]
  BY DEF Remember
<1> QED
  BY <1>1, <1>2 DEF Genuine, SecretsStay

LEMMA LoginKnown ==
  ASSUME TypeInv, KnownInv, Remember, SecretsStay, NEW c \in Callers, LoginNext(c)
  PROVE  KnownInv'
<1> USE DEF TypeInv, TypeOK, CallsOK, LoginsOK
<1>1. \A d \in Callers \ {c} : /\ pc'[d] = pc[d]
                               /\ request'[d] = request[d]
                               /\ found'[d] = found[d]
  BY DEF LoginNext, LoginStep, BeginLogin, StartHash, StartVerify, StartRehash, Acquire,
     CountFailures, Lookup, EndVerify, EndRehash, UpdateHash, Clear, RecordFailure, Purge,
     LoginStorageFails, Begin, Continue, Finish, EndLogin, RaiseInvalid, RaiseThrottled,
     Authenticated, loginVars
<1>2. ReadStands(c)' /\ Accepted(c)'
  <2> USE DEF Begin, Continue, Finish, EndLogin, AcceptedPcs
  <2>1. CASE \E r \in LoginInputs : BeginLogin(c, r)
    BY <2>1, NothingRead DEF BeginLogin
  <2>2. CASE StartVerify(c)
    <3>1. ReadStands(c)'
      BY <2>2 DEF StartVerify, Acquire, ReadStands, KnownInv, loginVars, identityTables,
                  Remember, Email
    <3> QED
      BY <2>2, <3>1 DEF StartVerify, Acquire, Accepted
  <2>3. CASE StartRehash(c)
    <3>1. Genuine(c)'
      BY <2>3, GenuineStays DEF StartRehash, Acquire, KnownInv, Accepted, loginVars
    <3> QED
      BY <2>3, <3>1 DEF StartRehash, Acquire, Accepted, ReadStands
  <2>4. CASE CountFailures(c)
    BY <2>4, NothingRead DEF CountFailures, RaiseThrottled, RaiseInvalid
  <2>5. CASE Lookup(c)
    <3>1. Email(c)' = Email(c) /\ UNCHANGED users
      BY <2>5 DEF Lookup, Email, identityTables
    <3>2. Active(users) \subseteq seen_active'[c]
      BY <3>1 DEF Remember
    <3>3. ReadStands(c)'
      BY <2>5, <3>1, <3>2 DEF Lookup, get_by_email, ReadStands, Active
    <3> QED
      BY <2>5, <3>3 DEF Lookup, Accepted
  <2>6. CASE EndVerify(c)
    <3>1. CASE RaiseInvalid(c)
      BY <3>1, NothingRead DEF RaiseInvalid
    <3>2. CASE Admitted(c) /\ pc'[c] \in AcceptedPcs \cup {"idle"} /\ UNCHANGED request
      <4>1. Genuine(c)'
        BY <2>6, <3>2, AdmittedGenuine, GenuineStays DEF EndVerify
      <4> QED
        BY <3>2, <4>1 DEF ReadStands, Accepted
    <3> QED
      BY <2>6, <3>1, <3>2 DEF EndVerify, Authenticated, loginVars
  <2>7. CASE EndRehash(c)
    <3>1. Genuine(c)'
      BY <2>7, GenuineStays DEF EndRehash, KnownInv, Accepted, loginVars
    <3> QED
      BY <2>7, <3>1 DEF EndRehash, Accepted, ReadStands
  <2>8. CASE UpdateHash(c)
    <3>1. Genuine(c)'
      BY <2>8, GenuineStays DEF UpdateHash, Authenticated, KnownInv, Accepted
    <3> QED
      BY <2>8, <3>1 DEF UpdateHash, Authenticated, Accepted, ReadStands
  <2>9. CASE Clear(c)
    BY <2>9, NothingRead DEF Clear
  <2>10. CASE RecordFailure(c)
    BY <2>10, NothingRead DEF RecordFailure
  <2>11. CASE Purge(c)
    BY <2>11, NothingRead DEF Purge
  <2>12. CASE LoginStorageFails(c)
    BY <2>12, NothingRead DEF LoginStorageFails
  <2> QED
    BY <2>1, <2>2, <2>3, <2>4, <2>5, <2>6, <2>7, <2>8, <2>9, <2>10, <2>11, <2>12
       DEF LoginNext, LoginStep, StartHash
<1> QED
  BY <1>1, <1>2, OneMoves

\* A registration is at none of the statements of a login.
LEMMA RegistrationKnown ==
  ASSUME TypeInv, KnownInv, Remember, SecretsStay, NEW c \in Callers, RegistrationNext(c),
         UNCHANGED loginVars
  PROVE  KnownInv'
<1> USE DEF TypeInv, TypeOK, CallsOK, Begin, Continue, Finish
<1>1. \A d \in Callers \ {c} : pc'[d] = pc[d]
  BY DEF RegistrationNext, RegisterStep, BeginRegister, StartPasswordHash, Acquire, CheckEmail,
     EndPasswordHash, CreateUser, RegisterStorageFails
<1>2. pc'[c] \notin AcceptedPcs \cup {"login.verify", "login.verifying"}
  BY DEF RegistrationNext, RegisterStep, BeginRegister, StartPasswordHash, Acquire, CheckEmail,
     EndPasswordHash, CreateUser, RegisterStorageFails, AcceptedPcs
<1> QED
  BY <1>1, <1>2, NothingRead, OneMoves DEF loginVars

LEMMA StepKnown ==
  ASSUME TypeInv, KnownInv, Next
  PROVE  KnownInv'
<1>1. SecretsStay
  BY StepKeepsSecrets
<1>2. ASSUME NEW c \in Callers, CallerNext(c) PROVE KnownInv'
  BY <1>1, <1>2, LoginKnown, RegistrationKnown DEF CallerNext, Next
<1>3. CASE Tick \/ SetActive \/ PurgesByHand
  BY <1>1, <1>3, AllStillKnown DEF Next, Tick, SetActive, PurgesByHand, PurgeByHand, callVars, loginVars
<1> QED
  BY <1>2, <1>3 DEF Next

-----------------------------------------------------------------------------
(* Registrations *)

\* Calls that have not just registered leave the registered ones standing.
LEMMA StillRegistered ==
  ASSUME RegistrationsTruthful, SecretsStay,
         \A d \in Callers : outcome'[d].code = "REGISTERED" =>
             outcome[d].code = "REGISTERED" /\ data'[d] = data[d]
  PROVE  RegistrationsTruthful'
BY DEF RegistrationsTruthful, SecretsStay, NewEmail

\* The insert that succeeds finds nobody registered under the address.
LEMMA CreateTruthful ==
  ASSUME TypeInv, RegistrationsTruthful, SecretsStay, NEW c \in Callers, CreateUser(c)
  PROVE  RegistrationsTruthful'
<1>1. UNCHANGED data /\ \A d \in Callers : NewEmail(d)' = NewEmail(d)
  BY DEF CreateUser, NewEmail
<1>2. \A d \in Callers \ {c} : outcome'[d] = outcome[d]
  BY DEF CreateUser, Finish, TypeInv, TypeOK, CallsOK
<1>3. CASE outcome'[c].code = "REGISTERED"
  <2>1. /\ NewEmail(c) \notin DOMAIN users
        /\ NewEmail(c) \in DOMAIN users'
        /\ users'[NewEmail(c)].secret = normalize_password(data[c].password)
    BY <1>3 DEF CreateUser, ViolatesUniqueEmail, InsertUser, NewUser, Finish, TypeInv, TypeOK,
                CallsOK
  <2>2. \A d \in Callers \ {c} : outcome[d].code = "REGISTERED" => NewEmail(d) # NewEmail(c)
    BY <2>1 DEF RegistrationsTruthful
  <2> QED
    BY <1>1, <1>2, <2>1, <2>2 DEF RegistrationsTruthful, SecretsStay
<1>4. CASE outcome'[c].code # "REGISTERED"
  BY <1>1, <1>2, <1>4, StillRegistered
<1> QED
  BY <1>3, <1>4

LEMMA StepTruthful ==
  ASSUME TypeInv, KnownInv, RegistrationsTruthful, Next
  PROVE  RegistrationsTruthful'
<1> USE DEF TypeInv, TypeOK, CallsOK, InputsOK, Begin, Continue, Finish, NoOutcome
<1>1. SecretsStay
  BY StepKeepsSecrets
<1>2. ASSUME NEW c \in Callers, LoginNext(c), UNCHANGED data
      PROVE  RegistrationsTruthful'
  <2>1. \A d \in Callers : outcome'[d].code = "REGISTERED" => outcome[d].code = "REGISTERED"
    BY <1>2 DEF LoginNext, LoginStep, BeginLogin, StartHash, StartVerify, StartRehash, Acquire,
       CountFailures, Lookup, EndVerify, EndRehash, UpdateHash, Clear, RecordFailure, Purge,
       LoginStorageFails, EndLogin, RaiseInvalid, RaiseThrottled, Authenticated
  <2> QED
    BY <1>1, <1>2, <2>1, StillRegistered
<1>3. ASSUME NEW c \in Callers, RegistrationNext(c)
      PROVE  RegistrationsTruthful'
  <2>1. CASE CreateUser(c)
    BY <1>1, <2>1, CreateTruthful
  <2>2. CASE ~CreateUser(c)
    <3>1. \A d \in Callers \ {c} : outcome'[d] = outcome[d] /\ data'[d] = data[d]
      BY <1>3, <2>2 DEF RegistrationNext, RegisterStep, BeginRegister, StartPasswordHash,
         Acquire, CheckEmail, EndPasswordHash, RegisterStorageFails
    <3>2. outcome'[c].code = "REGISTERED" =>
              outcome'[c] = outcome[c] /\ data'[c] = data[c]
      <4>1. CASE \E d \in RegisterInputs : BeginRegister(c, d)
        BY <4>1 DEF BeginRegister
      <4>2. CASE StartPasswordHash(c) \/ EndPasswordHash(c)
        BY <4>2 DEF StartPasswordHash, EndPasswordHash, Acquire
      <4>3. CASE CheckEmail(c)
        BY <4>3 DEF CheckEmail
      <4>4. CASE RegisterStorageFails(c)
        BY <4>4 DEF RegisterStorageFails
      <4> QED
        BY <1>3, <2>2, <4>1, <4>2, <4>3, <4>4 DEF RegistrationNext, RegisterStep
    <3>3. \A d \in Callers : outcome'[d].code = "REGISTERED" =>
              outcome[d].code = "REGISTERED" /\ data'[d] = data[d]
      BY <3>1, <3>2
    <3> QED
      BY <1>1, <3>3, StillRegistered
  <2> QED
    BY <2>1, <2>2
<1>4. CASE Tick \/ SetActive \/ PurgesByHand
  BY <1>1, <1>4, StillRegistered DEF Tick, SetActive, PurgesByHand, PurgeByHand, callVars
<1> QED
  BY <1>2, <1>3, <1>4 DEF Next, CallerNext

-----------------------------------------------------------------------------

\* IdentityInv holds throughout.
LEMMA AlwaysKnown == Spec => []IdentityInv
<1>1. Init => KnownInv /\ RegistrationsTruthful
  BY DEF Init, CallsInit, NoOutcome, KnownInv, ReadStands, Accepted, AcceptedPcs,
         RegistrationsTruthful
<1>2. TypeInv /\ KnownInv /\ RegistrationsTruthful /\ [Next]_vars
        => (KnownInv /\ RegistrationsTruthful)'
  <2>1. ASSUME TypeInv, KnownInv, RegistrationsTruthful, UNCHANGED vars
        PROVE  (KnownInv /\ RegistrationsTruthful)'
    BY <2>1 DEF vars, identityTables, callVars, loginVars, KnownInv, ReadStands, Accepted,
                Genuine, Email, Secret, RegistrationsTruthful, NewEmail
  <2> QED
    BY <2>1, StepKnown, StepTruthful
<1> QED
  BY <1>1, <1>2, AlwaysTyped, PTL DEF Spec, IdentityInv

\* No step changes the password of a registered user: the rehash of a login
\* stores what the user typed at registration, whoever else writes the row.
THEOREM PasswordsNeverChange == Spec => PasswordsStand
<1>1. IdentityInv /\ [Next]_vars => [SecretsStay]_vars
  BY StepKeepsSecrets DEF IdentityInv
<1>2. SecretsStay <=> \A e \in DOMAIN users :
                        e \in DOMAIN users' /\ users'[e].secret = users[e].secret
  BY DEF SecretsStay
<1> QED
  BY <1>1, <1>2, AlwaysKnown, PTL DEF Spec, PasswordsStand

\* Of the registrations racing for an address at most one is told it has
\* succeeded, and the account has its password for ever after.
THEOREM RegistrationsAreTruthful == Spec => []RegistrationsTruthful
<1>1. IdentityInv => RegistrationsTruthful
  BY DEF IdentityInv
<1> QED
  BY <1>1, AlwaysKnown, PTL

\* The step by which a login succeeds.
LEMMA SuccessGenuine ==
  ASSUME TypeInv, KnownInv, [Next]_vars, NEW c \in Callers, pc[c] \in LoginPcs,
         pc'[c] = "idle", outcome'[c].code = "LOGGED_IN"
  PROVE  Genuine(c)
<1> USE DEF TypeInv, TypeOK, CallsOK, Begin, Continue, Finish, EndLogin, LoginPcs,
            LoginStatements, LoginHashing
<1>1. LoginNext(c)
  <2>1. pc'[c] # pc[c]
    OBVIOUS
  <2>2. CASE \E d \in Callers : CallerNext(d)
    <3>1. PICK d \in Callers : CallerNext(d)
      BY <2>2
    <3>2. CASE LoginNext(d)
      <4>1. \A o \in Callers \ {d} : pc'[o] = pc[o]
        BY <3>2 DEF LoginNext, LoginStep, BeginLogin, StartHash, StartVerify, StartRehash,
           Acquire, CountFailures, Lookup, EndVerify, EndRehash, UpdateHash, Clear,
           RecordFailure, Purge, LoginStorageFails, RaiseInvalid, RaiseThrottled, Authenticated
      <4> QED
        BY <2>1, <3>2, <4>1
    <3>3. CASE RegistrationNext(d)
      BY <2>1, <3>3 DEF RegistrationNext, RegisterStep, BeginRegister, StartPasswordHash,
         Acquire, CheckEmail, EndPasswordHash, CreateUser, RegisterStorageFails,
         RegisterStatements
    <3> QED
      BY <3>1, <3>2, <3>3 DEF CallerNext
  <2> QED
    BY <2>1, <2>2 DEF Next, Tick, SetActive, PurgesByHand, PurgeByHand, callVars, vars
<1>2. \/ pc[c] \in {"login.update", "login.clear"}
      \/ pc[c] = "login.verifying" /\ Admitted(c)
  BY <1>1 DEF LoginNext, LoginStep, BeginLogin, StartHash, StartVerify, StartRehash, Acquire,
     CountFailures, Lookup, EndVerify, EndRehash, UpdateHash, Clear, RecordFailure, Purge,
     LoginStorageFails, RaiseInvalid, RaiseThrottled, Authenticated
<1> QED
  BY <1>2, AdmittedGenuine DEF KnownInv, Accepted, AcceptedPcs

\* A login succeeds only with the stored password of a user that has been
\* active during the call, though the user is read only once and several
\* steps earlier.
THEOREM LoginsAreGenuine == Spec => LoginsGenuine
<1> DEFINE Step == \A c \in Callers :
      (pc[c] \in LoginPcs /\ pc'[c] = "idle" /\ outcome'[c].code = "LOGGED_IN") =>
          /\ Email(c) \in DOMAIN users
          /\ users[Email(c)].secret = Secret(c)
          /\ Email(c) \in seen_active[c]
<1>1. IdentityInv /\ [Next]_vars => [Step]_vars
  BY SuccessGenuine DEF IdentityInv, Genuine
<1> QED
  BY <1>1, AlwaysKnown, PTL DEF Spec, LoginsGenuine
=============================================================================
