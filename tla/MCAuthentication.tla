-------------------------- MODULE MCAuthentication --------------------------
(***************************************************************************)
(* Small instances of Authentication for TLC.                              *)
(***************************************************************************)
EXTENDS Authentication, TLC

CONSTANTS Ann, Bob, Nobody, TooLong,    \* normalized addresses
          Right, Wrong, Short,          \* normalized passwords
          Home, Away, Unknown           \* client addresses

User(secret, current) == [secret |-> secret, current |-> current, is_active |-> TRUE]

\* Ann's hash has outdated parameters
AnnOutdated == [e \in {Ann} |-> User(Right, FALSE)]
NoUsers == [e \in {} |-> User(Right, TRUE)]
AnnCurrent == [e \in {Ann} |-> User(Right, TRUE)]

Attempt(ip, email, secret) ==
    [ip |-> ip, email |-> [key |-> email, form |-> "typed"],
     password |-> [secret |-> secret, form |-> "typed"]]

\* Ann signs in at home; from an unknown client her address comes with right,
\* wrong and blank passwords, or an over-limit one is typed
HomeAndAway == {Attempt(Home, Ann, Right), Attempt(None, Ann, Right),
                Attempt(None, Ann, Wrong), Attempt(None, Ann, Blank),
                Attempt(None, TooLong, Right)}
\* one client, refused until the account is registered
Impatient == {Attempt(Away, Bob, Right)}
AnnAtHome == {Attempt(Home, Ann, Right)}

Register(email, secret) == [email |-> [key |-> email, form |-> "typed"],
                            password |-> [secret |-> secret, form |-> "typed"]]
BobTwice == {Register(Bob, Right), Register(Bob, Wrong)}
BobOnce == {Register(Bob, Right), Register(Bob, Short)}
NoRegistrations == {}

Symmetry == Permutations(Callers)
=============================================================================
