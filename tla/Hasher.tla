------------------------------- MODULE Hasher -------------------------------
(***************************************************************************)
(* Argon2PasswordHasher: each hash or verify runs on a worker thread under *)
(* a semaphore.  The semaphore is taken in one step and given back in the  *)
(* step that ends the run.                                                 *)
(***************************************************************************)
EXTENDS Calls, FiniteSets

CONSTANT MaxConcurrency

ASSUME HasherAssumption == /\ MaxConcurrency \in Nat \ {0}
                           /\ IsFiniteSet(Callers)

VARIABLE slots   \* permits left in the semaphore

\* The call of c, waiting for the semaphore at wait, starts its run.
Acquire(c, wait, run) ==
    /\ pc[c] = wait
    /\ slots > 0
    /\ slots' = slots - 1
    /\ Continue(c, run)

\* Faulty variant: the slot is kept.
NoRelease == UNCHANGED slots

Release == slots' = slots + 1

HasherInit == slots = MaxConcurrency
=============================================================================
