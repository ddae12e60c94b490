--------------------------- MODULE AbstractLedger ---------------------------
(***************************************************************************)
(* What the bookkeeping core promises of the ledger, with no calls, tables *)
(* or races: entries are recorded under fresh numbers, never change, and   *)
(* each is posted to the ledger at most once, as a whole.                  *)
(***************************************************************************)
EXTENDS Naturals

VARIABLES
    recorded,  \* journal number -> what was recorded under it
    posted     \* journal number -> the postings made of it

ledger == <<recorded, posted>>

Extends(f, g, n) ==
    /\ n \notin DOMAIN f
    /\ DOMAIN g = DOMAIN f \cup {n}
    /\ \A m \in DOMAIN f : g[m] = f[m]

Init == /\ recorded = [n \in {} |-> {}]
        /\ posted = [n \in {} |-> {}]

Record == /\ \E n \in DOMAIN recorded' : n > 0 /\ Extends(recorded, recorded', n)
          /\ UNCHANGED posted

Post == /\ \E n \in DOMAIN recorded : Extends(posted, posted', n)
        /\ UNCHANGED recorded

Next == Record \/ Post

Spec == Init /\ [][Next]_ledger
=============================================================================
