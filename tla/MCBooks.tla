------------------------------ MODULE MCBooks ------------------------------
(***************************************************************************)
(* Small instances of Books for TLC.  Amounts are quarter cents.           *)
(***************************************************************************)
EXTENDS Books, TLC

CONSTANTS Cash, Sales, Bank, Bogus   \* casefolded names;
                                     \* Bogus breaks the pattern

Clean(k, f) == [key |-> k, form |-> f, padded |-> FALSE]
Padded(k, f) == [key |-> k, form |-> f, padded |-> TRUE]

Row(i, code, k) == [id |-> i, code |-> code, name |-> Clean(k, "title"),
                    name_key |-> [key |-> k, padded |-> FALSE],
                    category |-> "ASSET"]
NoAccounts == {}
TwoAccounts == {Row(1, "1000", Cash), Row(2, "4000", Sales)}
OneAccount == {Row(1, "1000", Cash)}

Debit(k, amount) == [account |-> Clean(k, "title"), debit |-> amount, credit |-> 0]
Credit(k, amount) == [account |-> Clean(k, "title"), debit |-> 0, credit |-> amount]

\* 0.01 on both sides
OneCent == [date |-> 1, lines |-> <<Debit(Cash, 4), Credit(Sales, 4)>>]
\* 0.02 = 0.01 + 0.01, a day later
Split == [date |-> 2, lines |-> <<Debit(Cash, 8), Credit(Sales, 4), Credit(Sales, 4)>>]
\* 0.01 = 0.005 + 0.005: balanced as submitted, 0.01 = 0.02 as stored
HalfCents == [date |-> 1, lines |-> <<Debit(Cash, 4), Credit(Sales, 2), Credit(Sales, 2)>>]
\* 0.0025 on both sides: zero as stored
QuarterCent == [date |-> 1, lines |-> <<Debit(Cash, 1), Credit(Sales, 1)>>]
Unbalanced == [date |-> 1, lines |-> <<Debit(Cash, 4), Credit(Sales, 8)>>]
Tomorrow == [date |-> Today + 1, lines |-> OneCent.lines]
\* a padded reference does not resolve: the chart's lookup does not strip
PaddedRef == [date |-> 1, lines |->
    <<[account |-> Padded(Cash, "title"), debit |-> 4, credit |-> 0], Credit(Sales, 4)>>]

CentEntries == {OneCent, Split, Tomorrow}
AnyEntries == {OneCent, HalfCents, QuarterCent, Unbalanced, PaddedRef}
SkewedEntries == {OneCent, Split, HalfCents, QuarterCent, Unbalanced}
OneEntry == {OneCent}

NoNames == {}
Renames == {Clean(Bank, "title")}
Titles == {Clean(k, "title") : k \in {Cash, Bank, Bogus}}
PaddedAndBank == {Padded(Cash, "upper"), Clean(Bank, "title")}
Spellings == {Clean(Cash, "title"), Padded(Cash, "upper"), Clean(Sales, "title")}

Symmetry == Permutations(Callers)
=============================================================================
