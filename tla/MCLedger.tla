------------------------------ MODULE MCLedger ------------------------------
(* Instances of Ledger for TLC: two accounts or one, two sessions,          *)
(* one debit and one credit event.                                          *)
EXTENDS Ledger, TLC

CONSTANTS a1, a2, s1, s2, e1, e2

OneAccount   == {a1}
TwoAccounts  == {a1, a2}
TwoSessions  == {s1, s2}
OneEvent     == {e1}
TwoEvents    == {e1, e2}
EventAmounts == [e \in Events |-> IF e = e1 THEN -2 ELSE 1]

Symmetry == Permutations(Accounts) \cup Permutations(Sessions)
=============================================================================
