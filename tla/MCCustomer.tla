----------------------------- MODULE MCCustomer -----------------------------
(* The instance of Customer that is model-checked.                           *)
EXTENDS Customer

CONSTANTS b1, r1, r2, e1, q1, q2, q3, q4, o1

ThreadBags == {[fields |-> {"name"}, kyc |-> "open"], [fields |-> {"name", "pan"}, kyc |-> "open"],
               [fields |-> {"name", "pan"}, kyc |-> "verified"]}

\* Numbers that put every digit at every place.
Counting == {[n \in 1 .. 11 |-> (a + n) % 10] : a \in 0 .. 9}

\* Two products and three customers, who between them fail each rule.
NoRule == [minIncome |-> Unset, maxIncome |-> Unset, minAge |-> Unset, maxAge |-> Unset, segment |-> Unset]
Shelf  == [deposit |-> [NoRule EXCEPT !.minAge = 2, !.maxIncome = 4],
           card |-> [NoRule EXCEPT !.minIncome = 2, !.maxAge = 3, !.segment = 1]]
Person(income, age, segment) == [income |-> income, age |-> age, segment |-> segment]
People == {Person(3, 3, 1), Person(Unset, 1, 1), Person(5, 4, 2)}
=============================================================================
