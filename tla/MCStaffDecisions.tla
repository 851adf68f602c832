------------------------- MODULE MCStaffDecisions --------------------------
(* Instances of StaffDecisions: which proposals send email.                 *)
EXTENDS StaffDecisions, TLC

CONSTANTS r1, r2, r3, pEmail, pOffer, h1, amy, raj

TwoRequests   == {r1, r2}
ThreeRequests == {r1, r2, r3}
OneProposal   == {pEmail}
BothProposals == {pEmail, pOffer}
Channels      == [p \in Proposals |-> IF p = pEmail THEN "email" ELSE "in_app"]

Symmetry == Permutations(Requests) \cup Permutations(Staff)
=============================================================================
