----------------------------- MODULE MCPlatform -----------------------------
(* The instance of Platform that is model-checked.                           *)
EXTENDS Platform

\* A salary that is paid, and one that is not; two debits.
Move(amount, direction, category, channel) ==
    [amount |-> amount, direction |-> direction, category |-> category, channel |-> channel]
SomeMoves == {Move(4, "credit", "salary", "neft"), Move(1, "credit", "pension", "neft"),
              Move(2, "debit", "pharmacy", "upi"), Move(3, "debit", "groceries", "card")}

\* Providers of the router, in their order.
ProviderOrder == <<"a", "b", "c">>
LowestBaseline == -1
=============================================================================
