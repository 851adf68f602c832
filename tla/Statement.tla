----------------------------- MODULE Statement ------------------------------
(***************************************************************************)
(* What the ledger promises, without sessions, locks or indexes: every     *)
(* account has a statement that only grows, one whole transaction at a     *)
(* time; an event id is used once; a balance_after extends a balance the   *)
(* account really had; a standing debit leaves the cushion.                *)
(*                                                                         *)
(* It is deliberately silent on WHICH earlier balance is extended: the     *)
(* code does not guarantee that it is the latest one (Ledger!NoLostUpdate).*)
(***************************************************************************)
EXTENDS Integers, Sequences

CONSTANTS
    Accounts, Events, FloorBuffer, NoEvent,
    Deltas       \* signed amounts callers post

VARIABLE statement

Kinds == {"open", "event", "standing"}

PastBalances(a) == {0} \cup {statement[a][i].after : i \in DOMAIN statement[a]}

Used(e) == \E a \in Accounts : \E i \in DOMAIN statement[a] : statement[a][i].ev = e

Init == statement = [a \in Accounts |-> <<>>]

Post(a, kind, e, delta, base) ==
    /\ base \in PastBalances(a)
    /\ e # NoEvent => ~Used(e)
    /\ kind = "standing" => base + delta >= FloorBuffer
    /\ statement' = [statement EXCEPT ![a] = Append(@,
            [kind |-> kind, ev |-> e, delta |-> delta, after |-> base + delta])]

Next ==
    \E a \in Accounts, kind \in Kinds, e \in Events \cup {NoEvent}, delta \in Deltas :
        \E base \in PastBalances(a) : Post(a, kind, e, delta, base)

Spec == Init /\ [][Next]_statement
=============================================================================
