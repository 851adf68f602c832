--------------------------- MODULE MCEventConsumer --------------------------
(* Instances of EventConsumer: what the stream carries.                     *)
EXTENDS EventConsumer, TLC

CONSTANTS c1, c2, r1

TwoConsumers == {c1, c2}
OneConsumer  == {c1}
OneRule      == {r1}

\* Two events that match the same rule, then one that cannot be posted.
PoisonEntries == 1 .. 3
PoisonEvents  == [e \in PoisonEntries |-> e]
PoisonKinds   == [e \in PoisonEntries |-> IF e = 3 THEN "poison" ELSE "ok"]
PoisonMatches == [e \in PoisonEntries |-> IF e = 3 THEN <<>> ELSE <<r1>>]

\* One event published twice, a customer nobody knows, one that cannot be posted.
MixedEntries == 1 .. 4
MixedEvents  == [e \in MixedEntries |-> IF e <= 2 THEN 1 ELSE e]
MixedKinds   == [e \in MixedEntries |-> IF e = 3 THEN "unknown"
                                        ELSE IF e = 4 THEN "poison" ELSE "ok"]
MixedMatches == [e \in MixedEntries |-> IF e = 1 THEN <<r1>> ELSE <<>>]

Symmetry == Permutations(Consumers)
=============================================================================
