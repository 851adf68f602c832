------------------------ MODULE EventConsumer_proofs -------------------------
(***************************************************************************)
(* The event consumer's safety theorems, for any set of workers and any    *)
(* stream, whatever crashes, is reclaimed early or is published twice.     *)
(*                                                                         *)
(* An entry is acknowledged because of something that happened earlier in  *)
(* its handling, so the invariants are strengthened with what a worker in  *)
(* the middle of an entry already knows: the entry was delivered           *)
(* (BatchDelivered), what its step stands for (StepMeans), and that the    *)
(* rule it runs is one whose window it has just won (RunsWonWindow).       *)
(***************************************************************************)
EXTENDS EventConsumer, TLAPS, FiniteSetTheorems

BatchDelivered == \A c \in Consumers : \A e \in batch[c] : e <= cursor

\* What is true of entry e when its worker has come to step p.
Means(p, e) ==
    /\ p \in {"rules", "run"} => EventOf[e] \in applied
    /\ p = "ack" => KindOf[e] = "unknown" \/ EventOf[e] \in applied
    /\ p = "drop" => <<e, "failed">> \in dlq

StepMeans == \A c \in Consumers : \A e \in Entries : Handles(c, e) => Means(pc[c], e)

RunsWonWindow ==
    \A c \in Consumers : pc[c] = "run" =>
        /\ todo[c] # <<>>
        /\ Head(todo[c]) \in cooldown
        /\ Head(todo[c]) \notin ran
        /\ \A d \in Consumers : pc[d] = "run" /\ Head(todo[d]) = Head(todo[c]) => d = c

WindowInv == ran \subseteq cooldown /\ RunsWonWindow

ListInv == BatchDelivered /\ DeliveredIsPendingOrAcked

HandledInv == StepMeans /\ AckedMeansHandled

IInv == TypeOK /\ ListInv /\ HandledInv /\ WindowInv

-----------------------------------------------------------------------------
LEMMA EntriesAreNumbers == Entries \subseteq Nat \ {0}
BY ConsumerAssumption, FS_CardinalityType

\* A worker handles one entry at a time.
LEMMA OldestIsUnique ==
    ASSUME NEW c \in Consumers, NEW e \in Entries, NEW f \in Entries,
           Handles(c, e), Handles(c, f)
    PROVE  e = f
<1>1. e <= f /\ f <= e
    BY DEF Handles
<1>. QED BY <1>1, EntriesAreNumbers

LEMMA InitIInv == Init => IInv
<1> SUFFICES ASSUME Init PROVE IInv
    OBVIOUS
<1>1. TypeOK
    <2>1. <<>> \in Seq(Rules)
        OBVIOUS
    <2>. QED BY <2>1 DEF Init, TypeOK
<1>2. ListInv
    BY EntriesAreNumbers DEF Init, ListInv, BatchDelivered, DeliveredIsPendingOrAcked, Pending
<1>3. HandledInv
    BY DEF Init, HandledInv, StepMeans, AckedMeansHandled, Handles
<1>4. WindowInv
    BY DEF Init, WindowInv, RunsWonWindow
<1>. QED BY <1>1, <1>2, <1>3, <1>4 DEF IInv

LEMMA TypeStep == ASSUME TypeOK, WindowInv, HandledInv, [Next]_vars PROVE TypeOK'
<1>. USE DEF TypeOK, Reasons, WindowInv, RunsWonWindow, HandledInv, StepMeans, Means, redis, gates, local, ledger
<1>1. ASSUME NEW c \in Consumers, NEW e \in Entries, SkipUnknown(c, e) PROVE TypeOK'
    BY <1>1 DEF SkipUnknown, Goto
<1>2. ASSUME NEW c \in Consumers, NEW e \in Entries, SkipDuplicate(c, e) PROVE TypeOK'
    BY <1>2 DEF SkipDuplicate, Goto
<1>3. ASSUME NEW c \in Consumers, NEW e \in Entries, Post(c, e) PROVE TypeOK'
    BY <1>3, ConsumerAssumption DEF Post, Goto
<1>4. ASSUME NEW c \in Consumers, NEW e \in Entries, PoisonRaises(c, e) PROVE TypeOK'
    BY <1>4 DEF PoisonRaises, Goto
<1>5. ASSUME NEW c \in Consumers, NEW e \in Entries, TimeOut(c, e) PROVE TypeOK'
    BY <1>5 DEF TimeOut, Goto, NextRule
<1>6. ASSUME NEW c \in Consumers, NEW e \in Entries, RulesDone(c, e) PROVE TypeOK'
    BY <1>6 DEF RulesDone, Goto
<1>7. ASSUME NEW c \in Consumers, NEW e \in Entries, Ack(c, e) PROVE TypeOK'
    BY <1>7 DEF Ack, Done, Goto
<1>8. ASSUME NEW c \in Consumers, NEW e \in Entries, LeavePending(c, e) PROVE TypeOK'
    BY <1>8 DEF LeavePending, Done, Goto
<1>9. ASSUME NEW c \in Consumers, NEW e \in Entries, DeadLetter(c, e) PROVE TypeOK'
    BY <1>9 DEF DeadLetter, Goto
<1>10. ASSUME NEW c \in Consumers, ConsumeNew(c) PROVE TypeOK'
    BY <1>10 DEF ConsumeNew, Deliver
<1>11. ASSUME NEW c \in Consumers, ReclaimStale(c) PROVE TypeOK'
    BY <1>11 DEF ReclaimStale, Deliver, Stale, Pending
<1>12. ASSUME NEW c \in Consumers, SkipCooling(c) PROVE TypeOK'
    BY <1>12 DEF SkipCooling, NextRule, Goto
<1>13. ASSUME NEW c \in Consumers, AcquireCooldown(c) PROVE TypeOK'
    BY <1>13 DEF AcquireCooldown, Goto, CooldownIsFree
<1>14. ASSUME NEW c \in Consumers, RunAgent(c) PROVE TypeOK'
    BY <1>14 DEF RunAgent, NextRule, Goto
<1>15. ASSUME NEW c \in Consumers, PauseForBudget(c) PROVE TypeOK'
    BY <1>15 DEF PauseForBudget, NextRule, Goto
<1>16. ASSUME NEW c \in Consumers, ProcessingRaises(c) PROVE TypeOK'
    BY <1>16 DEF ProcessingRaises, Goto
<1>17. ASSUME NEW c \in Consumers, LoseBatch(c) PROVE TypeOK'
    BY <1>17 DEF LoseBatch, Goto
<1>18. ASSUME NEW e \in Entries, BecomeIdle(e) PROVE TypeOK'
    BY <1>18 DEF BecomeIdle, Pending
<1>19. ASSUME NEW r \in Rules, CooldownExpires(r) PROVE TypeOK'
    BY <1>19 DEF CooldownExpires, Running
<1>20. ASSUME Publish PROVE TypeOK'
    BY <1>20 DEF Publish
<1>21. ASSUME BudgetChanges PROVE TypeOK'
    BY <1>21 DEF BudgetChanges
<1>22. ASSUME UNCHANGED vars PROVE TypeOK'
    BY <1>22 DEF vars
<1>. QED
    BY <1>1, <1>2, <1>3, <1>4, <1>5, <1>6, <1>7, <1>8, <1>9, <1>10, <1>11, <1>12,
       <1>13, <1>14, <1>15, <1>16, <1>17, <1>18, <1>19, <1>20, <1>21, <1>22
    DEF Next, Work, HandleEntry

LEMMA ListStep == ASSUME TypeOK, ListInv, [Next]_vars PROVE ListInv'
<1>. USE DEF TypeOK, ListInv, BatchDelivered, DeliveredIsPendingOrAcked, Pending, redis, gates, local, ledger
<1>1. ASSUME NEW c \in Consumers, NEW e \in Entries, SkipUnknown(c, e) PROVE ListInv'
    BY <1>1, EntriesAreNumbers, ConsumerAssumption DEF SkipUnknown, Goto, Handles
<1>2. ASSUME NEW c \in Consumers, NEW e \in Entries, SkipDuplicate(c, e) PROVE ListInv'
    BY <1>2, EntriesAreNumbers, ConsumerAssumption DEF SkipDuplicate, Goto, Handles
<1>3. ASSUME NEW c \in Consumers, NEW e \in Entries, Post(c, e) PROVE ListInv'
    BY <1>3, EntriesAreNumbers, ConsumerAssumption DEF Post, Goto, Handles
<1>4. ASSUME NEW c \in Consumers, NEW e \in Entries, PoisonRaises(c, e) PROVE ListInv'
    BY <1>4, EntriesAreNumbers, ConsumerAssumption DEF PoisonRaises, Goto, Handles
<1>5. ASSUME NEW c \in Consumers, NEW e \in Entries, TimeOut(c, e) PROVE ListInv'
    BY <1>5, EntriesAreNumbers, ConsumerAssumption DEF TimeOut, Goto, NextRule, Handles
<1>6. ASSUME NEW c \in Consumers, NEW e \in Entries, RulesDone(c, e) PROVE ListInv'
    BY <1>6, EntriesAreNumbers, ConsumerAssumption DEF RulesDone, Goto, Handles
<1>7. ASSUME NEW c \in Consumers, NEW e \in Entries, Ack(c, e) PROVE ListInv'
    BY <1>7, EntriesAreNumbers, ConsumerAssumption DEF Ack, Done, Goto, Handles
<1>8. ASSUME NEW c \in Consumers, NEW e \in Entries, LeavePending(c, e) PROVE ListInv'
    BY <1>8, EntriesAreNumbers, ConsumerAssumption DEF LeavePending, Done, Goto, Handles
<1>9. ASSUME NEW c \in Consumers, NEW e \in Entries, DeadLetter(c, e) PROVE ListInv'
    BY <1>9, EntriesAreNumbers, ConsumerAssumption DEF DeadLetter, Goto, Handles
<1>10. ASSUME NEW c \in Consumers, ConsumeNew(c) PROVE ListInv'
    BY <1>10, EntriesAreNumbers, ConsumerAssumption DEF ConsumeNew, Deliver
<1>11. ASSUME NEW c \in Consumers, ReclaimStale(c) PROVE ListInv'
    BY <1>11, EntriesAreNumbers, ConsumerAssumption DEF ReclaimStale, Deliver, Stale, Pending
<1>12. ASSUME NEW c \in Consumers, SkipCooling(c) PROVE ListInv'
    BY <1>12, EntriesAreNumbers, ConsumerAssumption DEF SkipCooling, NextRule, Goto
<1>13. ASSUME NEW c \in Consumers, AcquireCooldown(c) PROVE ListInv'
    BY <1>13, EntriesAreNumbers, ConsumerAssumption DEF AcquireCooldown, Goto, CooldownIsFree
<1>14. ASSUME NEW c \in Consumers, RunAgent(c) PROVE ListInv'
    BY <1>14, EntriesAreNumbers, ConsumerAssumption DEF RunAgent, NextRule, Goto
<1>15. ASSUME NEW c \in Consumers, PauseForBudget(c) PROVE ListInv'
    BY <1>15, EntriesAreNumbers, ConsumerAssumption DEF PauseForBudget, NextRule, Goto
<1>16. ASSUME NEW c \in Consumers, ProcessingRaises(c) PROVE ListInv'
    BY <1>16, EntriesAreNumbers, ConsumerAssumption DEF ProcessingRaises, Goto
<1>17. ASSUME NEW c \in Consumers, LoseBatch(c) PROVE ListInv'
    BY <1>17, EntriesAreNumbers, ConsumerAssumption DEF LoseBatch, Goto
<1>18. ASSUME NEW e \in Entries, BecomeIdle(e) PROVE ListInv'
    BY <1>18, EntriesAreNumbers, ConsumerAssumption DEF BecomeIdle, Pending
<1>19. ASSUME NEW r \in Rules, CooldownExpires(r) PROVE ListInv'
    BY <1>19, EntriesAreNumbers, ConsumerAssumption DEF CooldownExpires, Running
<1>20. ASSUME Publish PROVE ListInv'
    BY <1>20, EntriesAreNumbers, ConsumerAssumption DEF Publish
<1>21. ASSUME BudgetChanges PROVE ListInv'
    BY <1>21, EntriesAreNumbers, ConsumerAssumption DEF BudgetChanges
<1>22. ASSUME UNCHANGED vars PROVE ListInv'
    BY <1>22 DEF vars
<1>. QED
    BY <1>1, <1>2, <1>3, <1>4, <1>5, <1>6, <1>7, <1>8, <1>9, <1>10, <1>11, <1>12,
       <1>13, <1>14, <1>15, <1>16, <1>17, <1>18, <1>19, <1>20, <1>21, <1>22
    DEF Next, Work, HandleEntry

\* A step of worker c leaves the other workers where they are: only c's entry matters.
LEMMA WorkerStep ==
    ASSUME StepMeans, NEW c \in Consumers,
           applied \subseteq applied', dlq \subseteq dlq',
           \A d \in Consumers \ {c} : pc'[d] = pc[d] /\ batch'[d] = batch[d],
           \A e \in Entries : Handles(c, e)' => Means(pc[c], e)'
    PROVE  StepMeans'
<1> SUFFICES ASSUME NEW d \in Consumers, NEW e \in Entries, Handles(d, e)'
             PROVE  Means(pc[d], e)'
    BY DEF StepMeans
<1>1. CASE d = c
    BY <1>1
<1>2. CASE d # c
    <2>1. Handles(d, e)
        BY <1>2 DEF Handles
    <2>2. Means(pc[d], e)
        BY <2>1 DEF StepMeans
    <2>. QED BY <1>2, <2>2 DEF Means
<1>. QED BY <1>1, <1>2

\* What handling an entry adds never takes back why an entry was acknowledged.
LEMMA AckedStays ==
    ASSUME AckedMeansHandled, applied \subseteq applied', dlq \subseteq dlq', acked' = acked
    PROVE  AckedMeansHandled'
BY DEF AckedMeansHandled

\* The steps that stay with the entry they handle.
LEMMA EntryStep ==
    ASSUME TypeOK, HandledInv, NEW c \in Consumers, NEW e \in Entries, Handles(c, e),
           NEW p \in {"loop", "rules", "run", "ack", "failed", "drop"},
           pc' = [pc EXCEPT ![c] = p], batch' = batch, acked' = acked,
           applied \subseteq applied', dlq \subseteq dlq', Means(p, e)'
    PROVE  HandledInv'
<1>1. pc'[c] = p /\ \A d \in Consumers \ {c} : pc'[d] = pc[d]
    BY DEF TypeOK
<1>2. ASSUME NEW f \in Entries, Handles(c, f)' PROVE f = e
    <2>1. Handles(c, f)
        BY <1>2 DEF Handles
    <2>. QED BY <2>1, OldestIsUnique
<1>3. StepMeans'
    BY <1>1, <1>2, WorkerStep DEF HandledInv
<1>. QED BY <1>3, AckedStays DEF HandledInv

\* The steps that gate a rule: the entry stays posted.
LEMMA RuleStep ==
    ASSUME TypeOK, HandledInv, NEW c \in Consumers, pc[c] \in {"rules", "run"},
           NEW p \in {"rules", "run"}, pc' = [pc EXCEPT ![c] = p], UNCHANGED <<batch, acked, applied, dlq>>
    PROVE  HandledInv'
<1>1. pc'[c] = p /\ \A d \in Consumers \ {c} : pc'[d] = pc[d]
    BY DEF TypeOK
<1>2. ASSUME NEW f \in Entries, Handles(c, f)' PROVE Means(pc[c], f)'
    <2>1. Handles(c, f)
        BY <1>2 DEF Handles
    <2>2. EventOf[f] \in applied
        BY <2>1 DEF HandledInv, StepMeans, Means
    <2>. QED BY <1>1, <2>2 DEF Means
<1>3. StepMeans'
    BY <1>1, <1>2, WorkerStep
    DEF HandledInv
<1>. QED BY <1>3, AckedStays DEF HandledInv

\* The steps that end an entry, by success or failure, or start a batch.
LEMMA RestStep ==
    ASSUME TypeOK, HandledInv, NEW c \in Consumers, NEW p \in {"loop", "failed"},
           pc' = [pc EXCEPT ![c] = p], \A d \in Consumers \ {c} : batch'[d] = batch[d],
           UNCHANGED <<applied, dlq>>
    PROVE  StepMeans'
<1>1. pc'[c] = p /\ \A d \in Consumers \ {c} : pc'[d] = pc[d]
    BY DEF TypeOK
<1>2. \A f \in Entries : Means(pc[c], f)'
    BY <1>1 DEF Means
<1>. QED BY <1>1, <1>2, WorkerStep DEF HandledInv

LEMMA DeliverStep ==
    ASSUME TypeOK, HandledInv, NEW c \in Consumers, NEW es \in SUBSET Entries,
           pc[c] = "loop", Deliver(c, es), UNCHANGED <<pc, acked, applied, dlq>>
    PROVE  HandledInv'
<1>1. pc' = [pc EXCEPT ![c] = "loop"] /\ \A d \in Consumers \ {c} : batch'[d] = batch[d]
    BY DEF TypeOK, Deliver
<1>2. StepMeans'
    BY <1>1, RestStep
<1>. QED BY <1>2, AckedStays DEF HandledInv

LEMMA SameStep ==
    ASSUME HandledInv, UNCHANGED <<batch, pc, acked, applied, dlq>> PROVE HandledInv'
BY DEF HandledInv, StepMeans, Means, AckedMeansHandled, Handles

LEMMA HandledStep == ASSUME TypeOK, HandledInv, [Next]_vars PROVE HandledInv'
<1>. USE DEF redis, gates, local, ledger, Goto
<1>1. ASSUME NEW c \in Consumers, NEW e \in Entries, SkipUnknown(c, e) PROVE HandledInv'
    BY <1>1, EntryStep DEF SkipUnknown, Means
<1>2. ASSUME NEW c \in Consumers, NEW e \in Entries, SkipDuplicate(c, e) PROVE HandledInv'
    BY <1>2, EntryStep DEF SkipDuplicate, Means
<1>3. ASSUME NEW c \in Consumers, NEW e \in Entries, Post(c, e) PROVE HandledInv'
    BY <1>3, EntryStep DEF Post, Means
<1>4. ASSUME NEW c \in Consumers, NEW e \in Entries, PoisonRaises(c, e) PROVE HandledInv'
    BY <1>4, EntryStep DEF PoisonRaises, Means
<1>5. ASSUME NEW c \in Consumers, NEW e \in Entries, TimeOut(c, e) PROVE HandledInv'
    <2>1. EventOf[e] \in applied
        BY <1>5 DEF TimeOut, HandledInv, StepMeans, Means
    <2>. QED BY <1>5, <2>1, EntryStep DEF TimeOut, NextRule, Means
<1>6. ASSUME NEW c \in Consumers, NEW e \in Entries, RulesDone(c, e) PROVE HandledInv'
    <2>1. EventOf[e] \in applied
        BY <1>6 DEF RulesDone, HandledInv, StepMeans, Means
    <2>. QED BY <1>6, <2>1, EntryStep DEF RulesDone, Means
<1>7. ASSUME NEW c \in Consumers, NEW e \in Entries, Ack(c, e) PROVE HandledInv'
    <2>1. KindOf[e] = "unknown" \/ EventOf[e] \in applied \/ <<e, "failed">> \in dlq
        BY <1>7 DEF Ack, HandledInv, StepMeans, Means
    <2>2. AckedMeansHandled'
        BY <1>7, <2>1 DEF Ack, HandledInv, AckedMeansHandled
    <2>3. \A d \in Consumers \ {c} : batch'[d] = batch[d]
        BY <1>7 DEF Ack, Done, TypeOK
    <2>4. StepMeans'
        BY <1>7, <2>3, RestStep DEF Ack, Done
    <2>. QED BY <2>2, <2>4 DEF HandledInv
<1>8. ASSUME NEW c \in Consumers, NEW e \in Entries, LeavePending(c, e) PROVE HandledInv'
    <2>1. \A d \in Consumers \ {c} : batch'[d] = batch[d]
        BY <1>8 DEF LeavePending, Done, TypeOK
    <2>2. StepMeans'
        BY <1>8, <2>1, RestStep DEF LeavePending, Done
    <2>. QED BY <1>8, <2>2, AckedStays DEF LeavePending, HandledInv
<1>9. ASSUME NEW c \in Consumers, NEW e \in Entries, DeadLetter(c, e) PROVE HandledInv'
    BY <1>9, EntryStep DEF DeadLetter, Means
<1>10. ASSUME NEW c \in Consumers, ConsumeNew(c) PROVE HandledInv'
    <2>1. PICK n \in 0 .. BatchCount :
              Deliver(c, {e \in Entries : cursor < e /\ e <= cursor + n})
        BY <1>10 DEF ConsumeNew
    <2>. QED BY <1>10, <2>1, DeliverStep DEF ConsumeNew
<1>11. ASSUME NEW c \in Consumers, ReclaimStale(c) PROVE HandledInv'
    <2>1. Stale(c) \subseteq Entries
        BY DEF Stale, Pending
    <2>. QED BY <1>11, <2>1, DeliverStep DEF ReclaimStale
<1>12. ASSUME NEW c \in Consumers, SkipCooling(c) PROVE HandledInv'
    BY <1>12, RuleStep DEF SkipCooling, NextRule
<1>13. ASSUME NEW c \in Consumers, AcquireCooldown(c) PROVE HandledInv'
    BY <1>13, RuleStep DEF AcquireCooldown
<1>14. ASSUME NEW c \in Consumers, RunAgent(c) PROVE HandledInv'
    BY <1>14, RuleStep DEF RunAgent, NextRule
<1>15. ASSUME NEW c \in Consumers, PauseForBudget(c) PROVE HandledInv'
    BY <1>15, RuleStep DEF PauseForBudget, NextRule
<1>16. ASSUME NEW c \in Consumers, ProcessingRaises(c) PROVE HandledInv'
    <2>1. StepMeans'
        BY <1>16, RestStep DEF ProcessingRaises
    <2>. QED BY <1>16, <2>1, AckedStays DEF ProcessingRaises, HandledInv
<1>17. ASSUME NEW c \in Consumers, LoseBatch(c) PROVE HandledInv'
    <2>1. \A d \in Consumers \ {c} : batch'[d] = batch[d]
        BY <1>17 DEF LoseBatch, TypeOK
    <2>2. StepMeans'
        BY <1>17, <2>1, RestStep DEF LoseBatch
    <2>. QED BY <1>17, <2>2, AckedStays DEF LoseBatch, HandledInv
<1>18. ASSUME NEW e \in Entries, BecomeIdle(e) PROVE HandledInv'
    BY <1>18, SameStep DEF BecomeIdle
<1>19. ASSUME NEW r \in Rules, CooldownExpires(r) PROVE HandledInv'
    BY <1>19, SameStep DEF CooldownExpires
<1>20. ASSUME Publish PROVE HandledInv'
    BY <1>20, SameStep DEF Publish
<1>21. ASSUME BudgetChanges PROVE HandledInv'
    BY <1>21, SameStep DEF BudgetChanges
<1>22. ASSUME UNCHANGED vars PROVE HandledInv'
    BY <1>22, SameStep DEF vars
<1>. QED
    BY <1>1, <1>2, <1>3, <1>4, <1>5, <1>6, <1>7, <1>8, <1>9, <1>10, <1>11, <1>12,
       <1>13, <1>14, <1>15, <1>16, <1>17, <1>18, <1>19, <1>20, <1>21, <1>22
    DEF Next, Work, HandleEntry

LEMMA WindowStep == ASSUME TypeOK, WindowInv, [Next]_vars PROVE WindowInv'
<1>. USE DEF TypeOK, WindowInv, RunsWonWindow, redis, gates, local, ledger
<1>1. ASSUME NEW c \in Consumers, NEW e \in Entries, SkipUnknown(c, e) PROVE WindowInv'
    BY <1>1 DEF SkipUnknown, Goto
<1>2. ASSUME NEW c \in Consumers, NEW e \in Entries, SkipDuplicate(c, e) PROVE WindowInv'
    BY <1>2 DEF SkipDuplicate, Goto
<1>3. ASSUME NEW c \in Consumers, NEW e \in Entries, Post(c, e) PROVE WindowInv'
    BY <1>3 DEF Post, Goto
<1>4. ASSUME NEW c \in Consumers, NEW e \in Entries, PoisonRaises(c, e) PROVE WindowInv'
    BY <1>4 DEF PoisonRaises, Goto
<1>5. ASSUME NEW c \in Consumers, NEW e \in Entries, TimeOut(c, e) PROVE WindowInv'
    BY <1>5 DEF TimeOut, Goto, NextRule
<1>6. ASSUME NEW c \in Consumers, NEW e \in Entries, RulesDone(c, e) PROVE WindowInv'
    BY <1>6 DEF RulesDone, Goto
<1>7. ASSUME NEW c \in Consumers, NEW e \in Entries, Ack(c, e) PROVE WindowInv'
    BY <1>7 DEF Ack, Done, Goto
<1>8. ASSUME NEW c \in Consumers, NEW e \in Entries, LeavePending(c, e) PROVE WindowInv'
    BY <1>8 DEF LeavePending, Done, Goto
<1>9. ASSUME NEW c \in Consumers, NEW e \in Entries, DeadLetter(c, e) PROVE WindowInv'
    BY <1>9 DEF DeadLetter, Goto
<1>10. ASSUME NEW c \in Consumers, ConsumeNew(c) PROVE WindowInv'
    BY <1>10 DEF ConsumeNew, Deliver
<1>11. ASSUME NEW c \in Consumers, ReclaimStale(c) PROVE WindowInv'
    BY <1>11 DEF ReclaimStale, Deliver, Stale, Pending
<1>12. ASSUME NEW c \in Consumers, SkipCooling(c) PROVE WindowInv'
    BY <1>12 DEF SkipCooling, NextRule, Goto
<1>13. ASSUME NEW c \in Consumers, AcquireCooldown(c) PROVE WindowInv'
    BY <1>13 DEF AcquireCooldown, Goto, CooldownIsFree
<1>14. ASSUME NEW c \in Consumers, RunAgent(c) PROVE WindowInv'
    BY <1>14 DEF RunAgent, NextRule, Goto
<1>15. ASSUME NEW c \in Consumers, PauseForBudget(c) PROVE WindowInv'
    BY <1>15 DEF PauseForBudget, NextRule, Goto
<1>16. ASSUME NEW c \in Consumers, ProcessingRaises(c) PROVE WindowInv'
    BY <1>16 DEF ProcessingRaises, Goto
<1>17. ASSUME NEW c \in Consumers, LoseBatch(c) PROVE WindowInv'
    BY <1>17 DEF LoseBatch, Goto
<1>18. ASSUME NEW e \in Entries, BecomeIdle(e) PROVE WindowInv'
    BY <1>18 DEF BecomeIdle, Pending
<1>19. ASSUME NEW r \in Rules, CooldownExpires(r) PROVE WindowInv'
    BY <1>19 DEF CooldownExpires, Running
<1>20. ASSUME Publish PROVE WindowInv'
    BY <1>20 DEF Publish
<1>21. ASSUME BudgetChanges PROVE WindowInv'
    BY <1>21 DEF BudgetChanges
<1>22. ASSUME UNCHANGED vars PROVE WindowInv'
    BY <1>22 DEF vars
<1>. QED
    BY <1>1, <1>2, <1>3, <1>4, <1>5, <1>6, <1>7, <1>8, <1>9, <1>10, <1>11, <1>12,
       <1>13, <1>14, <1>15, <1>16, <1>17, <1>18, <1>19, <1>20, <1>21, <1>22
    DEF Next, Work, HandleEntry

LEMMA NextIInv == IInv /\ [Next]_vars => IInv'
BY TypeStep, ListStep, HandledStep, WindowStep DEF IInv

LEMMA IInvHolds == Spec => []IInv
BY InitIInv, NextIInv, PTL DEF Spec

-----------------------------------------------------------------------------
\* The variables keep their types.
THEOREM TypeCorrect == Spec => []TypeOK
<1>1. IInv => TypeOK
    BY DEF IInv
<1>. QED BY IInvHolds, <1>1, PTL

\* process_envelope and _handle_delivery together: no acknowledged entry is lost.
THEOREM NothingIsLost == Spec => []AckedMeansHandled
<1>1. IInv => AckedMeansHandled
    BY DEF IInv, HandledInv
<1>. QED BY IInvHolds, <1>1, PTL

\* Whatever crashes, _reclaim_stale can find every unfinished entry.
THEOREM DeliveredStaysClaimable == Spec => []DeliveredIsPendingOrAcked
<1>1. IInv => DeliveredIsPendingOrAcked
    BY DEF IInv, ListInv
<1>. QED BY IInvHolds, <1>1, PTL

\* The SETNX in _acquire_cooldown: one agent run per customer, rule and window.
THEOREM RunsOncePerWindow == Spec => []OneRunPerWindow
<1>1. IInv => OneRunPerWindow
    BY DEF IInv, WindowInv, RunsWonWindow, OneRunPerWindow, Running
<1>. QED BY IInvHolds, <1>1, PTL
=============================================================================
