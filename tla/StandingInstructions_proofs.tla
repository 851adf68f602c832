--------------------- MODULE StandingInstructions_proofs ---------------------
(***************************************************************************)
(* No same-day double post, for any number of ticks, requests and          *)
(* instructions, any cadence, and whatever rolls back.                     *)
(*                                                                         *)
(* What a tick deals with it holds the key of (DoneHeld), no two ticks     *)
(* deal with the same due date (Apart), and a due date committed today     *)
(* still has its key and is nobody's any more (PastDone).  The third part  *)
(* is what makes the first two survive a commit: the key outlives it.      *)
(***************************************************************************)
EXTENDS StandingInstructions, TLAPS

\* Worker w has run the instruction in its transaction, or is running it.
Deals(w, i, d) ==
    \/ \E r \in draft[w] : r.id = i /\ r.due = d
    \/ pc[w] = "run" /\ \E x \in todo[w] : IsNext(w, x) /\ x.id = i /\ x.due = d

Held(i, d) == \E k \in keys : k.id = i /\ k.due = d

Idle == \A w \in Workers : pc[w] = "idle" => draft[w] = {}
Today == \A w \in Workers : \A r \in draft[w] : r.day = today
DoneHeld == \A w \in Workers : \A i, d : Deals(w, i, d) => Held(i, d)
Apart == \A v, w \in Workers : \A i, d : Deals(v, i, d) /\ Deals(w, i, d) => v = w
PastDone ==
    \A i \in Instructions : \A n \in DOMAIN outcomes[i] :
        /\ outcomes[i][n].day <= today
        /\ \A d : outcomes[i][n].day = today /\ outcomes[i][n].due = d =>
              Held(i, d) /\ \A w \in Workers : ~Deals(w, i, d)
Once == \A i \in Instructions : \A m, n \in DOMAIN outcomes[i] : outcomes[i][m] = outcomes[i][n] => m = n

TickInv == Idle /\ Today /\ DoneHeld /\ Apart /\ PastDone /\ Once
IInv == TypeOK /\ TickInv

-----------------------------------------------------------------------------
\* What the tick loaded is typed: pairs of an instruction and its date.
LEMMA OldestTyped == ASSUME TypeOK PROVE Oldest \subseteq [id : Instructions, due : Nat]
<1>1. DueNow \subseteq [id : Instructions, due : Nat]
    BY DEF TypeOK, DueNow
<1>. QED BY <1>1 DEF Oldest

\* The run of an instruction that a tick ran is one of its drafts.
LEMMA RunOfIsDraft ==
    ASSUME NEW w \in Workers, NEW i \in RanBy(w)
    PROVE  RunOf(w, i) \in draft[w] /\ RunOf(w, i).id = i
<1>1. \E r \in draft[w] : r.id = i
    BY DEF RanBy
<1>. QED BY <1>1 DEF RunOf

LEMMA RowTyped == ASSUME NEW S, NEW q \in Seq(S), NEW n \in DOMAIN q PROVE q[n] \in S
OBVIOUS

\* A tick handles one instruction at a time.
LEMMA OneNext ==
    ASSUME TypeOK, NEW w \in Workers, NEW x, NEW y, IsNext(w, x), IsNext(w, y)
    PROVE  x = y
<1>1. x \in [id : Instructions, due : Nat] /\ y \in [id : Instructions, due : Nat]
    BY DEF TypeOK, IsNext
<1>2. x.id \in Nat /\ x.due \in Nat /\ y.id \in Nat /\ y.due \in Nat
    BY <1>1, StandingAssumption
<1>. QED BY <1>2 DEF IsNext, Earlier

-----------------------------------------------------------------------------
\* Type correctness, one step per action.
LEMMA InitTyped == Init => TypeOK
BY DEF Init, TypeOK, NoCall

LEMMA ReadTyped ==
    ASSUME TypeOK, NEW c \in Callers, NEW k \in {"create", "pause", "resume", "cancel"},
           NEW i \in Instructions \cup {0}, NEW d \in Nat, Read(c, k, i, d)
    PROVE  TypeOK'
BY DEF TypeOK, Read, table, tick

LEMMA SaveTyped ==
    ASSUME TypeOK, NEW c \in Callers, NEW k, NEW i \in Instructions,
           NEW st \in {"active", "paused", "ended"}, NEW d \in Nat, Save(c, k, i, st, d)
    PROVE  TypeOK'
BY DEF TypeOK, Save, tick, NoCall

LEMMA CustomerTyped == ASSUME TypeOK, NEW c \in Callers, CustomerCall(c) PROVE TypeOK'
<1>1. CASE AskCreate(c)
    BY <1>1, ReadTyped DEF AskCreate
<1>2. ASSUME NEW i \in Instructions, AskStatus(c, i) PROVE TypeOK'
    <2>1. due[i] \in Nat
        BY DEF TypeOK
    <2>. QED BY <1>2, <2>1, ReadTyped DEF AskStatus
<1>3. ASSUME NEW i \in Instructions, SaveCreate(c, i) PROVE TypeOK'
    <2>1. today \in Nat /\ today + 1 \in Nat
        BY DEF TypeOK
    <2>. QED BY <1>3, <2>1, SaveTyped DEF SaveCreate
<1>4. ASSUME NEW i \in Instructions, SaveStatus(c, i) PROVE TypeOK'
    <2>1. due[i] \in Nat /\ ResumeDate(c, i) \in Nat
        BY DEF TypeOK, ResumeDate
    <2>. QED BY <1>4, <2>1, SaveTyped DEF SaveStatus
<1>. QED BY <1>1, <1>2, <1>3, <1>4 DEF CustomerCall

LEMMA CommitTyped == ASSUME TypeOK, NEW w \in Workers, CommitTick(w) PROVE TypeOK'
<1>1. ASSUME NEW i \in Instructions, i \in RanBy(w)
      PROVE  /\ NextDate(RunOf(w, i)) \in Nat
             /\ RunOf(w, i).due \in Nat /\ RunOf(w, i).day \in Nat
    BY <1>1, RunOfIsDraft, StandingAssumption DEF TypeOK, NextDate
<1>2. due' \in [Instructions -> Nat]
    BY <1>1 DEF TypeOK, CommitTick
<1>3. outcomes' \in [Instructions -> Seq([due : Nat, day : Nat])]
    <2>1. ASSUME NEW i \in Instructions
          PROVE  outcomes'[i] \in Seq([due : Nat, day : Nat])
        <3>1. outcomes[i] \in Seq([due : Nat, day : Nat])
            BY DEF TypeOK
        <3>2. CASE i \in RanBy(w)
            <4>1. [due |-> RunOf(w, i).due, day |-> RunOf(w, i).day] \in [due : Nat, day : Nat]
                BY <3>2, <1>1
            <4>. DEFINE row == [due |-> RunOf(w, i).due, day |-> RunOf(w, i).day]
            <4>2. outcomes'[i] = Append(outcomes[i], row)
                BY <3>2 DEF CommitTick
            <4>. HIDE DEF row
            <4>. QED BY <3>1, <4>1, <4>2 DEF row
        <3>3. CASE i \notin RanBy(w)
            BY <3>1, <3>3 DEF CommitTick
        <3>. QED BY <3>2, <3>3
    <2>2. outcomes' = [i \in Instructions |-> outcomes'[i]]
        BY DEF CommitTick
    <2>. QED BY <2>1, <2>2
<1>. QED BY <1>2, <1>3 DEF TypeOK, CommitTick, caller

LEMMA TickTyped == ASSUME TypeOK, NEW w \in Workers, RunTick(w) \/ RollBack(w) PROVE TypeOK'
<1>1. CASE SelectDue(w)
    BY <1>1, OldestTyped DEF SelectDue, TypeOK, table, caller
<1>2. CASE CommitTick(w)
    BY <1>2, CommitTyped
<1>3. ASSUME NEW x \in todo[w], SkipLocked(w, x) PROVE TypeOK'
    BY <1>3 DEF SkipLocked, TypeOK, table, caller
<1>4. ASSUME NEW x \in todo[w], AcquireRunLock(w, x) PROVE TypeOK'
    <2>1. x \in [id : Instructions, due : Nat] /\ today + Ttl \in Nat
        BY StandingAssumption DEF TypeOK
    <2>2. [id |-> x.id, due |-> x.due, expiry |-> today + Ttl]
              \in [id : Instructions, due : Nat, expiry : Nat]
        BY <2>1
    <2>. QED BY <1>4, <2>2 DEF AcquireRunLock, LockFor, TypeOK, table, caller
<1>5. ASSUME NEW x \in todo[w], RunOne(w, x) PROVE TypeOK'
    <2>1. x \in [id : Instructions, due : Nat] /\ today \in Nat
        BY DEF TypeOK
    <2>2. PICK o \in {"ended", "skipped", "debited"} :
              draft' = [draft EXCEPT ![w] =
                  @ \cup {[id |-> x.id, due |-> x.due, day |-> today, outcome |-> o]}]
        BY <1>5 DEF RunOne
    <2>3. [id |-> x.id, due |-> x.due, day |-> today, outcome |-> o]
              \in [id : Instructions, due : Nat, day : Nat, outcome : {"ended", "skipped", "debited"}]
        BY <2>1
    <2>4. draft' \in [Workers -> SUBSET [id : Instructions, due : Nat, day : Nat,
                                         outcome : {"ended", "skipped", "debited"}]]
        BY <2>2, <2>3 DEF TypeOK
    <2>. QED BY <1>5, <2>4 DEF RunOne, TypeOK, table, caller
<1>6. CASE RollBack(w)
    BY <1>6 DEF RollBack, TypeOK, table, caller
<1>. QED BY <1>1, <1>2, <1>3, <1>4, <1>5, <1>6 DEF RunTick

LEMMA NextTyped == TypeOK /\ [Next]_vars => TypeOK'
<1>. SUFFICES ASSUME TypeOK, [Next]_vars PROVE TypeOK'
    OBVIOUS
<1>1. CASE NextDay
    BY <1>1 DEF NextDay, TypeOK, table, tick, caller
<1>2. CASE UNCHANGED vars
    BY <1>2 DEF vars, TypeOK, table, tick, caller
<1>. QED BY <1>1, <1>2, CustomerTyped, TickTyped DEF Next

\* TypeOK for every value of the constants.
THEOREM TypeCorrect == Spec => []TypeOK
BY InitTyped, NextTyped, PTL DEF Spec

-----------------------------------------------------------------------------
\* The strengthened invariant, one lemma per kind of step.

\* A customer request does not touch the ticks, the keys or what was run.
LEMMA RequestKeeps ==
    ASSUME TickInv, UNCHANGED <<today, outcomes, keys, tick>>
    PROVE  TickInv'
BY DEF TickInv, Idle, Today, DoneHeld, Apart, PastDone, Once, Deals, Held, IsNext, tick

\* A step that takes nothing new into a transaction: fewer runs, the same keys.
LEMMA FewerKeeps ==
    ASSUME TickInv, UNCHANGED <<today, outcomes, keys>>,
           \A w \in Workers : draft'[w] \subseteq draft[w] \/ (\A r \in draft'[w] : r.day = today),
           \A w \in Workers : pc'[w] = "idle" => draft'[w] = {},
           \A w \in Workers : \A i, d : Deals(w, i, d)' => Deals(w, i, d)
    PROVE  TickInv'
<1>1. \A i, d : Held(i, d)' <=> Held(i, d)
    BY DEF Held
<1>2. Idle' /\ Today'
    BY DEF TickInv, Idle, Today
<1>3. DoneHeld' /\ Apart'
    BY <1>1 DEF TickInv, DoneHeld, Apart
<1>4. PastDone' /\ Once'
    BY <1>1 DEF TickInv, PastDone, Once
<1>. QED BY <1>2, <1>3, <1>4 DEF TickInv

LEMMA SelectKeeps == ASSUME IInv, NEW w \in Workers, SelectDue(w) PROVE TickInv'
<1>1. \A v \in Workers : draft'[v] = draft[v]
    BY DEF SelectDue
<1>2. \A v \in Workers : \A i, d : Deals(v, i, d)' => Deals(v, i, d)
    BY DEF SelectDue, Deals, IsNext, IInv, TypeOK
<1>3. \A v \in Workers : pc'[v] = "idle" => draft'[v] = {}
    BY DEF SelectDue, IInv, TickInv, Idle, TypeOK
<1>. QED BY <1>1, <1>2, <1>3, FewerKeeps DEF SelectDue, IInv, table

LEMMA SkipKeeps == ASSUME IInv, NEW w \in Workers, NEW x \in todo[w], SkipLocked(w, x) PROVE TickInv'
<1>1. \A v \in Workers : draft'[v] = draft[v]
    BY DEF SkipLocked
<1>2. \A v \in Workers : \A i, d : Deals(v, i, d)' => Deals(v, i, d)
    BY DEF SkipLocked, Deals, IsNext, IInv, TypeOK
<1>3. \A v \in Workers : pc'[v] = "idle" => draft'[v] = {}
    BY DEF SkipLocked, IInv, TickInv, Idle
<1>. QED BY <1>1, <1>2, <1>3, FewerKeeps DEF SkipLocked, IInv, table

LEMMA RollBackKeeps == ASSUME IInv, NEW w \in Workers, RollBack(w) PROVE TickInv'
<1>1. \A v \in Workers : draft'[v] \subseteq draft[v]
    BY DEF RollBack, IInv, TypeOK
<1>2. \A v \in Workers : \A i, d : Deals(v, i, d)' => Deals(v, i, d)
    BY DEF RollBack, Deals, IsNext, IInv, TypeOK
<1>3. \A v \in Workers : pc'[v] = "idle" => draft'[v] = {}
    BY DEF RollBack, IInv, TickInv, Idle, TypeOK
<1>. QED BY <1>1, <1>2, <1>3, FewerKeeps DEF RollBack, IInv, table

\* Running the instruction moves it from the one being run to the drafts.
LEMMA RunKeeps == ASSUME IInv, NEW w \in Workers, NEW x \in todo[w], RunOne(w, x) PROVE TickInv'
<1>. PICK o \in {"ended", "skipped", "debited"} :
        draft' = [draft EXCEPT ![w] =
            @ \cup {[id |-> x.id, due |-> x.due, day |-> today, outcome |-> o]}]
    BY DEF RunOne
<1>. DEFINE new == [id |-> x.id, due |-> x.due, day |-> today, outcome |-> o]
<1>1. draft'[w] = draft[w] \cup {new} /\ \A v \in Workers \ {w} : draft'[v] = draft[v]
    BY DEF IInv, TypeOK
<1>2. new.id = x.id /\ new.due = x.due /\ new.day = today
    OBVIOUS
<1>3. \A v \in Workers : draft'[v] \subseteq draft[v] \/ (\A r \in draft'[v] : r.day = today)
    BY <1>1, <1>2 DEF IInv, TickInv, Today
<1>4. \A v \in Workers : pc'[v] = "idle" => draft'[v] = {}
    BY <1>1 DEF RunOne, IInv, TickInv, Idle, TypeOK
<1>5. Deals(w, x.id, x.due)
    BY DEF RunOne, Deals
<1>. HIDE DEF new
<1>6. ASSUME NEW v \in Workers, NEW i, NEW d, Deals(v, i, d)' PROVE Deals(v, i, d)
    <2>1. CASE v = w
        <3>1. pc'[w] = "next"
            BY DEF RunOne, IInv, TypeOK
        <3>2. PICK r \in draft'[w] : r.id = i /\ r.due = d
            BY <1>6, <2>1, <3>1 DEF Deals
        <3>3. CASE r = new
            BY <1>2, <1>5, <2>1, <3>2, <3>3
        <3>. QED BY <1>1, <2>1, <3>2, <3>3 DEF Deals
    <2>2. CASE v # w
        <3>1. draft'[v] = draft[v] /\ pc'[v] = pc[v] /\ todo'[v] = todo[v]
            BY <1>1, <2>2 DEF RunOne, IInv, TypeOK
        <3>. QED BY <1>6, <3>1 DEF Deals, IsNext
    <2>. QED BY <2>1, <2>2
<1>. QED BY <1>3, <1>4, <1>6, FewerKeeps DEF RunOne, IInv, table

\* The key is free, so nobody deals with the due date and it was not committed today.
LEMMA AcquireKeeps ==
    ASSUME IInv, NEW w \in Workers, NEW x \in todo[w], AcquireRunLock(w, x)
    PROVE  TickInv'
<1>. DEFINE key == [id |-> x.id, due |-> x.due, expiry |-> today + Ttl]
<1>1. keys' = keys \cup {key} /\ key.id = x.id /\ key.due = x.due
    BY DEF AcquireRunLock, LockFor
<1>2. ~Held(x.id, x.due)
    BY DEF AcquireRunLock, KeyHeld, Held
<1>. HIDE DEF key
<1>3. \A i, d : Held(i, d) => Held(i, d)'
    BY <1>1 DEF Held
<1>4. Held(x.id, x.due)'
    BY <1>1 DEF Held
<1>5. ASSUME NEW v \in Workers, NEW i, NEW d, Deals(v, i, d)'
      PROVE  Deals(v, i, d) \/ (v = w /\ i = x.id /\ d = x.due)
    <2>1. CASE v = w
        <3>1. ASSUME NEW y, IsNext(w, y)' PROVE y = x
            <4>1. IsNext(w, y) /\ IsNext(w, x)
                BY <3>1 DEF AcquireRunLock, LockFor, IsNext
            <4>. QED BY <4>1, OneNext DEF IInv
        <3>. QED BY <1>5, <2>1, <3>1 DEF Deals, AcquireRunLock, LockFor
    <2>2. CASE v # w
        BY <1>5, <2>2 DEF Deals, AcquireRunLock, LockFor, IsNext, IInv, TypeOK
    <2>. QED BY <2>1, <2>2
<1>6. Idle' /\ Today'
    BY DEF AcquireRunLock, LockFor, IInv, TickInv, Idle, Today, TypeOK
<1>7. DoneHeld'
    BY <1>3, <1>4, <1>5 DEF IInv, TickInv, DoneHeld
<1>8. Apart'
    <2>1. \A v \in Workers : ~Deals(v, x.id, x.due)
        BY <1>2 DEF IInv, TickInv, DoneHeld
    <2>2. SUFFICES ASSUME NEW u \in Workers, NEW v \in Workers, NEW i, NEW d,
                          Deals(u, i, d)', Deals(v, i, d)'
                   PROVE  u = v
        BY DEF Apart
    <2>3. CASE i = x.id /\ d = x.due
        BY <1>5, <2>1, <2>2, <2>3
    <2>4. CASE ~(i = x.id /\ d = x.due)
        BY <1>5, <2>2, <2>4 DEF IInv, TickInv, Apart
    <2>. QED BY <2>3, <2>4
<1>9. PastDone'
    <2>1. outcomes' = outcomes /\ today' = today
        BY DEF AcquireRunLock, LockFor, table
    <2>2. SUFFICES ASSUME NEW i \in Instructions, NEW n \in DOMAIN outcomes[i], NEW d,
                          outcomes[i][n].day = today, outcomes[i][n].due = d
                   PROVE  Held(i, d)' /\ \A v \in Workers : ~(Deals(v, i, d)')
        BY <2>1 DEF PastDone, IInv, TickInv
    <2>3. Held(i, d) /\ \A v \in Workers : ~Deals(v, i, d)
        BY <2>2 DEF IInv, TickInv, PastDone
    <2>4. ~(i = x.id /\ d = x.due)
        BY <1>2, <2>3
    <2>. QED BY <1>3, <1>5, <2>3, <2>4
<1>10. Once'
    BY DEF AcquireRunLock, LockFor, table, IInv, TickInv, Once
<1>. QED BY <1>6, <1>7, <1>8, <1>9, <1>10 DEF TickInv

\* At midnight nobody deals with anything, and every row is of an earlier day.
LEMMA MidnightKeeps == ASSUME IInv, NextDay PROVE TickInv'
<1>1. outcomes' = outcomes /\ draft' = draft /\ pc' = pc /\ todo' = todo /\ today' = today + 1
    BY DEF NextDay, table, tick
<1>2. \A w \in Workers : draft'[w] = {} /\ pc'[w] = "idle"
    BY <1>1 DEF NextDay, IInv, TickInv, Idle
<1>3. \A w \in Workers : \A i, d : ~(Deals(w, i, d)')
    BY <1>2 DEF Deals
<1>4. ASSUME NEW i \in Instructions, NEW n \in DOMAIN outcomes[i]
      PROVE  outcomes[i][n].day <= today' /\ outcomes[i][n].day # today'
    <2>1. outcomes[i][n].day <= today
        BY DEF IInv, TickInv, PastDone
    <2>2. outcomes[i] \in Seq([due : Nat, day : Nat]) /\ today \in Nat
        BY DEF IInv, TypeOK
    <2>3. outcomes[i][n] \in [due : Nat, day : Nat]
        BY <2>2, RowTyped
    <2>4. outcomes[i][n].day \in Nat
        BY <2>3
    <2>. QED BY <1>1, <2>1, <2>2, <2>4
<1>5. Idle' /\ Today' /\ DoneHeld' /\ Apart'
    BY <1>2, <1>3 DEF Idle, Today, DoneHeld, Apart
<1>6. PastDone'
    BY <1>1, <1>4 DEF PastDone
<1>7. Once'
    BY <1>1 DEF IInv, TickInv, Once
<1>. QED BY <1>5, <1>6, <1>7 DEF TickInv

\* The committed rows are of today and of what this tick alone dealt with.
LEMMA CommitKeeps == ASSUME IInv, NEW w \in Workers, CommitTick(w) PROVE TickInv'
<1>1. draft'[w] = {} /\ pc'[w] = "idle" /\ todo' = todo /\ keys' = keys /\ today' = today
    BY DEF CommitTick, IInv, TypeOK
<1>2. \A v \in Workers \ {w} : draft'[v] = draft[v] /\ pc'[v] = pc[v]
    BY DEF CommitTick, IInv, TypeOK
<1>3. \A i, d : ~(Deals(w, i, d)')
    BY <1>1 DEF Deals
<1>4. \A v \in Workers : \A i, d : Deals(v, i, d)' => v # w /\ Deals(v, i, d)
    <2>1. ASSUME NEW v \in Workers \ {w}, NEW i, NEW d, Deals(v, i, d)' PROVE Deals(v, i, d)
        BY <1>1, <1>2, <2>1 DEF Deals, IsNext
    <2>. QED BY <1>3, <2>1
<1>5. \A i, d : Held(i, d)' <=> Held(i, d)
    BY <1>1 DEF Held
<1>6. Idle' /\ Today'
    BY <1>1, <1>2 DEF IInv, TickInv, Idle, Today
<1>7. DoneHeld' /\ Apart'
    BY <1>4, <1>5 DEF IInv, TickInv, DoneHeld, Apart
<1>8. ASSUME NEW i \in Instructions, i \in RanBy(w)
      PROVE  RunOf(w, i).day = today /\ Deals(w, i, RunOf(w, i).due)
    BY <1>8, RunOfIsDraft DEF IInv, TickInv, Today, Deals
<1>9. ASSUME NEW i \in Instructions
      PROVE  /\ \A n \in DOMAIN outcomes'[i] :
                    /\ outcomes'[i][n].day <= today
                    /\ \A d : outcomes'[i][n].day = today /\ outcomes'[i][n].due = d =>
                          Held(i, d) /\ \A v \in Workers : ~(Deals(v, i, d)')
             /\ \A m, n \in DOMAIN outcomes'[i] : outcomes'[i][m] = outcomes'[i][n] => m = n
    <2>. DEFINE o == outcomes[i]
    <2>1. o \in Seq([due : Nat, day : Nat]) /\ today \in Nat
        BY DEF IInv, TypeOK
    <2>2. /\ \A n \in DOMAIN o :
                /\ o[n].day <= today
                /\ \A d : o[n].day = today /\ o[n].due = d =>
                      Held(i, d) /\ \A v \in Workers : ~Deals(v, i, d)
          /\ \A m, n \in DOMAIN o : o[m] = o[n] => m = n
        BY DEF IInv, TickInv, PastDone, Once
    <2>3. CASE i \notin RanBy(w)
        <3>1. outcomes'[i] = o
            BY <2>3 DEF CommitTick
        <3>. QED BY <1>4, <2>2, <3>1
    <2>4. CASE i \in RanBy(w)
        <3>. DEFINE row == [due |-> RunOf(w, i).due, day |-> RunOf(w, i).day]
        <3>1. outcomes'[i] = Append(o, row)
            BY <2>4 DEF CommitTick
        <3>2. row.day = today /\ Deals(w, i, row.due)
            BY <1>8, <2>4
        <3>3. ASSUME NEW d, d = row.due
              PROVE  Held(i, d) /\ \A v \in Workers : ~(Deals(v, i, d)')
            BY <1>4, <3>2, <3>3 DEF IInv, TickInv, DoneHeld, Apart
        <3>4. \A n \in DOMAIN o : o[n] # row
            BY <2>2, <3>2
        <3>. HIDE DEF row, o
        <3>5. /\ DOMAIN outcomes'[i] = 1 .. Len(o) + 1 /\ DOMAIN o = 1 .. Len(o) /\ Len(o) \in Nat
              /\ \A n \in 1 .. Len(o) : outcomes'[i][n] = o[n]
              /\ outcomes'[i][Len(o) + 1] = row
            BY <2>1, <3>1
        <3>6. ASSUME NEW n \in DOMAIN outcomes'[i]
              PROVE  n \in DOMAIN o \/ n = Len(o) + 1
            BY <3>5, <3>6
        <3>7. ASSUME NEW n \in DOMAIN outcomes'[i]
              PROVE  /\ outcomes'[i][n].day <= today
                     /\ \A d : outcomes'[i][n].day = today /\ outcomes'[i][n].due = d =>
                           Held(i, d) /\ \A v \in Workers : ~(Deals(v, i, d)')
            <4>1. CASE n \in DOMAIN o
                BY <1>4, <2>2, <3>5, <4>1
            <4>2. CASE n = Len(o) + 1
                BY <2>1, <3>2, <3>3, <3>5, <4>2
            <4>. QED BY <3>6, <4>1, <4>2
        <3>8. ASSUME NEW m \in DOMAIN outcomes'[i], NEW n \in DOMAIN outcomes'[i],
                     outcomes'[i][m] = outcomes'[i][n]
              PROVE  m = n
            BY <2>2, <3>4, <3>5, <3>6, <3>8
        <3>. QED BY <3>7, <3>8
    <2>. QED BY <2>3, <2>4
<1>10. PastDone' /\ Once'
    BY <1>1, <1>5, <1>9 DEF PastDone, Once
<1>. QED BY <1>6, <1>7, <1>10 DEF TickInv

LEMMA Inductive == IInv /\ [Next]_vars => IInv'
<1>. SUFFICES ASSUME IInv, [Next]_vars PROVE IInv'
    OBVIOUS
<1>1. TypeOK'
    BY NextTyped DEF IInv
<1>2. ASSUME NEW c \in Callers, CustomerCall(c) PROVE TickInv'
    <2>1. UNCHANGED <<today, outcomes, keys, tick>>
        BY <1>2 DEF CustomerCall, AskCreate, AskStatus, SaveCreate, SaveStatus, Read, Save, table
    <2>. QED BY <2>1, RequestKeeps DEF IInv
<1>3. ASSUME NEW w \in Workers, RunTick(w) \/ RollBack(w) PROVE TickInv'
    BY <1>3, SelectKeeps, SkipKeeps, AcquireKeeps, RunKeeps, CommitKeeps, RollBackKeeps DEF RunTick
<1>4. CASE UNCHANGED vars
    <2>1. UNCHANGED <<today, outcomes, keys, tick>>
        BY <1>4 DEF vars, table
    <2>2. TickInv'
        BY <2>1, RequestKeeps DEF IInv
    <2>. QED BY <1>1, <2>2 DEF IInv
<1>. QED BY <1>1, <1>2, <1>3, <1>4, MidnightKeeps DEF Next, IInv

LEMMA InitInv == Init => IInv
<1>. SUFFICES ASSUME Init PROVE IInv
    OBVIOUS
<1>1. \A w \in Workers : draft[w] = {} /\ pc[w] = "idle"
    BY DEF Init
<1>2. \A w \in Workers : \A i, d : ~Deals(w, i, d)
    BY <1>1 DEF Deals
<1>3. \A i \in Instructions : DOMAIN outcomes[i] = {}
    BY DEF Init
<1>4. TickInv
    BY <1>1, <1>2, <1>3 DEF TickInv, Idle, Today, DoneHeld, Apart, PastDone, Once
<1>. QED BY <1>4, InitTyped DEF IInv

\* Two ticks never bring the same run to the commit together, and a due date dealt with
\* twice is dealt with on different days: NoSameDayDoublePost for every value of the
\* constants, through _acquire_run_lock's SETNX alone.
THEOREM RunLockWorks == Spec => []NoSameDayDoublePost
<1>1. Spec => []IInv
    BY InitInv, Inductive, PTL DEF Spec
<1>2. IInv => NoSameDayDoublePost
    <2>. SUFFICES ASSUME IInv PROVE NoSameDayDoublePost
        OBVIOUS
    <2>1. ASSUME NEW v \in Workers, NEW w \in Workers, NEW r \in draft[v], NEW q \in draft[w],
                 r.id = q.id, r.due = q.due
          PROVE  v = w
        <3>1. Deals(v, r.id, r.due) /\ Deals(w, r.id, r.due)
            BY <2>1 DEF Deals
        <3>. QED BY <3>1 DEF IInv, TickInv, Apart
    <2>. QED BY <2>1 DEF NoSameDayDoublePost, IInv, TickInv, Once
<1>. QED BY <1>1, <1>2, PTL
=============================================================================
