--------------------------- MODULE Recursion_proofs ---------------------------
(***************************************************************************)
(* Loops over a sequence: the model writes them as recursive functions on  *)
(* the positions.  Induct is induction over the naturals for a set, drawn  *)
(* from their well-foundedness; PrimitiveRecursion says that such a        *)
(* function exists, so that its definition means what it says.             *)
(***************************************************************************)
EXTENDS Integers, WellFoundedInduction, TLAPS

LEMMA Induct ==
    ASSUME NEW S, 0 \in S, \A n \in Nat : n \in S => n + 1 \in S
    PROVE  Nat \subseteq S
<1>. DEFINE R == {ss \in Nat \X Nat : ss[1] < ss[2]}
            U == Nat \ S
<1>1. IsWellFoundedOn(R, Nat)
    BY NatLessThanWellFounded DEF OpToRel
<1>2. SUFFICES ASSUME U # {} PROVE FALSE
    OBVIOUS
<1>3. PICK m \in U : \A k \in U : ~ (<<k, m>> \in R)
    <2>1. U \subseteq Nat
        OBVIOUS
    <2>. HIDE DEF R, U
    <2>. QED BY <1>1, <1>2, <2>1, WFMin
<1>4. m \in Nat /\ m # 0
    OBVIOUS
<1>5. m - 1 \in Nat /\ m - 1 \in U
    BY <1>4
<1>6. <<m - 1, m>> \in R
    BY <1>4, <1>5
<1>. QED BY <1>3, <1>5, <1>6

\* A function on the positions 0 to N, from a value and a step.
Recursion(T, a, N, step) ==
    \E f \in [0 .. N -> T] : f[0] = a /\ \A i \in 1 .. N : f[i] = step[<<i, f[i - 1]>>]

LEMMA PrimitiveRecursion ==
    ASSUME NEW T, NEW a \in T, NEW N \in Nat, NEW step \in [(1 .. N) \X T -> T]
    PROVE  Recursion(T, a, N, step)
<1>. USE DEF Recursion
<1>. DEFINE Upto(n) == Recursion(T, a, n, step)
            S == {n \in Nat : n <= N => Upto(n)}
<1>1. 0 \in S
    <2>1. [i \in 0 .. 0 |-> a] \in [0 .. 0 -> T] /\ [i \in 0 .. 0 |-> a][0] = a /\ 1 .. 0 = {}
        OBVIOUS
    <2>2. Upto(0)
        BY <2>1
    <2>. QED BY <2>2
<1>2. ASSUME NEW n \in Nat, n \in S PROVE n + 1 \in S
    <2>. SUFFICES ASSUME n + 1 <= N PROVE Upto(n + 1)
        OBVIOUS
    <2>1. PICK f \in [0 .. n -> T] : f[0] = a /\ \A i \in 1 .. n : f[i] = step[<<i, f[i - 1]>>]
        BY <1>2
    <2>2. n + 1 \in 1 .. N /\ f[n] \in T
        BY <2>1
    <2>3. PICK v \in T : v = step[<<n + 1, f[n]>>]
        BY <2>2
    <2>. DEFINE g == [i \in 0 .. n + 1 |-> IF i = n + 1 THEN v ELSE f[i]]
    <2>4. g \in [0 .. n + 1 -> T] /\ g[0] = a
        BY <2>1
    <2>5. g[n + 1] = v /\ g[n] = f[n]
        OBVIOUS
    <2>6. ASSUME NEW i \in 1 .. n PROVE g[i] = f[i] /\ g[i - 1] = f[i - 1] /\ i # n + 1
        OBVIOUS
    <2>. HIDE DEF g
    <2>7. ASSUME NEW i \in 1 .. n + 1 PROVE g[i] = step[<<i, g[i - 1]>>]
        <3>1. CASE i = n + 1
            BY <2>3, <2>5, <3>1
        <3>2. CASE i # n + 1
            BY <2>1, <2>6, <3>2
        <3>. QED BY <3>1, <3>2
    <2>. QED BY <2>4, <2>7
<1>3. N \in S
    <2>. HIDE DEF S
    <2>. QED BY <1>1, <1>2, Induct
<1>. QED BY <1>3
=============================================================================
