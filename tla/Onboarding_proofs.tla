-------------------------- MODULE Onboarding_proofs --------------------------
(***************************************************************************)
(* Safety theorems about what an applicant is asked and offered: the       *)
(* identity check, for numbers of any length, and the products, for any    *)
(* catalog, profile and answers of the language model.                     *)
(*                                                                         *)
(* Both rest on loops over a sequence, which the model writes as recursive *)
(* functions on the positions (Recursion_proofs).  The last theorem is     *)
(* about the types of all areas of Customer.                               *)
(***************************************************************************)
EXTENDS Customer_proofs, Recursion_proofs

-----------------------------------------------------------------------------
(* The identity check                                                      *)

\* The table _D is the group of the turns and flips of a pentagon.
Wrap(n) == IF n >= 5 THEN n - 5 ELSE IF n < 0 THEN n + 5 ELSE n
Dihedral(a, b) ==
    IF a < 5 THEN IF b < 5 THEN Wrap(a + b) ELSE 5 + Wrap(a + b - 5)
             ELSE IF b < 5 THEN 5 + Wrap(a - 5 - b) ELSE Wrap(a - b)

LEMMA TableIsGroup ==
    ASSUME NEW a \in 0 .. 9, NEW b \in 0 .. 9
    PROVE  Identity!D[a + 1][b + 1] = Dihedral(a, b) /\ Dihedral(a, b) \in 0 .. 9
BY SMTT(60) DEF Identity!D, Dihedral, Wrap

\* Turns add and flips subtract, up to one 5; two of a kind make a turn.
LEMMA Sums ==
    ASSUME NEW a \in 0 .. 9, NEW b \in 0 .. 9, NEW r, r = Dihedral(a, b)
    PROVE  /\ r \in 0 .. 9 /\ (r < 5 <=> (a < 5 <=> b < 5))
           /\ a < 5 => r = a + b \/ r = a + b - 5
           /\ a >= 5 => r = a - b \/ r = a - b + 5
<1>. USE DEF Dihedral, Wrap
<1>1. CASE a < 5 /\ b < 5
    BY <1>1
<1>2. CASE a < 5 /\ b >= 5
    BY <1>2
<1>3. CASE a >= 5 /\ b < 5
    BY <1>3
<1>4. CASE a >= 5 /\ b >= 5
    BY <1>4
<1>. QED BY <1>1, <1>2, <1>3, <1>4

LEMMA Associative ==
    ASSUME NEW a \in 0 .. 9, NEW b \in 0 .. 9, NEW c \in 0 .. 9
    PROVE  Dihedral(a, Dihedral(b, c)) = Dihedral(Dihedral(a, b), c)
<1>. DEFINE l == Dihedral(b, c)
            r == Dihedral(a, b)
            left == Dihedral(a, l)
            right == Dihedral(r, c)
<1>. SUFFICES left = right
    OBVIOUS
<1>. HIDE DEF l, r, left, right
<1>1. /\ l \in 0 .. 9 /\ (l < 5 <=> (b < 5 <=> c < 5))
      /\ b < 5 => l = b + c \/ l = b + c - 5
      /\ b >= 5 => l = b - c \/ l = b - c + 5
    BY Sums DEF l
<1>2. /\ r \in 0 .. 9 /\ (r < 5 <=> (a < 5 <=> b < 5))
      /\ a < 5 => r = a + b \/ r = a + b - 5
      /\ a >= 5 => r = a - b \/ r = a - b + 5
    BY Sums DEF r
<1>3. /\ left \in 0 .. 9 /\ (left < 5 <=> (a < 5 <=> l < 5))
      /\ a < 5 => left = a + l \/ left = a + l - 5
      /\ a >= 5 => left = a - l \/ left = a - l + 5
    BY <1>1, Sums DEF left
<1>4. /\ right \in 0 .. 9 /\ (right < 5 <=> (r < 5 <=> c < 5))
      /\ r < 5 => right = r + c \/ right = r + c - 5
      /\ r >= 5 => right = r - c \/ right = r - c + 5
    BY <1>2, Sums DEF right
<1>5. CASE a < 5 /\ b < 5 /\ c < 5
    BY <1>1, <1>2, <1>3, <1>4, <1>5
<1>6. CASE a >= 5 /\ b < 5 /\ c < 5
    BY <1>1, <1>2, <1>3, <1>4, <1>6
<1>7. CASE a < 5 /\ b >= 5 /\ c < 5
    BY <1>1, <1>2, <1>3, <1>4, <1>7
<1>8. CASE a >= 5 /\ b >= 5 /\ c < 5
    BY <1>1, <1>2, <1>3, <1>4, <1>8
<1>9. CASE a < 5 /\ b < 5 /\ c >= 5
    BY <1>1, <1>2, <1>3, <1>4, <1>9
<1>10. CASE a >= 5 /\ b < 5 /\ c >= 5
    BY <1>1, <1>2, <1>3, <1>4, <1>10
<1>11. CASE a < 5 /\ b >= 5 /\ c >= 5
    BY <1>1, <1>2, <1>3, <1>4, <1>11
<1>12. CASE a >= 5 /\ b >= 5 /\ c >= 5
    BY <1>1, <1>2, <1>3, <1>4, <1>12
<1>. QED BY <1>5, <1>6, <1>7, <1>8, <1>9, <1>10, <1>11, <1>12

LEMMA Unit ==
    ASSUME NEW a \in 0 .. 9
    PROVE  Dihedral(a, 0) = a /\ Dihedral(0, a) = a
BY SMTT(60) DEF Dihedral, Wrap

LEMMA CancelLeft ==
    ASSUME NEW a \in 0 .. 9, NEW b \in 0 .. 9, NEW c \in 0 .. 9, Dihedral(a, b) = Dihedral(a, c)
    PROVE  b = c
BY SMTT(60) DEF Dihedral, Wrap

LEMMA CancelRight ==
    ASSUME NEW a \in 0 .. 9, NEW b \in 0 .. 9, NEW c \in 0 .. 9, Dihedral(a, b) = Dihedral(c, b)
    PROVE  a = c
BY SMTT(60) DEF Dihedral, Wrap

\* _INV holds the inverses.
LEMMA InverseDigit ==
    ASSUME NEW a \in 0 .. 9
    PROVE  Identity!Inv[a + 1] \in 0 .. 9 /\ Dihedral(Identity!Inv[a + 1], a) = 0
BY SMTT(60) DEF Identity!Inv, Dihedral, Wrap

\* Every row of _P is a permutation; the first one changes nothing.
LEMMA RowsPermute ==
    ASSUME NEW place \in Nat, NEW d \in 0 .. 9, NEW e \in 0 .. 9
    PROVE  /\ Identity!Permute(place, d) \in 0 .. 9
           /\ Identity!Permute(place, d) = Identity!Permute(place, e) => d = e
           /\ Identity!Permute(0, d) = d
<1>1. place % 8 \in 0 .. 7
    OBVIOUS
<1>2. ASSUME NEW k \in 0 .. 7
      PROVE  /\ Identity!P[k + 1][d + 1] \in 0 .. 9
             /\ Identity!P[k + 1][d + 1] = Identity!P[k + 1][e + 1] => d = e
    BY SMTT(60) DEF Identity!P
<1>3. Identity!P[1][d + 1] = d
    BY SMTT(60) DEF Identity!P
<1>. QED BY <1>1, <1>2, <1>3 DEF Identity!Permute

\* The partial checksums, from the last digit on.
Partial(c, q, shift) ==
    /\ c \in [0 .. Len(q) -> 0 .. 9] /\ c[0] = 0
    /\ \A n \in 1 .. Len(q) : c[n] = Dihedral(c[n - 1], Identity!Permute(shift + n - 1, q[Len(q) + 1 - n]))

LEMMA FoldedExists ==
    ASSUME NEW q \in Seq(0 .. 9), NEW shift \in Nat
    PROVE  \E c : Partial(c, q, shift) /\ Identity!Folded(q, shift) = c[Len(q)]
<1>. DEFINE N == Len(q)
            Digit(n) == Identity!Permute(shift + n - 1, q[N + 1 - n])
            step == [x \in (1 .. N) \X (0 .. 9) |-> Identity!D[x[2] + 1][Digit(x[1]) + 1]]
            Eq(c) == c = [n \in 0 .. N |-> IF n = 0 THEN 0 ELSE Identity!D[c[n - 1] + 1][Digit(n) + 1]]
            c == CHOOSE c : Eq(c)
<1>1. \A n \in 1 .. N : Digit(n) \in 0 .. 9
    <2>. SUFFICES ASSUME NEW n \in 1 .. N PROVE Digit(n) \in 0 .. 9
        OBVIOUS
    <2>. DEFINE place == shift + n - 1
                d == q[N + 1 - n]
    <2>1. place \in Nat /\ d \in 0 .. 9
        OBVIOUS
    <2>2. Digit(n) = Identity!Permute(place, d)
        OBVIOUS
    <2>. HIDE DEF place, d, Digit
    <2>. QED BY <2>1, <2>2, RowsPermute
<1>2. step \in [(1 .. N) \X (0 .. 9) -> 0 .. 9]
    <2>. HIDE DEF Digit
    <2>. QED BY <1>1, TableIsGroup
<1>3. Recursion(0 .. 9, 0, N, step)
    <2>1. N \in Nat /\ 0 \in 0 .. 9
        OBVIOUS
    <2>. HIDE DEF N, step
    <2>. QED BY <1>2, <2>1, PrimitiveRecursion
<1>4. PICK f \in [0 .. N -> 0 .. 9] : f[0] = 0 /\ \A i \in 1 .. N : f[i] = Identity!D[f[i - 1] + 1][Digit(i) + 1]
    <2>1. PICK f \in [0 .. N -> 0 .. 9] : f[0] = 0 /\ \A i \in 1 .. N : f[i] = step[<<i, f[i - 1]>>]
        BY <1>3 DEF Recursion
    <2>2. ASSUME NEW i \in 1 .. N PROVE step[<<i, f[i - 1]>>] = Identity!D[f[i - 1] + 1][Digit(i) + 1]
        <3>1. f[i - 1] \in 0 .. 9
            BY <2>1
        <3>. HIDE DEF Digit
        <3>. QED BY <3>1
    <2>. HIDE DEF step, Digit
    <2>. QED BY <2>1, <2>2
<1>5. Eq(f)
    <2>. HIDE DEF Digit
    <2>. QED BY <1>4
<1>6. Eq(c)
    <2>. HIDE DEF Eq
    <2>. QED BY <1>5
<1>7. Identity!Folded(q, shift) = c[N]
    BY DEF Identity!Folded
<1>. HIDE DEF c
<1>8. c[0] = 0 /\ \A n \in 1 .. N : c[n] = Identity!D[c[n - 1] + 1][Digit(n) + 1]
    <2>. HIDE DEF Digit
    <2>. QED BY <1>6
<1>9. c \in [0 .. N -> 0 .. 9]
    <2>. DEFINE S == {n \in Nat : n <= N => c[n] \in 0 .. 9}
    <2>1. 0 \in S
        BY <1>8
    <2>2. ASSUME NEW n \in Nat, n \in S PROVE n + 1 \in S
        <3>. SUFFICES ASSUME n + 1 <= N PROVE c[n + 1] \in 0 .. 9
            OBVIOUS
        <3>1. n + 1 \in 1 .. N /\ c[n] \in 0 .. 9
            BY <2>2
        <3>2. c[n + 1] = Identity!D[c[n] + 1][Digit(n + 1) + 1]
            BY <1>8, <3>1
        <3>3. Digit(n + 1) \in 0 .. 9
            <4>. HIDE DEF Digit
            <4>. QED BY <1>1, <3>1
        <3>4. Identity!D[c[n] + 1][Digit(n + 1) + 1] = Dihedral(c[n], Digit(n + 1))
              /\ Dihedral(c[n], Digit(n + 1)) \in 0 .. 9
            <4>. HIDE DEF Digit
            <4>. QED BY <3>1, <3>3, TableIsGroup
        <3>. HIDE DEF Digit
        <3>. QED BY <3>2, <3>4
    <2>3. \A n \in 0 .. N : n \in S
        <3>1. Nat \subseteq S
            <4>. HIDE DEF S
            <4>. QED BY <2>1, <2>2, Induct
        <3>. HIDE DEF S
        <3>. QED BY <3>1
    <2>4. DOMAIN c = 0 .. N
        BY <1>6
    <2>5. c = [n \in 0 .. N |-> c[n]]
        <3>. HIDE DEF Digit
        <3>. QED BY <1>6, <2>4
    <2>. QED BY <2>3, <2>5
<1>10. Partial(c, q, shift)
    <2>1. \A n \in 1 .. N : c[n - 1] \in 0 .. 9
        BY <1>9
    <2>. QED BY <1>1, <1>8, <1>9, <2>1, TableIsGroup DEF Partial
<1>. QED BY <1>7, <1>10

\* One step of it, with the permuted digit named.
DigitAt(c, q, shift, n) == Identity!Permute(shift + n - 1, q[Len(q) + 1 - n])

LEMMA PartialStep ==
    ASSUME NEW q \in Seq(0 .. 9), NEW shift \in Nat, NEW c, Partial(c, q, shift), NEW n \in 1 .. Len(q)
    PROVE  /\ c[n - 1] \in 0 .. 9 /\ c[n] \in 0 .. 9 /\ DigitAt(c, q, shift, n) \in 0 .. 9
           /\ c[n] = Dihedral(c[n - 1], DigitAt(c, q, shift, n))
<1>. DEFINE place == shift + n - 1
            d == q[Len(q) + 1 - n]
<1>1. place \in Nat /\ d \in 0 .. 9 /\ n \in 0 .. Len(q) /\ n - 1 \in 0 .. Len(q)
    OBVIOUS
<1>2. Identity!Permute(place, d) \in 0 .. 9
    <2>. HIDE DEF place, d
    <2>. QED BY <1>1, RowsPermute
<1>3. DigitAt(c, q, shift, n) = Identity!Permute(place, d)
    BY DEF DigitAt
<1>4. c[n] = Dihedral(c[n - 1], Identity!Permute(place, d))
    BY DEF Partial
<1>5. c[n - 1] \in 0 .. 9 /\ c[n] \in 0 .. 9
    BY <1>1 DEF Partial
<1>. HIDE DEF place, d
<1>. QED BY <1>2, <1>3, <1>4, <1>5

\* A wrong digit changes the checksum: the places before it agree, its own and all that
\* follow differ, as the table cancels on both sides.
LEMMA WrongDigit ==
    ASSUME NEW q \in Seq(0 .. 9), NEW i \in 1 .. Len(q), NEW d \in 0 .. 9, d # q[i]
    PROVE  Identity!Folded([q EXCEPT ![i] = d], 0) # Identity!Folded(q, 0)
<1>. DEFINE N == Len(q)
            r == [q EXCEPT ![i] = d]
            j == N + 1 - i
<1>1. /\ N \in Nat /\ j \in 1 .. N /\ r \in Seq(0 .. 9) /\ Len(r) = N /\ r[i] = d
      /\ \A k \in 1 .. N : k # i => r[k] = q[k]
    OBVIOUS
<1>2. PICK c : Partial(c, q, 0) /\ Identity!Folded(q, 0) = c[N]
    BY FoldedExists
<1>3. PICK e : Partial(e, r, 0) /\ Identity!Folded(r, 0) = e[N]
    <2>. HIDE DEF r
    <2>. QED BY <1>1, FoldedExists
<1>. DEFINE qs(n) == DigitAt(c, q, 0, n)
            rs(n) == DigitAt(e, r, 0, n)
<1>4. ASSUME NEW n \in 1 .. N
      PROVE  /\ c[n - 1] \in 0 .. 9 /\ c[n] \in 0 .. 9 /\ qs(n) \in 0 .. 9
             /\ c[n] = Dihedral(c[n - 1], qs(n))
    BY <1>2, PartialStep
<1>5. ASSUME NEW n \in 1 .. N
      PROVE  /\ e[n - 1] \in 0 .. 9 /\ e[n] \in 0 .. 9 /\ rs(n) \in 0 .. 9
             /\ e[n] = Dihedral(e[n - 1], rs(n))
    <2>. HIDE DEF r
    <2>. QED BY <1>1, <1>3, PartialStep
<1>6. \A n \in 1 .. N : n # j => qs(n) = rs(n)
    <2>. SUFFICES ASSUME NEW n \in 1 .. N, n # j PROVE qs(n) = rs(n)
        OBVIOUS
    <2>1. r[N + 1 - n] = q[N + 1 - n]
        <3>1. N + 1 - n \in 1 .. N /\ N + 1 - n # i
            BY <1>1
        <3>. HIDE DEF r, N
        <3>. QED BY <1>1, <3>1
    <2>. HIDE DEF r
    <2>. QED BY <1>1, <2>1 DEF DigitAt
<1>7. qs(j) # rs(j)
    <2>. DEFINE place == 0 + j - 1
                was == q[i]
    <2>1. place \in Nat /\ N + 1 - j = i /\ was \in 0 .. 9 /\ d # was
        OBVIOUS
    <2>2. qs(j) = Identity!Permute(place, was) /\ rs(j) = Identity!Permute(place, d)
        <3>. HIDE DEF r, j
        <3>. QED BY <1>1, <2>1 DEF DigitAt
    <2>. HIDE DEF place, was, qs, rs, j
    <2>. QED BY <2>1, <2>2, RowsPermute
<1>8. c[0] = 0 /\ e[0] = 0
    BY <1>2, <1>3 DEF Partial
<1>. HIDE DEF qs, rs, r, j, N
<1>9. c[j - 1] = e[j - 1]
    <2>. DEFINE S == {n \in Nat : n < j => c[n] = e[n]}
    <2>1. 0 \in S
        BY <1>8
    <2>2. ASSUME NEW n \in Nat, n \in S PROVE n + 1 \in S
        <3>. SUFFICES ASSUME n + 1 < j PROVE c[n + 1] = e[n + 1]
            OBVIOUS
        <3>1. n + 1 \in 1 .. N /\ n + 1 # j /\ c[n] = e[n] /\ (n + 1) - 1 = n
            BY <1>1, <2>2
        <3>2. c[n + 1] = Dihedral(c[n], qs(n + 1)) /\ e[n + 1] = Dihedral(e[n], rs(n + 1))
            BY <1>4, <1>5, <3>1
        <3>. QED BY <1>6, <3>1, <3>2
    <2>3. Nat \subseteq S
        <3>. HIDE DEF S
        <3>. QED BY <2>1, <2>2, Induct
    <2>4. j - 1 \in Nat /\ j - 1 < j
        BY <1>1
    <2>. QED BY <2>3, <2>4
<1>10. c[j] # e[j]
    <2>1. /\ c[j - 1] \in 0 .. 9 /\ qs(j) \in 0 .. 9 /\ c[j] = Dihedral(c[j - 1], qs(j))
          /\ rs(j) \in 0 .. 9 /\ e[j] = Dihedral(e[j - 1], rs(j))
        BY <1>1, <1>4, <1>5
    <2>. QED BY <1>7, <1>9, <2>1, CancelLeft
<1>11. c[N] # e[N]
    <2>. DEFINE S == {n \in Nat : j + n <= N => c[j + n] # e[j + n]}
    <2>1. 0 \in S
        BY <1>1, <1>10
    <2>2. ASSUME NEW n \in Nat, n \in S PROVE n + 1 \in S
        <3>. DEFINE k == j + n + 1
        <3>. SUFFICES ASSUME k <= N PROVE c[k] # e[k]
            <4>1. j + (n + 1) = k
                BY <1>1
            <4>. HIDE DEF k
            <4>. QED BY <4>1
        <3>1. k \in 1 .. N /\ k # j /\ k - 1 = j + n /\ j + n <= N
            BY <1>1
        <3>2. c[k - 1] # e[k - 1]
            BY <2>2, <3>1
        <3>. HIDE DEF k
        <3>3. /\ c[k - 1] \in 0 .. 9 /\ qs(k) \in 0 .. 9 /\ c[k] = Dihedral(c[k - 1], qs(k))
              /\ e[k - 1] \in 0 .. 9 /\ e[k] = Dihedral(e[k - 1], rs(k)) /\ qs(k) = rs(k)
            BY <1>4, <1>5, <1>6, <3>1
        <3>. QED BY <3>2, <3>3, CancelRight
    <2>3. Nat \subseteq S
        <3>. HIDE DEF S
        <3>. QED BY <2>1, <2>2, Induct
    <2>4. N - j \in Nat /\ j + (N - j) = N
        BY <1>1
    <2>. QED BY <1>1, <2>3, <2>4
<1>. QED BY <1>2, <1>3, <1>11 DEF r

\* The check digit makes the checksum of the whole number zero.
LEMMA CheckDigitWorks ==
    ASSUME NEW b \in Seq(0 .. 9)
    PROVE  /\ Append(b, Identity!CheckDigit(b)) \in Seq(0 .. 9)
           /\ Identity!Checksum(Append(b, Identity!CheckDigit(b))) = 0
<1>. DEFINE N == Len(b)
            x == Identity!CheckDigit(b)
            w == Append(b, x)
<1>1. PICK c : Partial(c, b, 1) /\ Identity!Folded(b, 1) = c[N]
    BY FoldedExists
<1>2. N \in Nat /\ c[N] \in 0 .. 9 /\ c[0] = 0
    BY <1>1 DEF Partial
<1>3. x \in 0 .. 9 /\ Dihedral(x, c[N]) = 0
    <2>1. x = Identity!Inv[c[N] + 1]
        BY <1>1 DEF Identity!CheckDigit
    <2>. HIDE DEF x
    <2>. QED BY <1>2, <2>1, InverseDigit
<1>. HIDE DEF x
<1>4. w \in Seq(0 .. 9) /\ Len(w) = N + 1 /\ w[N + 1] = x /\ \A k \in 1 .. N : w[k] = b[k]
    BY <1>3
<1>. HIDE DEF w
<1>5. PICK e : Partial(e, w, 0) /\ Identity!Folded(w, 0) = e[N + 1]
    BY <1>4, FoldedExists
<1>6. e[1] = x
    <2>1. 1 \in 1 .. Len(w) /\ 0 + 1 - 1 = 0 /\ Len(w) + 1 - 1 = N + 1 /\ 1 - 1 = 0
        BY <1>2, <1>4
    <2>2. e[1] = Dihedral(e[0], DigitAt(e, w, 0, 1))
        BY <1>4, <1>5, <2>1, PartialStep
    <2>3. DigitAt(e, w, 0, 1) = x
        <3>1. DigitAt(e, w, 0, 1) = Identity!Permute(0, x)
            BY <1>4, <2>1 DEF DigitAt
        <3>. QED BY <1>3, <3>1, RowsPermute
    <2>4. e[0] = 0
        BY <1>5 DEF Partial
    <2>. QED BY <1>3, <2>2, <2>3, <2>4, Unit
<1>. DEFINE S == {n \in Nat : n <= N => e[n + 1] = Dihedral(x, c[n])}
<1>7. 0 \in S
    BY <1>2, <1>3, <1>6, Unit
<1>8. ASSUME NEW n \in Nat, n \in S PROVE n + 1 \in S
    <2>. SUFFICES ASSUME n + 1 <= N PROVE e[n + 2] = Dihedral(x, c[n + 1])
        <3>1. (n + 1) + 1 = n + 2 /\ n + 1 \in Nat
            OBVIOUS
        <3>. QED BY <3>1
    <2>1. /\ n + 1 \in 1 .. Len(b) /\ n + 2 \in 1 .. Len(w) /\ (n + 1) - 1 = n /\ (n + 2) - 1 = n + 1
          /\ Len(w) + 1 - (n + 2) = N - n /\ Len(b) + 1 - (n + 1) = N - n /\ N - n \in 1 .. N
          /\ 1 + (n + 1) - 1 = n + 1 /\ 0 + (n + 2) - 1 = n + 1
        BY <1>2, <1>4
    <2>2. /\ c[n] \in 0 .. 9 /\ DigitAt(c, b, 1, n + 1) \in 0 .. 9
          /\ c[n + 1] = Dihedral(c[n], DigitAt(c, b, 1, n + 1))
        BY <1>1, <2>1, PartialStep
    <2>3. e[n + 2] = Dihedral(e[n + 1], DigitAt(e, w, 0, n + 2))
        BY <1>4, <1>5, <2>1, PartialStep
    <2>4. DigitAt(e, w, 0, n + 2) = DigitAt(c, b, 1, n + 1)
        BY <1>4, <2>1 DEF DigitAt
    <2>5. e[n + 1] = Dihedral(x, c[n])
        BY <1>8, <2>1
    <2>6. Dihedral(x, Dihedral(c[n], DigitAt(c, b, 1, n + 1))) = Dihedral(Dihedral(x, c[n]), DigitAt(c, b, 1, n + 1))
        <3>. DEFINE u == c[n]
                    v == DigitAt(c, b, 1, n + 1)
        <3>1. x \in 0 .. 9 /\ u \in 0 .. 9 /\ v \in 0 .. 9
            BY <1>3, <2>2
        <3>. HIDE DEF u, v
        <3>2. Dihedral(x, Dihedral(u, v)) = Dihedral(Dihedral(x, u), v)
            BY <3>1, Associative
        <3>. QED BY <3>2 DEF u, v
    <2>. QED BY <2>2, <2>3, <2>4, <2>5, <2>6
<1>9. Nat \subseteq S
    <2>. HIDE DEF S
    <2>. QED BY <1>7, <1>8, Induct
<1>10. e[N + 1] = 0
    BY <1>2, <1>3, <1>9
<1>. QED BY <1>4, <1>5, <1>10 DEF Identity!Checksum, w, x

\* The applicant's own number has its check digit, and what is kept passed the check.
Checked(number) == Len(number) = Length /\ Identity!Checksum(number) = 0
IdentityInv ==
    /\ own \in Seq(0 .. 9) /\ Checked(own)
    /\ bag \in [named : BOOLEAN, aadhaar : Seq(0 .. 9)] /\ (bag.aadhaar = <<>> \/ Checked(bag.aadhaar))

LEMMA IdentityStep == ASSUME IdentityInv, Identity!Next PROVE IdentityInv'
<1>. USE DEF IdentityInv
<1>1. ASSUME NEW number \in {own} \cup Identity!WrongDigits(own) \cup Identity!Swaps(own) \cup Identity!Cut(own),
             Identity!CollectAadhaar(number)
      PROVE  IdentityInv'
    <2>1. number \in Seq(0 .. 9)
        <3>1. Len(own) = Length /\ Length \in Nat \ {0, 1}
            BY CustomerAssumption DEF Checked
        <3>2. CASE number \in Identity!WrongDigits(own)
            <4>1. PICK i \in 1 .. Length, d \in 0 .. 9 : number = [own EXCEPT ![i] = d]
                BY <3>2 DEF Identity!WrongDigits, Identity!Digits
            <4>. QED BY <3>1, <4>1
        <3>3. CASE number \in Identity!Swaps(own)
            <4>1. PICK i \in 1 .. Length - 1 : number = [own EXCEPT ![i] = own[i + 1], ![i + 1] = own[i]]
                BY <3>3 DEF Identity!Swaps
            <4>2. own[i] \in 0 .. 9 /\ own[i + 1] \in 0 .. 9 /\ i \in 1 .. Len(own) /\ i + 1 \in 1 .. Len(own)
                BY <3>1
            <4>. DEFINE half == [own EXCEPT ![i] = own[i + 1]]
            <4>3. half \in Seq(0 .. 9) /\ Len(half) = Len(own)
                BY <4>2
            <4>4. number = [half EXCEPT ![i + 1] = own[i]]
                BY <4>1
            <4>. HIDE DEF half
            <4>. QED BY <4>2, <4>3, <4>4
        <3>4. CASE number \in Identity!Cut(own)
            <4>1. number = SubSeq(own, 1, Length - 1)
                BY <3>1, <3>4 DEF Identity!Cut, Identity!Front
            <4>2. \A k \in 1 .. Length - 1 : own[k] \in 0 .. 9
                BY <3>1
            <4>. QED BY <3>1, <4>1, <4>2
        <3>. QED BY <3>2, <3>3, <3>4
    <2>2. Identity!ValidAadhaar(number) => Checked(number)
        BY DEF Identity!ValidAadhaar, Checked
    <2>3. UNCHANGED own /\ bag' = IF Identity!ValidAadhaar(number) THEN [bag EXCEPT !.aadhaar = number] ELSE bag
        BY <1>1 DEF Identity!CollectAadhaar
    <2>. QED BY <2>1, <2>2, <2>3 DEF Checked
<1>2. CASE Identity!CollectNameAndPan
    BY <1>2 DEF Identity!CollectNameAndPan, Checked
<1>3. ASSUME NEW match, NEW bucket, Identity!Verify(match, bucket) PROVE IdentityInv'
    BY <1>3 DEF Identity!Verify, Checked
<1>. QED BY <1>1, <1>2, <1>3 DEF Identity!Next

LEMMA IdentityAlways == AllSpec => [](area = "identity" => IdentityInv)
<1>1. AllInit => (area = "identity" => IdentityInv)
    <2>. SUFFICES ASSUME Identity!Init PROVE IdentityInv
        BY DEF AllInit
    <2>1. PICK body \in Bodies : own = Append(body, Identity!CheckDigit(body))
        BY DEF Identity!Init
    <2>2. body \in Seq(0 .. 9) /\ Len(body) = Length - 1 /\ Length \in Nat
        BY CustomerAssumption
    <2>3. own \in Seq(0 .. 9) /\ Identity!Checksum(own) = 0
        BY <2>1, <2>2, CheckDigitWorks
    <2>4. Len(own) = Length
        BY <2>1, <2>2
    <2>. QED BY <2>3, <2>4 DEF Identity!Init, IdentityInv, Checked
<1>2. (area = "identity" => IdentityInv) /\ [AllNext]_allVars => (area = "identity" => IdentityInv)'
    <2>. SUFFICES ASSUME area = "identity" => IdentityInv, [AllNext]_allVars, area' = "identity" PROVE IdentityInv'
        OBVIOUS
    <2>1. area = "identity" /\ (Identity!Next \/ UNCHANGED kycVars)
        BY DEF AllNext, allVars
    <2>2. CASE Identity!Next
        BY <2>1, <2>2, IdentityStep
    <2>3. CASE UNCHANGED kycVars
        BY <2>1, <2>3 DEF kycVars, IdentityInv, Checked
    <2>. QED BY <2>1, <2>2, <2>3
<1>. QED BY <1>1, <1>2, PTL DEF AllSpec

\* kyc.py, _verhoeff_checksum: no number with one wrong or one missing digit is ever kept,
\* however long the numbers are, and the applicant's own one passes unless it begins with
\* 0 or 1.
THEOREM SlipsAreRefused == AllSpec => []SlipsRefused
<1>1. ASSUME IdentityInv PROVE Identity!SlipsRefused
    <2>. USE <1>1 DEF IdentityInv
    <2>1. Len(own) = Length /\ Length \in Nat \ {0, 1}
        BY CustomerAssumption DEF Checked
    <2>2. ASSUME bag.aadhaar \in Identity!WrongDigits(own) PROVE FALSE
        <3>1. PICK i \in 1 .. Length, d \in 0 .. 9 : bag.aadhaar = [own EXCEPT ![i] = d] /\ bag.aadhaar # own
            BY <2>2 DEF Identity!WrongDigits, Identity!Digits
        <3>2. d # own[i]
            BY <2>1, <3>1
        <3>3. bag.aadhaar # <<>>
            BY <2>1, <3>1
        <3>4. Identity!Checksum(bag.aadhaar) = 0 /\ Identity!Checksum(own) = 0
            BY <3>3 DEF Checked
        <3>5. i \in 1 .. Len(own) /\ d \in 0 .. 9
            BY <2>1, <3>1
        <3>6. Identity!Folded([own EXCEPT ![i] = d], 0) # Identity!Folded(own, 0)
            BY <3>2, <3>5, WrongDigit
        <3>. QED BY <3>1, <3>4, <3>6 DEF Identity!Checksum
    <2>3. ASSUME bag.aadhaar \in Identity!Cut(own) PROVE FALSE
        <3>1. bag.aadhaar = SubSeq(own, 1, Length - 1)
            BY <2>1, <2>3 DEF Identity!Cut, Identity!Front
        <3>2. Len(bag.aadhaar) = Length - 1
            BY <2>1, <3>1
        <3>3. bag.aadhaar # <<>>
            BY <2>1, <3>2
        <3>. QED BY <2>1, <3>2, <3>3 DEF Checked
    <2>4. Head(own) \notin {0, 1} => Identity!ValidAadhaar(own)
        BY <2>1 DEF Identity!ValidAadhaar, Checked
    <2>. QED BY <2>2, <2>3, <2>4 DEF Identity!SlipsRefused
<1>2. (area = "identity" => IdentityInv) => SlipsRefused
    BY <1>1 DEF SlipsRefused
<1>. QED BY <1>2, IdentityAlways, PTL

-----------------------------------------------------------------------------
(* Products                                                                *)

\* Lists without a repetition.
Lists(S) == {s \in Seq(S) : Shop!IsInjective(s)}

LEMMA Appended ==
    ASSUME NEW S, NEW s \in Lists(S), NEW x \in S \ Shop!ToSet(s)
    PROVE  Append(s, x) \in Lists(S)
<1>1. s \in Seq(S) /\ \A a, b \in 1 .. Len(s) : s[a] = s[b] => a = b
    BY DEF Lists, Shop!IsInjective
<1>2. \A a \in 1 .. Len(s) : s[a] # x
    BY <1>1 DEF Shop!ToSet
<1>. DEFINE l == Append(s, x)
<1>3. /\ l \in Seq(S) /\ DOMAIN l = 1 .. Len(s) + 1 /\ l[Len(s) + 1] = x
      /\ \A a \in 1 .. Len(s) : l[a] = s[a]
    BY <1>1
<1>4. Len(s) \in Nat
    BY <1>1
<1>. HIDE DEF l
<1>5. ASSUME NEW a \in 1 .. Len(s) + 1, NEW b \in 1 .. Len(s) + 1, l[a] = l[b] PROVE a = b
    <2>1. CASE a \in 1 .. Len(s) /\ b \in 1 .. Len(s)
        BY <1>1, <1>3, <1>5, <2>1
    <2>2. CASE a = Len(s) + 1 /\ b \in 1 .. Len(s)
        BY <1>2, <1>3, <1>5, <2>2
    <2>3. CASE b = Len(s) + 1 /\ a \in 1 .. Len(s)
        BY <1>2, <1>3, <1>5, <2>3
    <2>. QED BY <1>4, <2>1, <2>2, <2>3
<1>6. Shop!IsInjective(l)
    BY <1>3, <1>5 DEF Shop!IsInjective
<1>. QED BY <1>3, <1>6 DEF Lists, l

\* _parse_ranked keeps only what is eligible, and that once, whatever the answer names.
LEMMA ParseSound ==
    ASSUME NEW A, NEW answer \in Seq(A), NEW E
    PROVE  Shop!Parse(answer, E) \in Lists(E)
<1>. DEFINE N == Len(answer)
            More(n, s) == IF answer[n] \in E \ Shop!ToSet(s) THEN Append(s, answer[n]) ELSE s
            step == [x \in (1 .. N) \X Lists(E) |-> More(x[1], x[2])]
            Eq(c) == c = [n \in 0 .. N |->
                            IF n = 0 THEN <<>>
                            ELSE IF answer[n] \in E \ Shop!ToSet(c[n - 1]) THEN Append(c[n - 1], answer[n])
                            ELSE c[n - 1]]
            c == CHOOSE c : Eq(c)
<1>1. \A n \in 1 .. N, s \in Lists(E) : More(n, s) \in Lists(E)
    BY Appended
<1>2. step \in [(1 .. N) \X Lists(E) -> Lists(E)]
    <2>. HIDE DEF More
    <2>. QED BY <1>1
<1>3. Recursion(Lists(E), <<>>, N, step)
    <2>1. N \in Nat /\ <<>> \in Lists(E)
        BY DEF Lists, Shop!IsInjective
    <2>. HIDE DEF N, step
    <2>. QED BY <1>2, <2>1, PrimitiveRecursion
<1>4. PICK f \in [0 .. N -> Lists(E)] : f[0] = <<>> /\ \A i \in 1 .. N : f[i] = More(i, f[i - 1])
    <2>1. PICK f \in [0 .. N -> Lists(E)] : f[0] = <<>> /\ \A i \in 1 .. N : f[i] = step[<<i, f[i - 1]>>]
        BY <1>3 DEF Recursion
    <2>2. ASSUME NEW i \in 1 .. N PROVE step[<<i, f[i - 1]>>] = More(i, f[i - 1])
        <3>1. f[i - 1] \in Lists(E)
            BY <2>1
        <3>. HIDE DEF More
        <3>. QED BY <3>1
    <2>. HIDE DEF step, More
    <2>. QED BY <2>1, <2>2
<1>5. Eq(f)
    <2>1. \A n \in 0 .. N : f[n] = IF n = 0 THEN <<>> ELSE More(n, f[n - 1])
        <3>. SUFFICES ASSUME NEW n \in 0 .. N PROVE f[n] = IF n = 0 THEN <<>> ELSE More(n, f[n - 1])
            OBVIOUS
        <3>1. n = 0 \/ n \in 1 .. N
            OBVIOUS
        <3>. HIDE DEF More
        <3>. QED BY <1>4, <3>1
    <2>2. f = [n \in 0 .. N |-> IF n = 0 THEN <<>> ELSE More(n, f[n - 1])]
        <3>. HIDE DEF More
        <3>. QED BY <2>1
    <2>. QED BY <2>2
<1>6. Eq(c)
    <2>. HIDE DEF Eq
    <2>. QED BY <1>5
<1>7. Shop!Parse(answer, E) = c[N]
    BY DEF Shop!Parse
<1>. HIDE DEF c
<1>8. c[0] = <<>> /\ \A n \in 1 .. N : c[n] = More(n, c[n - 1])
    <2>1. c = [n \in 0 .. N |-> IF n = 0 THEN <<>> ELSE More(n, c[n - 1])]
        BY <1>6
    <2>2. N \in Nat
        OBVIOUS
    <2>. HIDE DEF More, N
    <2>. QED BY <2>1, <2>2
<1>. DEFINE S == {n \in Nat : n <= N => c[n] \in Lists(E)}
<1>9. 0 \in S
    <2>1. <<>> \in Lists(E)
        BY DEF Lists, Shop!IsInjective
    <2>. QED BY <1>8, <2>1
<1>10. ASSUME NEW n \in Nat, n \in S PROVE n + 1 \in S
    <2>. SUFFICES ASSUME n + 1 <= N PROVE c[n + 1] \in Lists(E)
        OBVIOUS
    <2>1. n + 1 \in 1 .. N /\ c[n] \in Lists(E) /\ (n + 1) - 1 = n
        BY <1>10
    <2>2. c[n + 1] = More(n + 1, c[n])
        <3>. HIDE DEF More
        <3>. QED BY <1>8, <2>1
    <2>. HIDE DEF More
    <2>. QED BY <1>1, <2>1, <2>2
<1>11. Nat \subseteq S
    <2>. HIDE DEF S
    <2>. QED BY <1>9, <1>10, Induct
<1>. QED BY <1>7, <1>11

\* By score or otherwise, the products of a finite catalog can be listed.
LEMMA ScoredSound ==
    ASSUME NEW E, IsFiniteSet(E)
    PROVE  Shop!Scored(E) \in Lists(E) /\ (Shop!Scored(E) = <<>> => E = {})
<1>. DEFINE n == Cardinality(E)
            s == Shop!Scored(E)
<1>1. n \in Nat
    BY FS_CardinalityType
<1>2. Shop!Cardinality(E) = n
    BY DEF Cardinality, Shop!Cardinality, IsFiniteSet, Shop!IsFiniteSet
<1>3. \E f \in [1 .. n -> E] : Shop!IsInjective(f)
    <2>1. PICK f : f \in Bijection(1 .. n, E)
        BY FS_CardinalityType DEF ExistsBijection
    <2>. QED BY <2>1 DEF Bijection, Injection, IsInjective, Shop!IsInjective
<1>4. s \in [1 .. n -> E] /\ Shop!IsInjective(s)
    BY <1>2, <1>3 DEF Shop!Scored, Shop!SetToSeq
<1>. HIDE DEF s
<1>5. s \in Seq(E)
    BY <1>1, <1>4
<1>6. s = <<>> => n = 0
    BY <1>1, <1>4
<1>. QED BY <1>4, <1>5, <1>6, FS_EmptySet DEF Lists, s

\* A refusal gives one of the reasons.
LEMMA ReasonGiven ==
    ASSUME NEW c \in Shop!Products, ~ Shop!IsEligible(c)
    PROVE  Shop!IneligibilityReason(c) \in {"minIncome", "maxIncome", "minAge", "maxAge", "segment"}
<1>. DEFINE V == Shop!Violated(c)
<1>1. V \subseteq 1 .. 5 /\ V # {}
    BY DEF Shop!Violated, Shop!Tests, Shop!IsEligible
<1>. HIDE DEF V
<1>2. \E x \in V : \A y \in V : x =< y
    <2>1. ASSUME NEW x \in V, \A y \in 1 .. 5 : y < x => y \notin V PROVE \A y \in V : x =< y
        BY <1>1, <2>1
    <2>2. CASE 1 \in V
        BY <2>1, <2>2
    <2>3. CASE 1 \notin V /\ 2 \in V
        BY <2>1, <2>3
    <2>4. CASE 1 \notin V /\ 2 \notin V /\ 3 \in V
        BY <2>1, <2>4
    <2>5. CASE 1 \notin V /\ 2 \notin V /\ 3 \notin V /\ 4 \in V
        BY <2>1, <2>5
    <2>6. CASE 1 \notin V /\ 2 \notin V /\ 3 \notin V /\ 4 \notin V
        <3>1. \A y \in V : y = 5
            BY <1>1, <2>6
        <3>2. 5 \in V
            BY <1>1, <3>1
        <3>. QED BY <3>1, <3>2
    <2>. QED BY <2>2, <2>3, <2>4, <2>5, <2>6
<1>3. Shop!Min(V) \in 1 .. 5
    BY <1>1, <1>2 DEF Shop!Min
<1>. QED BY <1>3 DEF Shop!IneligibilityReason, Shop!Tests, V

\* Nothing that is held is ever given up: what a page was begun with still is when it is
\* shown.
ShopTyped == holdings \in [Shop!Products -> {"none", "offered", "active"}]
ShopInv   == ShopTyped /\ view.held \subseteq Shop!Held /\ Shop!SuggestionsSound

LEMMA HeldStaysHeld ==
    ASSUME ShopTyped, \/ holdings' = holdings
                      \/ \E c \in Shop!Products : holdings' = [holdings EXCEPT ![c] = "offered"]
    PROVE  ShopTyped' /\ Shop!Held \subseteq Shop!Held'
BY DEF ShopTyped, Shop!Held, Shop!Products

\* A step that shows nothing new.
LEMMA NothingShown ==
    ASSUME ShopInv, UNCHANGED <<profile, page, ranked>>, ShopTyped', Shop!Held \subseteq Shop!Held',
           view' = view \/ view'.held \subseteq Shop!Held
    PROVE  ShopInv'
<1>. USE DEF ShopInv
<1>1. \A c : Shop!IsEligible(c)' <=> Shop!IsEligible(c)
    BY DEF Shop!IsEligible, Shop!Violated, Shop!Fails
<1>2. Shop!Eligible({})' = Shop!Eligible({})
    BY <1>1 DEF Shop!Eligible, Shop!Products
<1>3. Shop!SuggestionsSound'
    BY <1>1, <1>2 DEF Shop!SuggestionsSound
<1>. QED BY <1>3

LEMMA AnswersAreSequences ==
    ASSUME NEW answer \in Shop!Answers
    PROVE  answer \in Seq(Shop!Products \cup {NotInCatalog})
<1>1. PICK n \in 0 .. 2 : answer \in [1 .. n -> Shop!Products \cup {NotInCatalog}]
    BY DEF Shop!Answers
<1>. QED BY <1>1

LEMMA EligibleFinite == ASSUME NEW held PROVE IsFiniteSet(Shop!Eligible(held))
BY CustomerAssumption, FS_Subset DEF Shop!Eligible, Shop!Products

LEMMA RankStep == ASSUME ShopInv, Shop!Rank PROVE ShopInv'
<1>. USE DEF ShopInv
<1>. DEFINE E == Shop!Eligible({})
<1>1. PICK answer \in Shop!Answers :
        ranked' = {IF Shop!Parse(answer, E) = <<>> THEN Shop!Scored(E) ELSE Shop!Parse(answer, E)}
    BY DEF Shop!Rank
<1>2. UNCHANGED <<profile, holdings, view, page>>
    BY DEF Shop!Rank
<1>3. \A c : Shop!IsEligible(c)' <=> Shop!IsEligible(c)
    BY <1>2 DEF Shop!IsEligible, Shop!Violated, Shop!Fails
<1>4. E' = E
    BY <1>3 DEF Shop!Eligible, Shop!Products
<1>5. Shop!Parse(answer, E) \in Lists(E) /\ Shop!Scored(E) \in Lists(E) /\ (Shop!Scored(E) = <<>> => E = {})
    <2>1. IsFiniteSet(E)
        BY EligibleFinite
    <2>. HIDE DEF E
    <2>. QED BY <2>1, AnswersAreSequences, ParseSound, ScoredSound
<1>6. ASSUME NEW list \in ranked'
      PROVE  Shop!ToSet(list) \subseteq E /\ Shop!IsInjective(list) /\ (list = <<>> => E = {})
    <2>1. list \in Lists(E) /\ (list = <<>> => E = {})
        BY <1>1, <1>5
    <2>. QED BY <2>1 DEF Lists, Shop!ToSet
<1>7. Shop!Held' = Shop!Held
    BY <1>2 DEF Shop!Held, Shop!Products
<1>8. Shop!SuggestionsSound'
    BY <1>2, <1>3, <1>4, <1>6, <1>7 DEF Shop!SuggestionsSound
<1>. QED BY <1>2, <1>7, <1>8 DEF ShopTyped

\* What a page shows of the products held when it was begun.
LEMMA EntriesSound ==
    ASSUME NEW held \in SUBSET Shop!Held, NEW reasons, NEW c \in Shop!Products
    PROVE  LET e == Shop!Entries(held, reasons)[c] IN
           e # "none" /\ (e \in {"for you", "plain"} => Shop!IsEligible(c)) /\ (e = "held" => c \in Shop!Held)
<1>1. CASE c \in held
    BY <1>1 DEF Shop!Entries
<1>2. CASE c \notin held /\ ~ Shop!IsEligible(c)
    BY <1>2, ReasonGiven DEF Shop!Entries
<1>3. CASE c \notin held /\ Shop!IsEligible(c)
    BY <1>3 DEF Shop!Entries
<1>. QED BY <1>1, <1>2, <1>3

LEMMA ShowStep == ASSUME ShopInv, Shop!Show PROVE ShopInv'
<1>. USE DEF ShopInv
<1>1. \E reasons : page' = Shop!Entries(view.held, reasons)
    BY DEF Shop!Show
<1>2. UNCHANGED <<profile, holdings, ranked>> /\ view' = Shop!NoView
    BY DEF Shop!Show
<1>3. \A c : Shop!IsEligible(c)' <=> Shop!IsEligible(c)
    BY <1>2 DEF Shop!IsEligible, Shop!Violated, Shop!Fails
<1>4. Shop!Eligible({})' = Shop!Eligible({})
    BY <1>3 DEF Shop!Eligible, Shop!Products
<1>5. Shop!Held' = Shop!Held
    BY <1>2 DEF Shop!Held, Shop!Products
<1>6. DOMAIN page' = Shop!Products
    BY <1>1 DEF Shop!Entries
<1>7. ASSUME NEW c \in Shop!Products
      PROVE  /\ page'[c] # "none" /\ (page'[c] \in {"for you", "plain"} => Shop!IsEligible(c))
             /\ (page'[c] = "held" => c \in Shop!Held)
    BY <1>1, EntriesSound
<1>8. Shop!SuggestionsSound'
    BY <1>2, <1>3, <1>4, <1>5, <1>6, <1>7 DEF Shop!SuggestionsSound
<1>. QED BY <1>2, <1>5, <1>8 DEF ShopTyped, Shop!NoView

LEMMA ShopStep == ASSUME ShopInv, Shop!Next PROVE ShopInv'
<1>1. CASE Shop!Rank
    BY <1>1, RankStep
<1>2. CASE Shop!Show
    BY <1>2, ShowStep
<1>3. CASE Shop!Browse
    <2>1. UNCHANGED <<profile, page, ranked, holdings>> /\ view'.held = Shop!Held
        BY <1>3 DEF Shop!Browse
    <2>. QED BY <2>1, HeldStaysHeld, NothingShown DEF ShopInv
<1>4. ASSUME NEW x \in Approvers, Shop!CommitExecution(x) PROVE ShopInv'
    <2>1. UNCHANGED <<profile, page, ranked, view>>
        BY <1>4 DEF Shop!CommitExecution
    <2>2. \/ holdings' = holdings
          \/ \E c \in Shop!Products : holdings' = [holdings EXCEPT ![c] = "offered"]
        BY <1>4 DEF Shop!CommitExecution
    <2>. QED BY <2>1, <2>2, HeldStaysHeld, NothingShown DEF ShopInv
<1>5. ASSUME UNCHANGED <<profile, page, ranked, view, holdings>> PROVE ShopInv'
    BY <1>5, HeldStaysHeld, NothingShown DEF ShopInv
<1>6. CASE Shop!CacheExpires
    BY <1>5, <1>6 DEF Shop!CacheExpires
<1>7. ASSUME NEW r \in Applications, Shop!CommitApply(r) \/ \E c \in Shop!Products : Shop!Apply(r, c)
      PROVE  ShopInv'
    BY <1>5, <1>7 DEF Shop!CommitApply, Shop!Apply
<1>8. ASSUME NEW i \in Shop!Proposals,
             Shop!Offer(i) \/ Shop!Reject(i) \/ \E x \in Approvers : Shop!StartExecution(x, i)
      PROVE  ShopInv'
    BY <1>5, <1>8 DEF Shop!Offer, Shop!Reject, Shop!StartExecution
<1>9. ASSUME NEW x \in Approvers, Shop!SelectHolding(x) \/ Shop!WriteHolding(x) \/ Shop!Abort(x)
      PROVE  ShopInv'
    BY <1>5, <1>9 DEF Shop!SelectHolding, Shop!WriteHolding, Shop!Abort
<1>. QED BY <1>1, <1>2, <1>3, <1>4, <1>6, <1>7, <1>8, <1>9 DEF Shop!Next

LEMMA ShopAlways == AllSpec => [](area = "products" => ShopInv)
<1>1. AllInit => (area = "products" => ShopInv)
    <2>. SUFFICES ASSUME Shop!Init PROVE ShopInv
        BY DEF AllInit
    <2>1. ShopTyped
        BY DEF Shop!Init, ShopTyped, Shop!Products
    <2>2. view.held = {} /\ DOMAIN page = {} /\ ranked = {}
        BY DEF Shop!Init, Shop!NoView, Shop!NoPage
    <2>. QED BY <2>1, <2>2 DEF ShopInv, Shop!SuggestionsSound
<1>2. (area = "products" => ShopInv) /\ [AllNext]_allVars => (area = "products" => ShopInv)'
    <2>. SUFFICES ASSUME area = "products" => ShopInv, [AllNext]_allVars, area' = "products" PROVE ShopInv'
        OBVIOUS
    <2>1. area = "products" /\ (Shop!Next \/ UNCHANGED shopVars)
        BY DEF AllNext, allVars
    <2>2. CASE Shop!Next
        BY <2>1, <2>2, ShopStep
    <2>3. CASE UNCHANGED shopVars
        BY <2>1, <2>3, HeldStaysHeld, NothingShown DEF shopVars, ShopInv
    <2>. QED BY <2>1, <2>2, <2>3
<1>. QED BY <1>1, <1>2, PTL DEF AllSpec

\* products.py, rank_products and _ranked_reasons: whatever the language model answers and
\* however old the page's view of the holdings is, nobody is recommended what the rules
\* refuse, a refusal names its rule, what is shown as held is held, and a prospect's ranking
\* names each product once and is empty only when nothing is allowed.
THEOREM SuggestionsAreSound == AllSpec => []SuggestionsSound
<1>1. (area = "products" => ShopInv) => SuggestionsSound
    BY DEF ShopInv, SuggestionsSound
<1>. QED BY <1>1, ShopAlways, PTL

-----------------------------------------------------------------------------
(* Types of the other parts, as in Customer_proofs                         *)

IdentityRest ==
    /\ bureau \in Identity!Buckets \cup {"unasked"}
    /\ verdict \in {"none", "verified", "needs_review", "failed"}
    /\ verifies \in 0 .. MaxVerifies

LEMMA IdentityRestStep == ASSUME IdentityRest, Identity!Next PROVE IdentityRest'
<1>. USE DEF IdentityRest
<1>1. ASSUME NEW number, Identity!CollectAadhaar(number) PROVE IdentityRest'
    BY <1>1 DEF Identity!CollectAadhaar
<1>2. CASE Identity!CollectNameAndPan
    BY <1>2 DEF Identity!CollectNameAndPan
<1>3. ASSUME NEW match \in Identity!NameMatches, NEW bucket \in Identity!Bucket, Identity!Verify(match, bucket)
      PROVE  IdentityRest'
    <2>1. verifies' \in 0 .. MaxVerifies
        BY <1>3, BoundAssumption DEF Identity!Verify
    <2>2. bureau' \in Identity!Buckets \cup {"unasked"}
        BY <1>3 DEF Identity!Verify, Identity!Bucket, Identity!Buckets
    <2>3. verdict' \in {"verified", "needs_review", "failed"}
        BY <1>3 DEF Identity!Verify, Identity!Verdict
    <2>. QED BY <2>1, <2>2, <2>3
<1>. QED BY <1>1, <1>2, <1>3 DEF Identity!Next

LEMMA IdentityPart == AllSpec => [](area = "identity" => Identity!TypeOK)
<1>1. AllInit => (area = "identity" => IdentityRest)
    BY BoundAssumption DEF AllInit, Identity!Init, IdentityRest
<1>2. (area = "identity" => IdentityRest) /\ [AllNext]_allVars => (area = "identity" => IdentityRest)'
    <2>. SUFFICES ASSUME area = "identity" => IdentityRest, [AllNext]_allVars, area' = "identity"
                  PROVE  IdentityRest'
        OBVIOUS
    <2>1. area = "identity" /\ (Identity!Next \/ UNCHANGED kycVars)
        BY DEF AllNext, allVars
    <2>2. CASE Identity!Next
        BY <2>1, <2>2, IdentityRestStep
    <2>3. CASE UNCHANGED kycVars
        BY <2>1, <2>3 DEF kycVars, IdentityRest
    <2>. QED BY <2>1, <2>2, <2>3
<1>3. (area = "identity" => IdentityInv) /\ (area = "identity" => IdentityRest)
        => (area = "identity" => Identity!TypeOK)
    BY DEF IdentityInv, Checked, IdentityRest, Identity!TypeOK, Identity!Digits
<1>. QED BY <1>1, <1>2, <1>3, IdentityAlways, PTL DEF AllSpec

\* What a proposal, an application and an execution are; an execution is of a proposal
\* that was made, and what is cached was parsed.
OfferCodes == Shop!Products \cup {NotInCatalog}
OfferRow   == [code : OfferCodes, status : {"none", "pending", "executed", "rejected"}]
Executing  == [at : {"idle", "select", "write", "commit", "abort"}, id : Shop!Proposals \cup {NotInCatalog},
               found : BOOLEAN]
Underway(x) == execution[x].id \in Shop!Proposals /\ proposals[execution[x].id].status # "none"

ShopRest ==
    /\ profile \in Profiles /\ attempts \in 0 .. MaxAttempts
    /\ proposals \in [Shop!Proposals -> OfferRow]
    /\ application \in [Applications -> [at : {"idle", "commit"}, code : OfferCodes]]
    /\ execution \in [Approvers -> Executing]
    /\ \A x \in Approvers : execution[x].at # "idle" => Underway(x)
    /\ \A e \in cache : e.reasons \subseteq Shop!Eligible(e.held)

\* A step that neither begins an execution nor fills the cache.
LEMMA ShopRestKept ==
    ASSUME ShopRest, profile' = profile, attempts' = attempts, cache' \subseteq cache,
           proposals' \in [Shop!Proposals -> OfferRow],
           \A i \in Shop!Proposals : proposals[i].status # "none" => proposals'[i].status # "none",
           application' \in [Applications -> [at : {"idle", "commit"}, code : OfferCodes]],
           execution' \in [Approvers -> Executing],
           \A x \in Approvers : execution'[x].at # "idle" =>
               execution[x].at # "idle" /\ execution'[x].id = execution[x].id
    PROVE  ShopRest'
<1>. USE DEF ShopRest
<1>1. \A c : Shop!IsEligible(c)' <=> Shop!IsEligible(c)
    BY DEF Shop!IsEligible, Shop!Violated, Shop!Fails
<1>2. \A held : Shop!Eligible(held)' = Shop!Eligible(held)
    BY <1>1 DEF Shop!Eligible, Shop!Products
<1>3. \A x \in Approvers : execution'[x].at # "idle" => Underway(x)'
    BY DEF Underway
<1>4. \A e \in cache' : e.reasons \subseteq Shop!Eligible(e.held)'
    BY <1>2
<1>. QED BY <1>3, <1>4 DEF Shop!Proposals, OfferRow, OfferCodes, Executing, Shop!Products

LEMMA ShopShowRest == ASSUME ShopRest, Shop!Show PROVE ShopRest'
<1>. USE DEF ShopRest
<1>. DEFINE E == Shop!Eligible(view.held)
<1>1. /\ UNCHANGED <<profile, attempts, proposals, application, execution>>
      /\ \/ cache' = cache
         \/ \E answer \in Shop!Answers :
              cache' = cache \cup {[held |-> view.held, reasons |-> Shop!ToSet(Shop!Parse(answer, E))]}
    BY DEF Shop!Show
<1>2. \A c : Shop!IsEligible(c)' <=> Shop!IsEligible(c)
    BY <1>1 DEF Shop!IsEligible, Shop!Violated, Shop!Fails
<1>3. \A held : Shop!Eligible(held)' = Shop!Eligible(held)
    BY <1>2 DEF Shop!Eligible, Shop!Products
<1>4. ASSUME NEW answer \in Shop!Answers PROVE Shop!ToSet(Shop!Parse(answer, E)) \subseteq E
    <2>. HIDE DEF E
    <2>1. Shop!Parse(answer, E) \in Lists(E)
        BY AnswersAreSequences, ParseSound
    <2>2. Shop!Parse(answer, E) \in Seq(E)
        BY <2>1 DEF Lists
    <2>. QED BY <2>2 DEF Shop!ToSet
<1>5. \A e \in cache' : e.reasons \subseteq Shop!Eligible(e.held)
    <2>. HIDE DEF E
    <2>1. CASE cache' = cache
        BY <2>1
    <2>2. ASSUME NEW answer \in Shop!Answers,
                 cache' = cache \cup {[held |-> view.held, reasons |-> Shop!ToSet(Shop!Parse(answer, E))]}
          PROVE  \A e \in cache' : e.reasons \subseteq Shop!Eligible(e.held)
        BY <1>4, <2>2 DEF E
    <2>. QED BY <1>1, <2>1, <2>2
<1>6. \A e \in cache' : e.reasons \subseteq Shop!Eligible(e.held)'
    BY <1>3, <1>5
<1>. QED BY <1>1, <1>6 DEF Underway, Shop!Proposals, OfferRow, OfferCodes, Executing, Shop!Products

LEMMA ShopRestStep == ASSUME ShopRest, Shop!Next PROVE ShopRest'
<1>. USE DEF ShopRest
<1>. DEFINE AppRow == [at : {"idle", "commit"}, code : OfferCodes]
<1>0. /\ Shop!Idle \in AppRow /\ Shop!Free \in Executing /\ Shop!Free.at = "idle"
      /\ Applications \subseteq Shop!Proposals /\ Offers \subseteq Shop!Proposals
      /\ Shop!NoOffer.status = "none"
    BY DEF Shop!Idle, Shop!Free, Executing, OfferCodes, Shop!Proposals, Shop!NoOffer
<1>1. \A x \in Approvers : execution[x] \in Executing
    OBVIOUS
<1>2. \A r \in Applications : application[r].code \in OfferCodes
    OBVIOUS
<1>3. CASE Shop!Rank \/ Shop!Browse \/ Shop!CacheExpires
    <2>1. UNCHANGED <<profile, attempts, proposals, application, execution>> /\ cache' \subseteq cache
        BY <1>3 DEF Shop!Rank, Shop!Browse, Shop!CacheExpires
    <2>. QED BY <2>1, ShopRestKept
<1>4. CASE Shop!Show
    BY <1>4, ShopShowRest
<1>5. ASSUME NEW r \in Applications, Shop!CommitApply(r) PROVE ShopRest'
    <2>. DEFINE v == [code |-> application[r].code, status |-> "pending"]
    <2>1. /\ UNCHANGED <<profile, attempts, execution, cache>>
          /\ proposals' = [proposals EXCEPT ![r] = v] \/ proposals' = proposals
          /\ application' = [application EXCEPT ![r] = Shop!Idle]
        BY <1>5 DEF Shop!CommitApply
    <2>2. v \in OfferRow /\ v.status # "none"
        BY <1>2 DEF OfferRow
    <2>. HIDE DEF v
    <2>3. /\ proposals' \in [Shop!Proposals -> OfferRow]
          /\ \A i \in Shop!Proposals : proposals[i].status # "none" => proposals'[i].status # "none"
        BY <1>0, <2>1, <2>2
    <2>4. application' \in [Applications -> AppRow]
        BY <1>0, <2>1
    <2>. QED BY <2>1, <2>3, <2>4, ShopRestKept
<1>6. ASSUME NEW r \in Applications, NEW c \in Shop!Products, Shop!Apply(r, c) PROVE ShopRest'
    <2>1. /\ UNCHANGED <<profile, attempts, execution, cache, proposals>>
          /\ application' = [application EXCEPT ![r] = [at |-> "commit", code |-> c]]
        BY <1>6 DEF Shop!Apply
    <2>2. application' \in [Applications -> AppRow]
        BY <2>1 DEF OfferCodes
    <2>. QED BY <2>1, <2>2, ShopRestKept
<1>7. ASSUME NEW i \in Shop!Proposals, Shop!Offer(i) PROVE ShopRest'
    <2>1. PICK c \in OfferCodes : proposals' = [proposals EXCEPT ![i] = [code |-> c, status |-> "pending"]]
        BY <1>7 DEF Shop!Offer, OfferCodes
    <2>2. UNCHANGED <<profile, attempts, execution, cache, application>>
        BY <1>7 DEF Shop!Offer
    <2>3. [code |-> c, status |-> "pending"] \in OfferRow
        BY DEF OfferRow
    <2>4. /\ proposals' \in [Shop!Proposals -> OfferRow]
          /\ \A j \in Shop!Proposals : proposals[j].status # "none" => proposals'[j].status # "none"
        BY <2>1, <2>3
    <2>. QED BY <2>2, <2>4, ShopRestKept
<1>8. ASSUME NEW i \in Shop!Proposals, NEW st \in {"executed", "rejected"},
             proposals' = [proposals EXCEPT ![i].status = st]
      PROVE  /\ proposals' \in [Shop!Proposals -> OfferRow]
             /\ \A j \in Shop!Proposals : proposals[j].status # "none" => proposals'[j].status # "none"
    <2>1. proposals[i] \in OfferRow
        OBVIOUS
    <2>2. [proposals[i] EXCEPT !.status = st] \in OfferRow /\ [proposals[i] EXCEPT !.status = st].status = st
        BY <2>1 DEF OfferRow
    <2>3. proposals' = [proposals EXCEPT ![i] = [proposals[i] EXCEPT !.status = st]]
        BY <1>8
    <2>. QED BY <2>2, <2>3
<1>9. ASSUME NEW i \in Shop!Proposals, Shop!Reject(i) PROVE ShopRest'
    <2>1. /\ UNCHANGED <<profile, attempts, execution, cache, application>>
          /\ proposals' = [proposals EXCEPT ![i].status = "rejected"]
        BY <1>9 DEF Shop!Reject
    <2>. QED BY <1>8, <2>1, ShopRestKept
<1>10. ASSUME NEW i \in Shop!Proposals, NEW x \in Approvers, Shop!StartExecution(x, i) PROVE ShopRest'
    <2>. DEFINE v == [at |-> "select", id |-> i, found |-> FALSE]
    <2>1. /\ attempts < MaxAttempts /\ attempts' = attempts + 1 /\ proposals[i].status = "pending"
          /\ execution' = [execution EXCEPT ![x] = v]
          /\ UNCHANGED <<profile, proposals, cache, application>>
        BY <1>10 DEF Shop!StartExecution
    <2>2. v \in Executing /\ v.id = i
        BY DEF Executing
    <2>. HIDE DEF v
    <2>3. attempts' \in 0 .. MaxAttempts
        BY <2>1, BoundAssumption
    <2>4. execution' \in [Approvers -> Executing]
        BY <2>1, <2>2
    <2>5. \A y \in Approvers : execution'[y].at # "idle" => Underway(y)'
        <3>. SUFFICES ASSUME NEW y \in Approvers, execution'[y].at # "idle" PROVE Underway(y)'
            OBVIOUS
        <3>1. execution'[y] = IF y = x THEN v ELSE execution[y]
            BY <2>1
        <3>. QED BY <2>1, <2>2, <3>1 DEF Underway, Shop!Proposals
    <2>6. \A e \in cache' : e.reasons \subseteq Shop!Eligible(e.held)'
        <3>1. \A c : Shop!IsEligible(c)' <=> Shop!IsEligible(c)
            BY <2>1 DEF Shop!IsEligible, Shop!Violated, Shop!Fails
        <3>2. \A held : Shop!Eligible(held)' = Shop!Eligible(held)
            BY <3>1 DEF Shop!Eligible, Shop!Products
        <3>. QED BY <2>1, <3>2
    <2>. QED BY <2>1, <2>3, <2>4, <2>5, <2>6 DEF Executing, Shop!Proposals, OfferRow, OfferCodes, Shop!Products
<1>11. ASSUME NEW x \in Approvers, NEW v \in Executing, execution' = [execution EXCEPT ![x] = v],
              v.at = "idle" \/ (execution[x].at # "idle" /\ v.id = execution[x].id)
       PROVE  /\ execution' \in [Approvers -> Executing]
              /\ \A y \in Approvers : execution'[y].at # "idle" =>
                     execution[y].at # "idle" /\ execution'[y].id = execution[y].id
    BY <1>11
<1>12. ASSUME NEW x \in Approvers, Shop!SelectHolding(x) \/ Shop!WriteHolding(x) PROVE ShopRest'
    <2>1. /\ UNCHANGED <<profile, attempts, proposals, application, cache>> /\ execution[x].at # "idle"
          /\ \/ \E at \in {"write", "commit"}, found \in BOOLEAN :
                  execution' = [execution EXCEPT ![x] = [execution[x] EXCEPT !.at = at, !.found = found]]
             \/ \E at \in {"abort", "commit"} : execution' = [execution EXCEPT ![x] = [execution[x] EXCEPT !.at = at]]
        <3>1. CASE Shop!SelectHolding(x)
            <4>1. (Shop!CodeOf(x) \in Shop!Held) \in BOOLEAN
                OBVIOUS
            <4>2. (IF Shop!CodeOf(x) \in Shop!Products THEN "write" ELSE "commit") \in {"write", "commit"}
                OBVIOUS
            <4>3. execution' = [execution EXCEPT ![x] = [execution[x] EXCEPT
                     !.at = IF Shop!CodeOf(x) \in Shop!Products THEN "write" ELSE "commit",
                     !.found = Shop!CodeOf(x) \in Shop!Held]]
                BY <3>1 DEF Shop!SelectHolding
            <4>4. UNCHANGED <<profile, attempts, proposals, application, cache>> /\ execution[x].at # "idle"
                BY <3>1 DEF Shop!SelectHolding
            <4>. QED BY <4>1, <4>2, <4>3, <4>4
        <3>2. CASE Shop!WriteHolding(x)
            BY <3>2 DEF Shop!WriteHolding
        <3>. QED BY <1>12, <3>1, <3>2
    <2>2. \A at \in {"write", "commit", "abort"}, found \in BOOLEAN :
            /\ [execution[x] EXCEPT !.at = at, !.found = found] \in Executing
            /\ [execution[x] EXCEPT !.at = at, !.found = found].id = execution[x].id
            /\ [execution[x] EXCEPT !.at = at] \in Executing
            /\ [execution[x] EXCEPT !.at = at].id = execution[x].id
        BY <1>1 DEF Executing
    <2>3. PICK v \in Executing : execution' = [execution EXCEPT ![x] = v] /\ v.id = execution[x].id
        BY <2>1, <2>2
    <2>4. /\ execution' \in [Approvers -> Executing]
          /\ \A y \in Approvers : execution'[y].at # "idle" =>
                 execution[y].at # "idle" /\ execution'[y].id = execution[y].id
        BY <1>11, <2>1, <2>3
    <2>. QED BY <2>1, <2>4, ShopRestKept
<1>13. ASSUME NEW x \in Approvers, Shop!CommitExecution(x) \/ Shop!Abort(x) PROVE ShopRest'
    <2>1. /\ UNCHANGED <<profile, attempts, application, cache>> /\ execution[x].at # "idle"
          /\ execution' = [execution EXCEPT ![x] = Shop!Free]
          /\ \/ proposals' = proposals
             \/ proposals' = [proposals EXCEPT ![execution[x].id].status = "executed"]
        BY <1>13 DEF Shop!CommitExecution, Shop!Abort
    <2>2. execution[x].id \in Shop!Proposals
        BY <2>1 DEF Underway
    <2>3. /\ execution' \in [Approvers -> Executing]
          /\ \A y \in Approvers : execution'[y].at # "idle" =>
                 execution[y].at # "idle" /\ execution'[y].id = execution[y].id
        BY <1>0, <1>11, <2>1
    <2>4. /\ proposals' \in [Shop!Proposals -> OfferRow]
          /\ \A j \in Shop!Proposals : proposals[j].status # "none" => proposals'[j].status # "none"
        BY <1>8, <2>1, <2>2
    <2>. QED BY <2>1, <2>3, <2>4, ShopRestKept
<1>. QED
    BY <1>3, <1>4, <1>5, <1>6, <1>7, <1>9, <1>10, <1>12, <1>13 DEF Shop!Next

LEMMA ShopPart == AllSpec => [](area = "products" => Shop!TypeOK)
<1>1. AllInit => (area = "products" => ShopRest)
    <2>. SUFFICES ASSUME Shop!Init PROVE ShopRest
        BY DEF AllInit
    <2>1. Shop!NoOffer \in OfferRow /\ Shop!Free \in Executing /\ Shop!Free.at = "idle"
        BY DEF Shop!NoOffer, OfferRow, OfferCodes, Shop!Free, Executing
    <2>2. Shop!Idle \in [at : {"idle", "commit"}, code : OfferCodes]
        BY DEF Shop!Idle, OfferCodes
    <2>. QED BY <2>1, <2>2, BoundAssumption DEF Shop!Init, ShopRest
<1>2. (area = "products" => ShopRest) /\ [AllNext]_allVars => (area = "products" => ShopRest)'
    <2>. SUFFICES ASSUME area = "products" => ShopRest, [AllNext]_allVars, area' = "products"
                  PROVE  ShopRest'
        OBVIOUS
    <2>1. area = "products" /\ (Shop!Next \/ UNCHANGED shopVars)
        BY DEF AllNext, allVars
    <2>2. CASE Shop!Next
        BY <2>1, <2>2, ShopRestStep
    <2>3. CASE UNCHANGED shopVars
        <3>1. UNCHANGED <<profile, attempts, cache, proposals, application, execution>>
            BY <2>3 DEF shopVars
        <3>2. ShopRest
            BY <2>1
        <3>. QED BY <3>1, <3>2, ShopRestKept DEF ShopRest
    <2>. QED BY <2>1, <2>2, <2>3
<1>3. (area = "products" => ShopInv) /\ (area = "products" => ShopRest) => (area = "products" => Shop!TypeOK)
    <2>. SUFFICES ASSUME ShopInv, ShopRest PROVE Shop!TypeOK
        OBVIOUS
    <2>1. \A i \in Shop!Proposals : proposals[i].status \in {"none", "pending", "executed", "rejected"}
        BY DEF ShopRest, OfferRow
    <2>2. \A x \in Approvers : execution[x].at # "idle" => proposals[execution[x].id].status # "none"
        BY DEF ShopRest, Underway
    <2>3. view.held \subseteq Shop!Products
        BY DEF ShopInv, Shop!Held
    <2>. QED BY <2>1, <2>2, <2>3 DEF ShopInv, ShopTyped, ShopRest, Shop!TypeOK
<1>. QED BY <1>1, <1>2, <1>3, ShopAlways, PTL DEF AllSpec

\* Each area keeps to its module's types: signed-in sessions, requests, codes, credentials,
\* counters, turns, numbers, offers and memories (app/core/security.py, app/api/v1/auth.py,
\* app/core/ratelimit.py, app/api/v1/chat.py, app/services/kyc.py, app/services/products.py,
\* app/agents/memory.py), with the counts that bound them: no account is mailed more often
\* than it is asked for, no TTL is on a counter that is gone, what is cached was parsed.
THEOREM CustomersKeepTheirTypes == AllSpec => []TypesOK
<1>1. AllInit => area \in Areas
    BY DEF AllInit
<1>2. area \in Areas /\ [AllNext]_allVars => (area \in Areas)'
    BY DEF AllNext, allVars
<1>3. AllSpec => [](area \in Areas)
    BY <1>1, <1>2, PTL DEF AllSpec
<1>4. AllSpec => []TypeOK
    BY SessionsWithin, SessionsTyped, PTL
<1>. DEFINE Parts ==
        /\ area \in Areas /\ TypeOK /\ Limiter!TypeOK
        /\ area = "signin" => Entry!TypeOK
        /\ area = "passkeys" => Passkey!TypeOK
        /\ area = "chat" => Chat!TypeOK
        /\ area = "identity" => Identity!TypeOK
        /\ area = "products" => Shop!TypeOK
        /\ area = "memory" => Agents!TypeOK
<1>5. AllSpec => []Parts
    BY <1>3, <1>4, LimiterPart, EntryPart, PasskeyPart, ChatPart, IdentityPart, ShopPart, MemoryPart, PTL
<1>6. Parts => TypesOK
    <2>. SUFFICES ASSUME Parts PROVE TypesOK
        OBVIOUS
    <2>1. area \in {"sessions", "signin", "passkeys", "limiter", "chat", "identity", "products", "memory"}
        BY AreasAssumption
    <2>2. CASE area = "sessions"
        BY <2>2 DEF TypesOK
    <2>3. CASE area = "signin"
        BY <2>3 DEF TypesOK
    <2>4. CASE area = "passkeys"
        BY <2>4 DEF TypesOK
    <2>5. CASE area = "limiter"
        BY <2>5 DEF TypesOK
    <2>6. CASE area = "chat"
        BY <2>6 DEF TypesOK
    <2>7. CASE area = "identity"
        BY <2>7 DEF TypesOK
    <2>8. CASE area = "products"
        BY <2>8 DEF TypesOK
    <2>9. CASE area = "memory"
        BY <2>9 DEF TypesOK
    <2>. QED BY <2>1, <2>2, <2>3, <2>4, <2>5, <2>6, <2>7, <2>8, <2>9
<1>. QED BY <1>5, <1>6, PTL

=============================================================================
