-------------------------------- MODULE Kyc --------------------------------
(***************************************************************************)
(* The simulated identity check (app/services/kyc.py) and the fields an    *)
(* onboarding thread collects for it (collect_kyc_field and verify_kyc of  *)
(* app/agents/acquisition.py): an Aadhaar number is typed, perhaps with    *)
(* one slip, and kept if its Verhoeff check digit agrees.  What ChatTurns  *)
(* takes as a choice, the verdict, is decided here.                        *)
(***************************************************************************)
EXTENDS Integers, Sequences, SequencesExt

CONSTANTS
    Bodies,         \* numbers without their check digit: sequences of digits
    Length,         \* digits of a whole number
    MaxVerifies     \* bound: verifications

VARIABLES
    own,            \* the applicant's own number
    bag,            \* the fields kept: whether there are a name and a PAN, and the number
    bureau,         \* what the hash of the fields falls on, once they were verified
    verdict,
    verifies

vars == <<own, bag, bureau, verdict, verifies>>

Digits == 0 .. 9

(***************************************************************************)
(* The checksum                                                            *)
(***************************************************************************)

\* _D: the group; _P: a permutation of the digits for each place, modulo 8.
D == << <<0, 1, 2, 3, 4, 5, 6, 7, 8, 9>>, <<1, 2, 3, 4, 0, 6, 7, 8, 9, 5>>,
        <<2, 3, 4, 0, 1, 7, 8, 9, 5, 6>>, <<3, 4, 0, 1, 2, 8, 9, 5, 6, 7>>,
        <<4, 0, 1, 2, 3, 9, 5, 6, 7, 8>>, <<5, 9, 8, 7, 6, 0, 4, 3, 2, 1>>,
        <<6, 5, 9, 8, 7, 1, 0, 4, 3, 2>>, <<7, 6, 5, 9, 8, 2, 1, 0, 4, 3>>,
        <<8, 7, 6, 5, 9, 3, 2, 1, 0, 4>>, <<9, 8, 7, 6, 5, 4, 3, 2, 1, 0>> >>
P == << <<0, 1, 2, 3, 4, 5, 6, 7, 8, 9>>, <<1, 5, 7, 6, 2, 8, 3, 0, 9, 4>>,
        <<5, 8, 0, 9, 1, 6, 7, 4, 3, 2>>, <<8, 9, 1, 6, 0, 4, 3, 5, 2, 7>>,
        <<9, 4, 5, 3, 1, 2, 6, 8, 7, 0>>, <<4, 2, 8, 6, 5, 7, 3, 9, 0, 1>>,
        <<2, 7, 9, 3, 8, 0, 6, 4, 1, 5>>, <<7, 0, 4, 6, 9, 1, 3, 2, 5, 8>> >>
Inv == <<0, 4, 3, 2, 1, 5, 6, 7, 8, 9>>

\* Variant: one digit of the third row is written twice.
PermuteMistyped(place, d) == IF place % 8 = 2 /\ d = 9 THEN 3 ELSE P[(place % 8) + 1][d + 1]

Permute(place, d) == P[(place % 8) + 1][d + 1]

\* The fold of both functions: from the last digit, the first place being shift.
Folded(number, shift) ==
    LET c[n \in 0 .. Len(number)] ==
            IF n = 0 THEN 0
            ELSE D[c[n - 1] + 1][Permute(shift + n - 1, number[Len(number) + 1 - n]) + 1]
    IN  c[Len(number)]

Checksum(number)  == Folded(number, 0)
CheckDigit(body)  == Inv[Folded(body, 1) + 1]

\* validate_aadhaar
ValidAadhaar(number) ==
    Len(number) = Length /\ Head(number) \notin {0, 1} /\ Checksum(number) = 0

(***************************************************************************)
(* What an applicant types                                                 *)
(***************************************************************************)

WrongDigits(number) ==
    {[number EXCEPT ![i] = d] : i \in 1 .. Length, d \in Digits} \ {number}
Swaps(number) ==
    {[number EXCEPT ![i] = number[i + 1], ![i + 1] = number[i]] : i \in 1 .. Length - 1} \ {number}
Cut(number) == {Front(number)}

Init ==
    /\ own \in {Append(body, CheckDigit(body)) : body \in Bodies}
    /\ bag = [named |-> FALSE, aadhaar |-> <<>>]
    /\ bureau = "unasked" /\ verdict = "none" /\ verifies = 0

\* collect_kyc_field: only what is valid is kept, and the verdict is left alone.
CollectAadhaar(number) ==
    /\ bag' = IF ValidAadhaar(number) THEN [bag EXCEPT !.aadhaar = number] ELSE bag
    /\ bureau' = IF bag' = bag THEN bureau ELSE "unasked"
    /\ UNCHANGED <<own, verdict, verifies>>

CollectNameAndPan ==
    /\ ~bag.named
    /\ bag' = [bag EXCEPT !.named = TRUE]
    /\ UNCHANGED <<own, bureau, verdict, verifies>>

(***************************************************************************)
(* verify                                                                  *)
(***************************************************************************)

\* _injection_bucket: equal fields fall into one bucket, however often they are asked.
Buckets == {"clean", "review", "fail"}
Bucket  == IF bureau = "unasked" THEN Buckets ELSE {bureau}

\* name_match_score against the threshold; the model need not name an official name.
NameMatches == {"unasked", "below", "above"}

\* A kept number was valid, and so was the PAN: neither branch of theirs is left.
Verdict(match, bucket) ==
    CASE match = "below"                       -> "needs_review"
      [] match # "below" /\ bucket = "fail"   -> "failed"
      [] match # "below" /\ bucket = "review" -> "needs_review"
      [] OTHER                                 -> "verified"

Verify(match, bucket) ==
    /\ bag.named /\ verifies < MaxVerifies
    /\ bureau' = bucket
    /\ verdict' = Verdict(match, bucket)
    /\ verifies' = verifies + 1
    /\ UNCHANGED <<own, bag>>

Next ==
    \/ \E number \in {own} \cup WrongDigits(own) \cup Swaps(own) \cup Cut(own) :
          CollectAadhaar(number)
    \/ CollectNameAndPan
    \/ \E match \in NameMatches, bucket \in Bucket : Verify(match, bucket)

Spec == Init /\ [][Next]_vars

(***************************************************************************)
(* Properties                                                              *)
(***************************************************************************)

TypeOK ==
    /\ own \in Seq(Digits) /\ Len(own) = Length
    /\ bag.named \in BOOLEAN /\ bag.aadhaar \in Seq(Digits)
    /\ bureau \in Buckets \cup {"unasked"}
    /\ verdict \in {"none", "verified", "needs_review", "failed"}
    /\ verifies \in 0 .. MaxVerifies

\* kyc.py: the check digit is there "so made-up numbers fail".  A number with one wrong
\* or one missing digit is never kept, and the right one is, unless it begins with 0 or 1.
SlipsRefused ==
    /\ bag.aadhaar \notin WrongDigits(own) \cup Cut(own)
    /\ Head(own) \notin {0, 1} => ValidAadhaar(own)

\* Verhoeff's scheme: the permutation of a place is that of the place before it, permuted again.
Standard ==
    [number \in Seq(Digits) |->
        LET row[i \in 0 .. 7] == IF i = 0 THEN [d \in Digits |-> d]
                                 ELSE [d \in Digits |-> P[2][row[i - 1][d] + 1]]
            c[n \in 0 .. Len(number)] ==
                IF n = 0 THEN 0 ELSE D[c[n - 1] + 1][row[(n - 1) % 8][number[Len(number) + 1 - n]] + 1]
        IN  c[Len(number)]]

\* kyc.py: "Verhoeff checksum (the scheme Aadhaar actually uses)".  A number that is kept
\* is valid in that scheme.
AgreesWithVerhoeff == bag.aadhaar # <<>> => Standard[bag.aadhaar] = 0
=============================================================================
