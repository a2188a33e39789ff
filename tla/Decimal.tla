------------------------------- MODULE Decimal -------------------------------
(***************************************************************************)
(* The decimal calculator (lab1: add-mul.S): it reads two numbers with a   *)
(* sign and prints their sum and their product.  A number is an array of   *)
(* digits, the units first; an array byte is an integer here, since no     *)
(* byte ever leaves -20..90 and so none overflows.                         *)
(***************************************************************************)
EXTENDS Integers, SequencesExt

CONSTANTS
    N,          \* digits of an operand (sizeof a - 1, 21 in the program)
    Digits      \* the digits that are typed

ASSUME DecimalAssumption == N \in Nat \ {0} /\ Digits \subseteq 0..9

VARIABLES
    loop,         \* the loop that is running
    a, aneg,
    b, bneg,
    c, cneg,
    i, j, k,    \* the loop variables
    printed     \* the lines printed: a sign and digits

calculator == <<loop, a, aneg, b, bneg, c, cneg, i, j, k, printed>>

\* The numerals that fit into an operand.
Numerals == UNION {[1..n -> Digits] : n \in 1..N}

Zeros == [p \in 0..2 * N |-> 0]

\* copy and pre: the digits of a numeral from the last to the first, the
\* rest of the array zero.
Operand(numeral) ==
    [p \in 0..N |-> IF p < Len(numeral) THEN Reverse(numeral)[p + 1] ELSE 0]

-----------------------------------------------------------------------------
(* add *)

Signed(neg, d) == IF neg THEN -d ELSE d

\* Mutant: a sum of ten is not carried.
MutantCarriedAboveTen(s) ==
    IF s > 10 THEN <<s - 10, 1>> ELSE IF s < 0 THEN <<s + 10, -1>> ELSE <<s, 0>>

\* A digit and what it carries.
Carried(s) ==
    IF s > 9 THEN <<s - 10, 1>> ELSE IF s < 0 THEN <<s + 10, -1>> ELSE <<s, 0>>

AddDigit ==
    /\ loop = "add" /\ i < N
    /\ LET d == Carried(c[i] + Signed(aneg, a[i]) + Signed(bneg, b[i]))
       IN  c' = [c EXCEPT ![i] = d[1], ![i + 1] = @ + d[2]]
    /\ i' = i + 1
    /\ UNCHANGED <<loop, a, aneg, b, bneg, cneg, j, k, printed>>

AddEnds ==
    /\ loop = "add" /\ i = N
    /\ IF c[N] < 0
       THEN /\ loop' = "fix"
            /\ cneg' = TRUE
            /\ c' = [c EXCEPT ![0] = @ - 1]
            /\ i' = 0
       ELSE /\ loop' = "post"
            /\ UNCHANGED <<c, cneg, i>>
    /\ UNCHANGED <<a, aneg, b, bneg, j, k, printed>>

\* add_loop_fix_c: the nines' complement of a digit.  One above nine is
\* reduced, and the next digit is incremented although it has yet to be
\* complemented itself.
FixDigit ==
    /\ loop = "fix" /\ i <= N
    /\ c' = IF 9 - c[i] > 9
            THEN [c EXCEPT ![i] = -@ - 1, ![i + 1] = @ + 1]
            ELSE [c EXCEPT ![i] = 9 - @]
    /\ i' = i + 1
    /\ UNCHANGED <<loop, a, aneg, b, bneg, cneg, j, k, printed>>

FixEnds ==
    /\ loop = "fix" /\ i = N + 1
    /\ c' = [c EXCEPT ![N + 1] = 0]
    /\ loop' = "post"
    /\ UNCHANGED <<a, aneg, b, bneg, cneg, i, j, k, printed>>

-----------------------------------------------------------------------------
(* mul *)

MulDigit ==
    /\ loop = "mul" /\ i < N
    /\ c' = [c EXCEPT ![i + j] = @ + a[i] * b[j]]
    /\ k' = i + j
    /\ loop' = "carry"
    /\ UNCHANGED <<a, aneg, b, bneg, cneg, i, j, printed>>

CarryOn ==
    /\ loop = "carry" /\ c[k] > 9
    /\ c' = [c EXCEPT ![k] = @ % 10, ![k + 1] = @ + (c[k] \div 10)]
    /\ k' = k + 1
    /\ UNCHANGED <<loop, a, aneg, b, bneg, cneg, i, j, printed>>

CarryEnds ==
    /\ loop = "carry" /\ c[k] <= 9
    /\ loop' = "mul"
    /\ IF j + 1 < N
       THEN j' = j + 1 /\ UNCHANGED i
       ELSE j' = 0 /\ i' = i + 1
    /\ UNCHANGED <<a, aneg, b, bneg, c, cneg, k, printed>>

MulEnds ==
    /\ loop = "mul" /\ i = N
    /\ loop' = "post"
    /\ UNCHANGED <<a, aneg, b, bneg, c, cneg, i, j, k, printed>>

-----------------------------------------------------------------------------
(* post and print *)

\* The most significant digit.
TopDigit == Max({0} \cup {p \in 0..2 * N : c[p] # 0})

Line == [neg |-> cneg /\ ~(TopDigit = 0 /\ c[0] = 0),
         digits |-> [p \in 1..TopDigit + 1 |-> c[TopDigit + 1 - p]]]

\* The sum is printed, the result cleared and the product begun; after the
\* product the program ends.
PostAndPrint ==
    /\ loop = "post"
    /\ printed' = Append(printed, Line)
    /\ IF printed = << >>
       THEN /\ loop' = "mul"
            /\ c' = Zeros
            /\ cneg' = (aneg # bneg)
            /\ i' = 0 /\ j' = 0
       ELSE /\ loop' = "end"
            /\ UNCHANGED <<c, cneg, i, j>>
    /\ UNCHANGED <<a, aneg, b, bneg, k>>

-----------------------------------------------------------------------------

\* main has read the line.
Entered ==
    /\ loop = "add"
    /\ \E x, y \in Numerals : a = Operand(x) /\ b = Operand(y)
    /\ aneg \in BOOLEAN /\ bneg \in BOOLEAN
    /\ c = Zeros /\ cneg = FALSE
    /\ i = 0 /\ j = 0 /\ k = 0
    /\ printed = << >>

Calculates ==
    \/ AddDigit \/ AddEnds \/ FixDigit \/ FixEnds
    \/ MulDigit \/ CarryOn \/ CarryEnds \/ MulEnds
    \/ PostAndPrint

Calculation == Entered /\ [][Calculates]_calculator

-----------------------------------------------------------------------------
(* Properties *)

\* The powers of ten.
Weight[n \in Nat] == IF n = 0 THEN 1 ELSE 10 * Weight[n - 1]

Digit(d, p) == IF p \in DOMAIN d THEN d[p] ELSE 0

\* Upto(d)[n] is the number that the digits of an array below n mean.
Upto(d) ==
    LET upto[n \in Nat] ==
            IF n = 0 THEN 0 ELSE upto[n - 1] + Digit(d, n - 1) * Weight[n - 1]
    IN  upto

A == Signed(aneg, Upto(a)[N])
B == Signed(bneg, Upto(b)[N])

\* A line that is a number in decimals without superfluous zeros.
Shows(line, v) ==
    LET n == Len(line.digits)
    IN  /\ \A p \in 1..n : line.digits[p] \in 0..9
        /\ n = 1 \/ line.digits[1] # 0
        /\ v = Signed(line.neg, Upto([p \in 0..n - 1 |-> line.digits[n - p]])[n])
        /\ v = 0 => ~line.neg

\* A digit below is not zero: when both numbers are negative, it borrows.
Borrows(p) == \E q \in 0..p - 1 : a[q] + b[q] > 0

\* Two digits and what was borrowed below them are more than one ten.
BorrowsTwice(p) == a[p] + b[p] + (IF Borrows(p) THEN 1 ELSE 0) > 10

\* The sums that are printed wrong.
Spoilt ==
    /\ A + B < 0
    /\ \/ (A + B) % 10 = 0
       \/ aneg /\ bneg /\ \E p \in 0..N - 1 : BorrowsTwice(p)

\* The product is always printed right.  The sum is printed right unless it
\* is negative and its last digit is zero, or both numbers are negative and
\* a column of them carries: then the correction of a negative sum, which
\* increments a digit before it complements it, prints another number or no
\* number at all.
PrintsSumAndProduct ==
    /\ printed # << >> => (Shows(printed[1], A + B) <=> ~Spoilt)
    /\ Len(printed) = 2 => Shows(printed[2], A * B)
=============================================================================
