----------------------------- MODULE Moneycents -----------------------------
(***************************************************************************)
(* Package moneycents: the arithmetic of Cents, with the wrap-around and   *)
(* the truncated division of Go on integers of any width.                  *)
(***************************************************************************)
EXTENDS Integers

CONSTANTS
    MaxInt,  \* math.MaxInt64
    Full     \* the basis points of 100 %, 10000 in the code

ASSUME WidthAssumption == MaxInt \in Nat \ {0} /\ Full \in 1..MaxInt

MinInt == -MaxInt - 1

\* type Cents
Cents == MinInt..MaxInt

\* An integer result kept to the width.
wrap(x) == ((x - MinInt) % (2 * (MaxInt + 1))) + MinInt

magnitude(x) == IF x < 0 THEN -x ELSE x

\* Go's / and %: the quotient goes towards zero, the remainder follows the
\* dividend; MinInt / -1 wraps.
trunc(a, b) ==
    LET q == magnitude(a) \div magnitude(b)
    IN  IF (a < 0) = (b < 0) THEN q ELSE -q
quo(a, b) == wrap(trunc(a, b))
\* A mutant: the remainder of a floored division.
remFloor(a, b) == a % b

rem(a, b) == a - b * trunc(a, b)

\* How a call ends.
Returned(x) == [panic |-> FALSE, cents |-> x]
Panicked == [panic |-> TRUE, cents |-> 0]

-----------------------------------------------------------------------------
\* A mutant: no overflow check.
AddUnchecked(c, other) == Returned(wrap(c + other))

Add(c, other) ==
    LET result == wrap(c + other)
    IN  IF \/ c > 0 /\ other > 0 /\ result < 0
           \/ c < 0 /\ other < 0 /\ result > 0
        THEN Panicked ELSE Returned(result)

\* A mutant: the overflow check of Add.
SubAsAdd(c, other) ==
    LET result == wrap(c - other)
    IN  IF \/ c > 0 /\ other > 0 /\ result < 0
           \/ c < 0 /\ other < 0 /\ result > 0
        THEN Panicked ELSE Returned(result)

Sub(c, other) ==
    LET result == wrap(c - other)
    IN  IF \/ c > 0 /\ other < 0 /\ result < 0
           \/ c < 0 /\ other > 0 /\ result > 0
        THEN Panicked ELSE Returned(result)

\* A product that dividing back does not undo has overflowed.
MulInt(c, n) ==
    LET result == wrap(c * n)
    IN  IF c = 0 \/ n = 0 THEN Returned(0)
        ELSE IF quo(result, n) # c THEN Panicked
        ELSE Returned(result)

\* The quotient of the division among n, n # 0, and what is left over.
Quotient(c, n) == quo(c, n)
Remainder(c, n) == rem(c, n)

DivInt(c, n) == IF n = 0 THEN Panicked ELSE Returned(Quotient(c, n))

\* A mutant: rounded half up.
MulPercentRounded(c, bps) ==
    LET result == wrap(c * bps)
    IN  IF c = 0 \/ bps = 0 THEN Returned(0)
        ELSE IF quo(result, bps) # c THEN Panicked
        ELSE Returned(quo(result + (Full \div 2), Full))

\* The product by bps is checked for overflow even when the percentage fits.
MulPercent(c, bps) ==
    LET result == wrap(c * bps)
    IN  IF c = 0 \/ bps = 0 THEN Returned(0)
        ELSE IF quo(result, bps) # c THEN Panicked
        ELSE Returned(quo(result, Full))

\* Saturated at MinInt.
Abs(c) ==
    IF c = MinInt THEN Returned(MaxInt)
    ELSE IF c < 0 THEN Returned(-c)
    ELSE Returned(c)

Negate(c) == IF c = MinInt THEN Returned(MaxInt) ELSE Returned(-c)
=============================================================================
