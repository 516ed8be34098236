------------------------------ MODULE CentsText ------------------------------
(***************************************************************************)
(* The texts of package moneycents: FromString, String, FormatBR and what  *)
(* JSON and SQL make of them.  A text is a sequence of characters, each    *)
(* one a string; every character the code does not tell apart is "x".      *)
(***************************************************************************)
EXTENDS Moneycents, Texts, SequencesExt

Digits == <<"0", "1", "2", "3", "4", "5", "6", "7", "8", "9">>
Digit == ToSet(Digits)
digitOf == [d \in Digit |-> (CHOOSE i \in 1..10 : Digits[i] = d) - 1]

IsNumeric(s) == ToSet(s) \subseteq Digit

\* The value of a text, or why it has none.
Value(x) == [err |-> "none", cents |-> x]
Failure(e) == [err |-> e, cents |-> 0]

-----------------------------------------------------------------------------
\* Characters before and after the last occurrence of c in s, or the first.
Count(s, c) == Len(Keep(s, {c}))
LastIndex(s, c) == LET P == {i \in DOMAIN s : s[i] = c}
                   IN  IF P = {} THEN 0 ELSE CHOOSE i \in P : \A j \in P : j <= i
FirstIndex(s, c) == CHOOSE i \in DOMAIN s : s[i] = c /\ \A j \in 1..i-1 : s[j] # c

TrimSpace(s) ==
    LET P == {i \in DOMAIN s : s[i] # " "}
    IN  IF P = {} THEN <<>>
        ELSE SubSeq(s, CHOOSE i \in P : \A j \in P : i <= j,
                       CHOOSE i \in P : \A j \in P : j <= i)

\* The number of a text of digits, or Overflow before it outgrows the width.
Overflow == -1
accumulate ==
    [n \in Int |-> [d \in Digit |->
        IF n = Overflow \/ n > (MaxInt - digitOf[d]) \div 10 THEN Overflow
        ELSE n * 10 + digitOf[d]]]
parsePositiveInt64(s) == FoldText(accumulate, 0, s)

\* A mutant: a comma is decimal whatever follows it.
SeparatorsBR(s) ==
    LET decimal == IF LastIndex(s, ",") # 0 THEN ","
                   ELSE IF Count(s, ".") = 1 THEN "." ELSE ""
    IN  [decimal |-> decimal, thousand |-> IF decimal = "." THEN "" ELSE "."]

\* Which character is decimal and which one groups thousands, "" for neither.
Separators(s) ==
    LET lastDot == LastIndex(s, ".")
        lastComma == LastIndex(s, ",")
        Single(c) == IF Count(s, c) > 1 THEN [decimal |-> "", thousand |-> c]
                     ELSE [decimal |-> c, thousand |-> ""]
    IN  CASE lastDot = 0 /\ lastComma = 0 -> [decimal |-> "", thousand |-> ""]
          [] lastDot = 0 /\ lastComma # 0 -> Single(",")
          [] lastDot # 0 /\ lastComma = 0 -> Single(".")
          [] lastComma # 0 /\ lastDot > lastComma ->
                [decimal |-> ".", thousand |-> ","]
          [] lastDot # 0 /\ lastComma > lastDot ->
                [decimal |-> ",", thousand |-> "."]

\* intPart and decPart, once the signs are gone.
Parts(s, sep) ==
    LET t == Keep(s, ToSet(s) \ {sep.thousand})
        i == IF sep.decimal = "" THEN Len(t) + 1 ELSE FirstIndex(t, sep.decimal)
    IN  [int |-> SubSeq(t, 1, i - 1), dec |-> SubSeq(t, i + 1, Len(t))]

\* decPart padded to two places.
decVal(dec) == parsePositiveInt64(dec \o SubSeq(<<"0", "0">>, 1, 2 - Len(dec)))

\* A mutant: the overflow check leaves no room for the cents.
UnsignedNoRoom(int, dec) ==
    LET intVal == parsePositiveInt64(int)
    IN  IF ~IsNumeric(int) \/ ~IsNumeric(dec) THEN Failure("ErrInvalidFormat")
        ELSE IF Len(dec) > 2 THEN Failure("ErrTooManyDecimals")
        ELSE IF intVal = Overflow \/ intVal > MaxInt \div 100
             THEN Failure("ErrOverflow")
        ELSE Value(intVal * 100 + decVal(dec))

Unsigned(int, dec) ==
    LET intVal == parsePositiveInt64(int)
    IN  IF ~IsNumeric(int) \/ ~IsNumeric(dec) THEN Failure("ErrInvalidFormat")
        ELSE IF Len(dec) > 2 THEN Failure("ErrTooManyDecimals")
        ELSE IF intVal = Overflow \/ intVal > (MaxInt - decVal(dec)) \div 100
             THEN Failure("ErrOverflow")
        ELSE Value(intVal * 100 + decVal(dec))

\* The text without its sign.
FromParts(p) == Unsigned(p.int, p.dec)
FromBody(s) ==
    IF s = <<>> THEN Failure("ErrInvalidFormat")
    ELSE FromParts(Parts(s, Separators(s)))

Opposite(v) == IF v.err = "none" THEN Value(-v.cents) ELSE v

FromTrimmed(s) ==
    IF s = <<>> THEN Failure("ErrEmptyString")
    ELSE CASE s[1] = "-" -> Opposite(FromBody(Tail(s)))
           [] s[1] = "+" -> FromBody(Tail(s))
           [] OTHER -> FromBody(s)

FromString(text) == FromTrimmed(TrimSpace(text))

-----------------------------------------------------------------------------
\* The decimal digits of n >= 0, and fmt's %d and %02d.
Decimal[n \in 0..MaxInt + 1] ==
    IF n < 10 THEN <<Digits[n + 1]>>
    ELSE Append(Decimal[n \div 10], Digits[(n % 10) + 1])
FmtInt(n) == IF n < 0 THEN <<"-">> \o Decimal[-n] ELSE Decimal[n]
\* A mutant: cents without their leading zero.
FmtCentsUnpadded(n) == FmtInt(n)

FmtCents(n) == IF 0 <= n /\ n < 10 THEN <<"0">> \o FmtInt(n) ELSE FmtInt(n)

\* A sep before every third digit from the right, the first digit excepted.
GroupedUpTo(s, sep) ==
    LET written[n \in 0..Len(s)] ==
          IF n = 0 THEN <<>>
          ELSE IF n > 1 /\ (Len(s) - n) % 3 = 2
               THEN written[n - 1] \o <<sep, s[n]>>
          ELSE written[n - 1] \o <<s[n]>>
    IN  written
insertThousandSeparator(n, sep) ==
    LET s == FmtInt(wrap(magnitude(n)))
    IN  GroupedUpTo(s, sep)[Len(s)]

\* The absolute value the formats start from, which MinInt leaves negative.
Unsign(c) == IF c < 0 THEN wrap(-c) ELSE c
Minus(c) == IF c < 0 THEN <<"-">> ELSE <<>>

String(c) ==
    Minus(c) \o FmtInt(quo(Unsign(c), 100)) \o <<".">>
             \o FmtCents(rem(Unsign(c), 100))

FormatBR(c) ==
    Minus(c) \o insertThousandSeparator(quo(Unsign(c), 100), ".") \o <<",">>
             \o FmtCents(rem(Unsign(c), 100))

\* A number in JSON, which anyone may write as a string instead.
MarshalJSON(c) == String(c)

Null == <<"null">>
Quote == "\""

\* A mutant: the minus sign is no part of a number.
UnmarshalUnsigned(data) ==
    LET raw == TrimSpace(data)
    IN  IF raw = <<>> THEN Failure("ErrEmptyString")
        ELSE IF raw = Null THEN Value(0)
        ELSE IF raw[1] = Quote THEN FromString(SubSeq(raw, 2, Len(raw) - 1))
        ELSE IF ~(ToSet(raw) \subseteq Digit \cup {"+", "."})
             THEN Failure("ErrInvalidFormat")
        ELSE FromString(raw)

\* null is zero, a string goes to FromString without its quotes and a number as
\* it is.  Scientific notation goes through float64 and is left out.
UnmarshalJSON(data) ==
    LET raw == TrimSpace(data)
    IN  IF raw = <<>> THEN Failure("ErrEmptyString")
        ELSE IF raw = Null THEN Value(0)
        ELSE IF raw[1] = Quote THEN FromString(SubSeq(raw, 2, Len(raw) - 1))
        ELSE IF ~(ToSet(raw) \subseteq Digit \cup {"-", "+", "."})
             THEN Failure("ErrInvalidFormat")
        ELSE FromString(raw)
=============================================================================
