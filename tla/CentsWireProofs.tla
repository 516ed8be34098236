---------------------------- MODULE CentsWireProofs ----------------------------
(***************************************************************************)
(* The texts of amounts, for an int64 of any width, every amount and every *)
(* text: what is typed is read as it is written or not at all, and what    *)
(* String, FormatBR and MarshalJSON write is read back.                    *)
(***************************************************************************)
EXTENDS CentsWire, TextProofs

-----------------------------------------------------------------------------
(* Digits. *)

\* The ten digits, by name.
LEMMA TenDigits ==
  /\ Digits[1] = "0" /\ Digits[2] = "1" /\ Digits[3] = "2" /\ Digits[4] = "3"
  /\ Digits[5] = "4" /\ Digits[6] = "5" /\ Digits[7] = "6" /\ Digits[8] = "7"
  /\ Digits[9] = "8" /\ Digits[10] = "9"
  /\ Digit = {"0", "1", "2", "3", "4", "5", "6", "7", "8", "9"}
<1>1. /\ Digits[1] = "0" /\ Digits[2] = "1" /\ Digits[3] = "2" /\ Digits[4] = "3"
      /\ Digits[5] = "4" /\ Digits[6] = "5" /\ Digits[7] = "6" /\ Digits[8] = "7"
      /\ Digits[9] = "8" /\ Digits[10] = "9"
  BY DEF Digits
<1>2. DOMAIN Digits = 1..10
  BY DEF Digits
<1>3. Digit = {Digits[i] : i \in 1..10}
  BY <1>2 DEF Digit, ToSet
<1> HIDE DEF Digits
<1>4. \A i \in 1..10 : i \in {1, 2, 3, 4, 5, 6, 7, 8, 9, 10}
  OBVIOUS
<1>5. {1, 2, 3, 4, 5, 6, 7, 8, 9, 10} \subseteq 1..10
  OBVIOUS
<1> QED BY <1>1, <1>3, <1>4, <1>5

\* The digit of a number, and the number of a digit.
LEMMA DigitShape ==
  /\ \A n \in 0..9 : Digits[n + 1] \in Digit /\ digitOf[Digits[n + 1]] = n
  /\ \A d \in Digit : digitOf[d] \in 0..9
  /\ \A c \in {"-", "+", ".", ",", " ", "x", Quote, "null", ""} : c \notin Digit
<1>1. ASSUME NEW i \in 1..10, NEW j \in 1..10, Digits[i] = Digits[j]
      PROVE  i = j
  BY <1>1, TenDigits
<1>2. ASSUME NEW i \in 1..10
      PROVE  Digits[i] \in Digit /\ (CHOOSE k \in 1..10 : Digits[k] = Digits[i]) = i
  BY <1>1, TenDigits
<1>3. \A d \in Digit : \E i \in 1..10 : d = Digits[i]
  BY TenDigits
<1>4. \A i \in 1..10 : digitOf[Digits[i]] = i - 1
  BY <1>2 DEF digitOf
<1>5. \A n \in 0..9 : n + 1 \in 1..10
  OBVIOUS
<1>6. \A n \in 0..9 : Digits[n + 1] \in Digit /\ digitOf[Digits[n + 1]] = n
  BY <1>2, <1>4, <1>5
<1>7. \A d \in Digit : digitOf[d] \in 0..9
  BY <1>3, <1>4
<1>8. \A c \in {"-", "+", ".", ",", " ", "x", Quote, "null", ""} : c \notin Digit
  BY TenDigits DEF Quote
<1> QED BY <1>6, <1>7, <1>8

-----------------------------------------------------------------------------
(* The number of a text of digits. *)

\* One digit more: Number.
LEMMA NumberAppend ==
  ASSUME NEW s \in Seq(Digit), NEW d \in Digit, Number(s) \in Int
  PROVE  Number(Append(s, d)) = Number(s) * 10 + digitOf[d]
BY FoldAppend DEF Number

\* One digit more: parsePositiveInt64, which may overflow.
LEMMA ParsedAppend ==
  ASSUME NEW s \in Seq(Digit), NEW d \in Digit, parsePositiveInt64(s) \in Int
  PROVE  LET v == parsePositiveInt64(s)
         IN  parsePositiveInt64(Append(s, d))
                = IF v = Overflow \/ v > (MaxInt - digitOf[d]) \div 10 THEN Overflow
                  ELSE v * 10 + digitOf[d]
<1>1. parsePositiveInt64(Append(s, d)) = accumulate[parsePositiveInt64(s)][d]
  BY FoldAppend DEF parsePositiveInt64
<1> QED BY <1>1 DEF accumulate

\* The number of no digits.
LEMMA NothingRead == Number(<<>>) = 0 /\ parsePositiveInt64(<<>>) = 0
BY FoldEmpty DEF Number, parsePositiveInt64

\* One more digit overflows exactly when the number does.
LEMMA RoomForDigit ==
  ASSUME NEW v \in Nat, NEW d \in 0..9
  PROVE  v > (MaxInt - d) \div 10 <=> v * 10 + d > MaxInt
<1>1. MaxInt \in Nat
  BY WidthAssumption
<1> QED BY <1>1

\* A text of digits is read as its number, unless that does not fit.
LEMMA ReadsNumber ==
  ASSUME NEW s \in Seq(Digit)
  PROVE  /\ Number(s) \in Nat
         /\ parsePositiveInt64(s) = IF Number(s) <= MaxInt THEN Number(s) ELSE Overflow
<1> DEFINE Read(t) == /\ Number(t) \in Nat
                      /\ parsePositiveInt64(t) = IF Number(t) <= MaxInt THEN Number(t)
                                                 ELSE Overflow
           T == {t \in Seq(Digit) : Read(t)}
<1>0. MaxInt \in Nat
  BY WidthAssumption
<1>1. <<>> \in T
  <2>1. <<>> \in Seq(Digit)
    OBVIOUS
  <2> QED BY <1>0, <2>1, NothingRead
<1>2. ASSUME NEW t \in T, NEW c \in Digit
      PROVE  Append(t, c) \in T
  <2> DEFINE n == Number(t)
             v == parsePositiveInt64(t)
             d == digitOf[c]
             u == Append(t, c)
  <2>1. d \in 0..9
    BY DigitShape
  <2>2. t \in Seq(Digit) /\ u \in Seq(Digit)
    OBVIOUS
  <2>3. n \in Nat /\ v = IF n <= MaxInt THEN n ELSE Overflow
    OBVIOUS
  <2>4. v \in Int /\ n \in Int
    BY <1>0, <2>3 DEF Overflow
  <2>5. Number(u) = n * 10 + d
    BY <2>2, <2>4, NumberAppend
  <2>6. parsePositiveInt64(u) = IF v = Overflow \/ v > (MaxInt - d) \div 10 THEN Overflow
                               ELSE v * 10 + d
    BY <2>2, <2>4, ParsedAppend
  <2> HIDE DEF n, v, d, u, T
  <2>7. Number(u) \in Nat
    BY <2>1, <2>3, <2>5
  <2>8. CASE n <= MaxInt
    <3>1. v = n /\ v # Overflow
      BY <2>3, <2>8 DEF Overflow
    <3>2. n > (MaxInt - d) \div 10 <=> n * 10 + d > MaxInt
      BY <2>1, <2>3, RoomForDigit
    <3>3. ~(n * 10 + d > MaxInt) <=> n * 10 + d <= MaxInt
      BY <1>0, <2>1, <2>3
    <3>4. parsePositiveInt64(u) = IF Number(u) <= MaxInt THEN Number(u) ELSE Overflow
      BY <2>5, <2>6, <3>1, <3>2, <3>3, Zenon
    <3> QED BY <2>2, <2>7, <3>4 DEF T, u
  <2>9. CASE ~(n <= MaxInt)
    <3>1. v = Overflow
      BY <2>3, <2>9
    <3>2. ~(n * 10 + d <= MaxInt)
      BY <1>0, <2>1, <2>3, <2>9
    <3>3. parsePositiveInt64(u) = IF Number(u) <= MaxInt THEN Number(u) ELSE Overflow
      BY <2>5, <2>6, <3>1, <3>2, Zenon
    <3> QED BY <2>2, <2>7, <3>3 DEF T, u
  <2> QED BY <2>8, <2>9
<1> HIDE DEF T
<1>3. T = Seq(Digit)
  BY <1>1, <1>2, TextInduction DEF T
<1> QED BY <1>3 DEF T

-----------------------------------------------------------------------------
(* The text of a number. *)

\* Decimal of n, from Decimal of its tenth.
DecimalStep(n, s) ==
    IF n < 10 THEN <<Digits[n + 1]>> ELSE Append(s, Digits[(n % 10) + 1])

DecimalUnfoldsTo(f, k) == f = [n \in 0..k |-> DecimalStep(n, f[n \div 10])]

\* Division by ten.
LEMMA Tenth ==
  ASSUME NEW n \in Nat
  PROVE  /\ n \div 10 \in Nat /\ n % 10 \in 0..9 /\ n = (n \div 10) * 10 + (n % 10)
         /\ n >= 10 => n \div 10 < n /\ n \div 10 >= 1
         /\ n < 100 => n \div 10 < 10
<1> DEFINE q == n \div 10
           r == n % 10
<1>1. q \in Nat /\ r \in 0..9 /\ n = q * 10 + r
  OBVIOUS
<1> HIDE DEF q, r
<1>2. (n >= 10 => q < n /\ q >= 1) /\ (n < 100 => q < 10)
  BY <1>1
<1> QED BY <1>1, <1>2, Zenon DEF q, r

\* A recursive function on 0..k exists, whatever k is.
LEMMA DecimalExists ==
  ASSUME NEW k \in Nat
  PROVE  \E f : DecimalUnfoldsTo(f, k)
<1> DEFINE T == {n \in Nat : \E f : DecimalUnfoldsTo(f, n)}
<1>1. 0 \in T
  <2> DEFINE f == [n \in 0..0 |-> <<Digits[n + 1]>>]
  <2>1. f = [n \in 0..0 |-> DecimalStep(n, f[n \div 10])]
    BY DEF DecimalStep
  <2> QED BY <2>1 DEF DecimalUnfoldsTo
<1>2. ASSUME NEW n \in T
      PROVE  n + 1 \in T
  <2>1. PICK f : f = [m \in 0..n |-> DecimalStep(m, f[m \div 10])]
    BY DEF DecimalUnfoldsTo
  <2> DEFINE g == [m \in 0..n + 1 |-> IF m <= n THEN f[m] ELSE DecimalStep(m, f[m \div 10])]
  <2>2. ASSUME NEW m \in 0..n + 1
        PROVE  g[m] = DecimalStep(m, g[m \div 10])
    <3>1. CASE m < 10
      <4>1. \A s, t : DecimalStep(m, s) = DecimalStep(m, t)
        BY <3>1 DEF DecimalStep
      <4>2. m <= n => f[m] = DecimalStep(m, f[m \div 10])
        BY <2>1
      <4>3. g[m] = IF m <= n THEN f[m] ELSE DecimalStep(m, f[m \div 10])
        OBVIOUS
      <4> HIDE DEF g
      <4> QED BY <4>1, <4>2, <4>3
    <3>2. CASE m >= 10
      <4>1. m \div 10 \in 0..n
        BY <3>2, Tenth
      <4>2. g[m \div 10] = f[m \div 10]
        BY <4>1
      <4>3. m <= n => f[m] = DecimalStep(m, f[m \div 10])
        BY <2>1
      <4>4. g[m] = IF m <= n THEN f[m] ELSE DecimalStep(m, f[m \div 10])
        OBVIOUS
      <4> HIDE DEF g
      <4> QED BY <4>2, <4>3, <4>4
    <3> QED BY <3>1, <3>2
  <2>3. DOMAIN g = 0..n + 1 /\ g = [m \in 0..n + 1 |-> g[m]]
    OBVIOUS
  <2> HIDE DEF g
  <2>4. g = [m \in 0..n + 1 |-> DecimalStep(m, g[m \div 10])]
    BY <2>2, <2>3
  <2>5. \E h : DecimalUnfoldsTo(h, n + 1)
    BY <2>4, Zenon DEF DecimalUnfoldsTo
  <2> QED BY <2>5
<1> HIDE DEF T
<1>3. T = Nat
  BY <1>1, <1>2, Induction DEF T
<1> QED BY <1>3 DEF T

\* So Decimal is what its recursion says.
LEMMA DecimalUnfolds ==
  \A n \in 0..MaxInt + 1 : Decimal[n] = DecimalStep(n, Decimal[n \div 10])
<1>1. MaxInt + 1 \in Nat
  BY WidthAssumption
<1>2. Decimal = CHOOSE f : DecimalUnfoldsTo(f, MaxInt + 1)
  BY DEF Decimal, DecimalStep, DecimalUnfoldsTo
<1>3. DecimalUnfoldsTo(Decimal, MaxInt + 1)
  BY <1>1, <1>2, DecimalExists, Zenon
<1> QED BY <1>3, Zenon DEF DecimalUnfoldsTo

\* What is written is read again, from the first digit to the last.
Legible(n) ==
    /\ Decimal[n] \in Seq(Digit) /\ Len(Decimal[n]) >= 1
    /\ n < 10 => Len(Decimal[n]) = 1
    /\ n >= 10 /\ n < 100 => Len(Decimal[n]) = 2
    /\ Number(Decimal[n]) = n

\* From a tenth of n to n.
LEMMA LegibleStep ==
  ASSUME NEW n \in 0..MaxInt + 1, n >= 10 => Legible(n \div 10)
  PROVE  Legible(n)
<1>1. n \in Nat /\ MaxInt \in Nat
  BY WidthAssumption
<1>2. Decimal[n] = DecimalStep(n, Decimal[n \div 10])
  BY DecimalUnfolds, Zenon
<1>3. CASE n < 10
  <2> DEFINE c == Digits[n + 1]
  <2>1. n \in 0..9
    BY <1>1, <1>3
  <2>2. c \in Digit /\ digitOf[c] = n
    BY <2>1, DigitShape, Zenon
  <2>3. Decimal[n] = <<c>>
    BY <1>2, <1>3, Zenon DEF DecimalStep
  <2> HIDE DEF c
  <2>4. <<c>> = Append(<<>>, c) /\ <<>> \in Seq(Digit) /\ 0 \in Int
    OBVIOUS
  <2>5. Number(<<c>>) = Number(<<>>) * 10 + digitOf[c]
    BY <2>2, <2>4, NothingRead, NumberAppend, Zenon
  <2>6. Number(<<c>>) = n
    BY <1>1, <2>2, <2>5, NothingRead
  <2>7. <<c>> \in Seq(Digit) /\ Len(<<c>>) = 1
    BY <2>2
  <2> QED BY <1>3, <2>3, <2>6, <2>7 DEF Legible
<1>4. CASE n >= 10
  <2> DEFINE m == n \div 10
             r == n % 10
             d == Digits[r + 1]
  <2>1. /\ m \in Nat /\ r \in 0..9 /\ n = m * 10 + r
        /\ m >= 1 /\ (n < 100 => m < 10)
    <3>1. /\ m \in Nat /\ r \in 0..9 /\ n = m * 10 + r
          /\ (n >= 10 => m < n /\ m >= 1) /\ (n < 100 => m < 10)
      BY <1>1, Tenth, Zenon
    <3> QED BY <1>4, <3>1, Zenon
  <2>2. d \in Digit /\ digitOf[d] = r
    BY <2>1, DigitShape, Zenon
  <2>3. ~(n < 10)
    BY <1>1, <1>4
  <2>4. Decimal[n] = Append(Decimal[m], d)
    BY <1>2, <2>3, Zenon DEF DecimalStep
  <2>5. Legible(m)
    BY <1>4
  <2> HIDE DEF d, m, r
  <2> DEFINE t == Decimal[m]
             u == Append(t, d)
  <2>6. t \in Seq(Digit) /\ Len(t) >= 1 /\ (m < 10 => Len(t) = 1) /\ Number(t) = m
    BY <2>5 DEF Legible
  <2> HIDE DEF t
  <2>7. u \in Seq(Digit) /\ Len(u) = Len(t) + 1 /\ Len(t) \in Nat
    BY <2>2, <2>6
  <2>8. Number(u) = Number(t) * 10 + digitOf[d]
    BY <2>1, <2>2, <2>6, NumberAppend, SMTT(30)
  <2> HIDE DEF u
  <2>9. Len(u) >= 1 /\ (n < 100 => Len(u) = 2)
    <3>1. n < 100 => Len(t) = 1
      BY <2>1, <2>6, Zenon
    <3>2. ASSUME NEW k \in Nat, NEW j, k >= 1, j = k + 1
          PROVE  j >= 1 /\ (k = 1 => j = 2)
      BY <3>2
    <3> QED BY <2>6, <2>7, <3>1, <3>2, Zenon
  <2>10. Number(u) = n
    BY <2>1, <2>2, <2>6, <2>8, Zenon
  <2> QED BY <2>3, <2>4, <2>7, <2>9, <2>10 DEF Legible, t, u
<1> QED BY <1>1, <1>3, <1>4

\* Every number of the width is written as the digits it is read from.
LEMMA DecimalLegible == \A n \in 0..MaxInt + 1 : Legible(n)
<1> DEFINE T == {n \in 0..MaxInt + 1 : ~Legible(n)}
<1> SUFFICES ASSUME T # {}
             PROVE  FALSE
  OBVIOUS
<1>1. MaxInt + 1 \in Nat /\ T \in SUBSET Nat
  BY WidthAssumption
<1> HIDE DEF T
<1>2. PICK n \in T : \A m \in T : n <= m
  BY <1>1, Least
<1>3. n \in 0..MaxInt + 1 /\ ~Legible(n) /\ n \in Nat
  BY <1>1 DEF T
<1>4. n >= 10 => Legible(n \div 10)
  <2>1. n >= 10 => n \div 10 \in 0..MaxInt + 1 /\ n \div 10 < n
    BY <1>1, <1>3, Tenth
  <2> QED BY <1>2, <1>3, <2>1 DEF T
<1> QED BY <1>3, <1>4, LegibleStep

-----------------------------------------------------------------------------
(* Its groups of thousands. *)

\* The digits up to the n-th in groups, from those before it.
GroupStep(s, sep, n, t) ==
    IF n = 0 THEN <<>>
    ELSE IF n > 1 /\ (Len(s) - n) % 3 = 2 THEN t \o <<sep, s[n]>>
    ELSE t \o <<s[n]>>

GroupUnfolds(f, s, sep, k) == f = [n \in 0..k |-> GroupStep(s, sep, n, f[n - 1])]

\* That recursion has a solution as well,
LEMMA GroupedExists ==
  ASSUME NEW s, NEW sep, NEW k \in Nat
  PROVE  \E f : GroupUnfolds(f, s, sep, k)
<1> DEFINE T == {n \in Nat : \E f : GroupUnfolds(f, s, sep, n)}
<1>1. 0 \in T
  <2> DEFINE f == [n \in 0..0 |-> <<>>]
  <2>1. f = [n \in 0..0 |-> GroupStep(s, sep, n, f[n - 1])]
    BY DEF GroupStep
  <2> QED BY <2>1 DEF GroupUnfolds
<1>2. ASSUME NEW n \in T
      PROVE  n + 1 \in T
  <2>1. PICK f : f = [m \in 0..n |-> GroupStep(s, sep, m, f[m - 1])]
    BY DEF GroupUnfolds
  <2> DEFINE g == [m \in 0..n + 1 |-> IF m <= n THEN f[m] ELSE GroupStep(s, sep, m, f[n])]
  <2>2. ASSUME NEW m \in 0..n + 1
        PROVE  g[m] = GroupStep(s, sep, m, g[m - 1])
    <3>1. CASE m = 0
      BY <2>1, <3>1 DEF GroupStep
    <3>2. CASE m \in 1..n
      <4>1. g[m] = f[m] /\ g[m - 1] = f[m - 1] /\ m \in 0..n
        BY <3>2
      <4> QED BY <2>1, <4>1
    <3>3. CASE m = n + 1
      BY <3>3
    <3> QED BY <3>1, <3>2, <3>3
  <2>3. DOMAIN g = 0..n + 1 /\ g = [m \in 0..n + 1 |-> g[m]]
    OBVIOUS
  <2> HIDE DEF g
  <2>4. g = [m \in 0..n + 1 |-> GroupStep(s, sep, m, g[m - 1])]
    BY <2>2, <2>3
  <2>5. \E h : GroupUnfolds(h, s, sep, n + 1)
    BY <2>4, Zenon DEF GroupUnfolds
  <2> QED BY <2>5
<1> HIDE DEF T
<1>3. T = Nat
  BY <1>1, <1>2, Induction DEF T
<1> QED BY <1>3 DEF T

\* and GroupedUpTo is one.
LEMMA GroupedUnfolds ==
  ASSUME NEW T, NEW s \in Seq(T), NEW sep
  PROVE  \A n \in 0..Len(s) :
            GroupedUpTo(s, sep)[n] = GroupStep(s, sep, n, GroupedUpTo(s, sep)[n - 1])
<1>1. Len(s) \in Nat
  OBVIOUS
<1>2. GroupedUpTo(s, sep) = CHOOSE f : GroupUnfolds(f, s, sep, Len(s))
  BY DEF GroupedUpTo, GroupStep, GroupUnfolds
<1>3. GroupUnfolds(GroupedUpTo(s, sep), s, sep, Len(s))
  BY <1>1, <1>2, GroupedExists, Zenon
<1> QED BY <1>3, Zenon DEF GroupUnfolds

\* Without the separators a grouped text is what it was.
LEMMA Grouped ==
  ASSUME NEW S, NEW s \in Seq(S), NEW sep, sep \notin S
  PROVE  LET g == GroupedUpTo(s, sep)[Len(s)]
         IN  g \in Seq(S \cup {sep}) /\ Keep(g, S) = s
<1> DEFINE F == GroupedUpTo(s, sep)
           C == S \cup {sep}
           P(k) == k <= Len(s) => F[k] \in Seq(C) /\ Keep(F[k], S) = SubSeq(s, 1, k)
           N == {k \in Nat : P(k)}
<1>1. \A n \in 0..Len(s) : F[n] = GroupStep(s, sep, n, F[n - 1])
  BY GroupedUnfolds, Zenon
<1>2. \A i \in 1..Len(s) : s[i] \in S
  OBVIOUS
<1>3. sep \in C /\ S \subseteq C
  OBVIOUS
<1> HIDE DEF F, C
<1>4. 0 \in N
  <2>1. 0 \in 0..Len(s)
    OBVIOUS
  <2>2. F[0] = <<>>
    BY <1>1, <2>1, Zenon DEF GroupStep
  <2>3. SubSeq(s, 1, 0) = <<>> /\ <<>> \in Seq(C)
    OBVIOUS
  <2>4. P(0)
    BY <2>2, <2>3, KeepEmpty, Zenon
  <2> QED BY <2>4
<1>5. ASSUME NEW k \in N
      PROVE  k + 1 \in N
  <2> SUFFICES ASSUME k + 1 <= Len(s)
               PROVE  P(k + 1)
    OBVIOUS
  <2> DEFINE n == k + 1
             c == s[n]
             t == F[k]
             u == SubSeq(s, 1, k)
  <2>1. /\ n \in 0..Len(s) /\ n # 0 /\ n - 1 = k /\ c \in S /\ c \in C
        /\ t \in Seq(C) /\ Keep(t, S) = u /\ u \in Seq(S)
        /\ SubSeq(s, 1, n) = Append(u, c)
    BY <1>2, <1>3
  <2>2. F[n] = t \o <<sep, c>> \/ F[n] = t \o <<c>>
    <3>1. F[n] = GroupStep(s, sep, n, F[n - 1])
      BY <1>1, <2>1, Zenon
    <3> QED BY <2>1, <3>1, Zenon DEF GroupStep
  <2> HIDE DEF n, c, t, u
  <2>3. ASSUME NEW x \in Seq(C)
        PROVE  Keep(Append(x, c), S) = Append(Keep(x, S), c)
    BY <2>1, KeepAppend
  <2>4. CASE F[n] = t \o <<c>>
    <3>1. F[n] = Append(t, c) /\ Append(t, c) \in Seq(C)
      BY <2>1, <2>4
    <3> QED BY <2>1, <2>3, <3>1 DEF n
  <2>5. CASE F[n] = t \o <<sep, c>>
    <3> DEFINE y == Append(t, sep)
    <3>1. y \in Seq(C) /\ F[n] = Append(y, c) /\ Append(y, c) \in Seq(C)
      BY <1>3, <2>1, <2>5
    <3>2. Keep(y, S) = Keep(t, S)
      BY <1>3, <2>1, KeepAppend
    <3> HIDE DEF y
    <3> QED BY <2>1, <2>3, <3>1, <3>2 DEF n
  <2> QED BY <2>2, <2>4, <2>5
<1> HIDE DEF P
<1>6. N = Nat
  BY <1>4, <1>5, Induction DEF N
<1>7. P(Len(s)) /\ SubSeq(s, 1, Len(s)) = s
  BY <1>6
<1> QED BY <1>7 DEF P, F, C

-----------------------------------------------------------------------------
(* A text around a separator. *)

\* s is g, the character d and h.
Around(s, g, d, h, C) ==
    /\ s \in Seq(C) /\ Len(s) = Len(g) + 1 + Len(h)
    /\ \A i \in 1..Len(g) : s[i] = g[i]
    /\ s[Len(g) + 1] = d
    /\ \A i \in 1..Len(h) : s[Len(g) + 1 + i] = h[i]

\* Such a text, position by position.
LEMMA AroundShape ==
  ASSUME NEW C, NEW g \in Seq(C), NEW d \in C, NEW h \in Seq(C)
  PROVE  Around(g \o <<d>> \o h, g, d, h, C)
<1> DEFINE u == g \o <<d>>
           s == u \o h
<1>1. /\ u \in Seq(C) /\ Len(u) = Len(g) + 1 /\ Len(g) \in Nat /\ u[Len(g) + 1] = d
      /\ \A i \in 1..Len(g) : u[i] = g[i]
  OBVIOUS
<1> HIDE DEF u
<1>2. /\ s \in Seq(C) /\ Len(s) = Len(u) + Len(h) /\ Len(h) \in Nat
      /\ \A i \in 1..Len(u) : s[i] = u[i]
      /\ \A i \in 1..Len(h) : s[Len(u) + i] = h[i]
  BY <1>1
<1> HIDE DEF s
<1> QED BY <1>1, <1>2 DEF Around, s, u

\* The parts of such a text.
LEMMA AroundParts ==
  ASSUME NEW C, NEW g \in Seq(C), NEW d \in C, NEW h \in Seq(C), NEW s,
         Around(s, g, d, h, C)
  PROVE  /\ SubSeq(s, 1, (Len(g) + 1) - 1) = g
         /\ SubSeq(s, (Len(g) + 1) + 1, Len(s)) = h
<1>1. Len(g) \in Nat /\ Len(h) \in Nat
  OBVIOUS
<1>2. s \in Seq(C) /\ Len(s) = Len(g) + 1 + Len(h)
  BY DEF Around
<1> DEFINE u == SubSeq(s, 1, Len(g))
           v == SubSeq(s, Len(g) + 2, Len(s))
<1>3. u \in Seq(C) /\ Len(u) = Len(g) /\ \A i \in 1..Len(g) : u[i] = g[i]
  BY <1>1 DEF Around
<1>4. v \in Seq(C) /\ Len(v) = Len(h) /\ \A i \in 1..Len(h) : v[i] = h[i]
  <2>1. \A i \in Len(g) + 2..Len(s) : s[i] \in C
    BY <1>1, <1>2
  <2>2. Len(v) = Len(h) /\ v \in Seq(C) /\ \A i \in 1..Len(h) : v[i] = s[Len(g) + 1 + i]
    BY <1>1, <1>2, <2>1
  <2> QED BY <1>1, <2>2 DEF Around
<1> HIDE DEF u, v
<1>5. u = g
  BY <1>3
<1>7. v = h
  BY <1>4
<1>6. (Len(g) + 1) - 1 = Len(g) /\ (Len(g) + 1) + 1 = Len(g) + 2
  BY <1>1
<1> QED BY <1>5, <1>6, <1>7, Zenon DEF u, v

\* No character c in s.
Without(s, c) == \A i \in 1..Len(s) : s[i] # c

\* strings.LastIndex of a character that is not there,
LEMMA LastIndexNone ==
  ASSUME NEW C, NEW s \in Seq(C), NEW c, Without(s, c)
  PROVE  LastIndex(s, c) = 0
<1>1. {i \in DOMAIN s : s[i] = c} = {}
  BY DEF Without
<1> QED BY <1>1 DEF LastIndex

\* of one that is,
LEMMA LastIndexSome ==
  ASSUME NEW C, NEW s \in Seq(C), NEW c, ~Without(s, c)
  PROVE  LastIndex(s, c) \in 1..Len(s) /\ s[LastIndex(s, c)] = c
<1> DEFINE P == {i \in DOMAIN s : s[i] = c}
<1>1. P \in SUBSET Nat /\ P # {} /\ Len(s) \in Nat /\ \A n \in P : n <= Len(s)
  BY DEF Without
<1>2. P \subseteq 1..Len(s) /\ \A i \in P : s[i] = c
  OBVIOUS
<1>3. LastIndex(s, c) = CHOOSE i \in P : \A j \in P : j <= i
  BY <1>1 DEF LastIndex
<1> HIDE DEF P
<1>4. \E i \in P : \A j \in P : j <= i
  BY <1>1, Greatest, Zenon
<1>5. LastIndex(s, c) \in P
  BY <1>3, <1>4, Zenon
<1> QED BY <1>2, <1>5

\* and of one at a place after which it does not come again.
LEMMA LastIndexAt ==
  ASSUME NEW C, NEW s \in Seq(C), NEW c, NEW k \in 1..Len(s), s[k] = c,
         \A j \in k + 1..Len(s) : s[j] # c
  PROVE  LastIndex(s, c) = k
<1> DEFINE P == {i \in DOMAIN s : s[i] = c}
<1>1. k \in P /\ \A j \in P : j <= k
  OBVIOUS
<1>2. P \subseteq 1..Len(s)
  OBVIOUS
<1>3. LastIndex(s, c) = CHOOSE i \in P : \A j \in P : j <= i
  BY <1>1 DEF LastIndex
<1> HIDE DEF P
<1>4. \A i \in P : (\A j \in P : j <= i) => i = k
  BY <1>1, <1>2
<1> QED BY <1>1, <1>3, <1>4, Zenon

\* strings.Index likewise.
LEMMA FirstIndexAt ==
  ASSUME NEW C, NEW s \in Seq(C), NEW c, NEW k \in 1..Len(s), s[k] = c,
         \A j \in 1..k - 1 : s[j] # c
  PROVE  FirstIndex(s, c) = k
<1>1. DOMAIN s = 1..Len(s)
  OBVIOUS
<1>2. \A i \in 1..Len(s) : (s[i] = c /\ \A j \in 1..i - 1 : s[j] # c) => i = k
  <2> SUFFICES ASSUME NEW i \in 1..Len(s), s[i] = c, \A j \in 1..i - 1 : s[j] # c
               PROVE  i = k
    OBVIOUS
  <2>1. ~(i < k) /\ ~(k < i)
    OBVIOUS
  <2> QED BY <2>1
<1> QED BY <1>1, <1>2 DEF FirstIndex

\* There is a first index of what is there.
LEMMA FirstIndexSome ==
  ASSUME NEW C, NEW s \in Seq(C), NEW c, ~Without(s, c)
  PROVE  FirstIndex(s, c) \in 1..Len(s) /\ s[FirstIndex(s, c)] = c
         /\ \A j \in 1..FirstIndex(s, c) - 1 : s[j] # c
<1> DEFINE P == {i \in 1..Len(s) : s[i] = c}
<1>1. P \in SUBSET Nat /\ P # {} /\ DOMAIN s = 1..Len(s)
  BY DEF Without
<1>2. \A i \in P : i \in 1..Len(s) /\ s[i] = c
  OBVIOUS
<1>3. \A j \in 1..Len(s) : s[j] = c => j \in P
  OBVIOUS
<1> HIDE DEF P
<1>4. PICK i \in P : \A j \in P : i <= j
  BY <1>1, Least, Zenon
<1>5. i \in 1..Len(s) /\ s[i] = c
  BY <1>2
<1>6. \A j \in 1..i - 1 : s[j] # c
  BY <1>3, <1>4, <1>5
<1>7. FirstIndex(s, c) = i
  BY <1>5, <1>6, FirstIndexAt
<1> QED BY <1>5, <1>6, <1>7

-----------------------------------------------------------------------------
(* Which character is decimal and which one groups. *)

\* The other separator.
Comma(x) == IF x = "." THEN "," ELSE "."

\* The switch of the separators, over any positions and outcomes.
FiveWay(p, q, a, b, c, u, v) ==
    CASE p = 0 /\ q = 0 -> a
      [] p = 0 /\ q # 0 -> b
      [] p # 0 /\ q = 0 -> c
      [] q # 0 /\ p > q -> u
      [] p # 0 /\ q > p -> v

FiveOutcomes(x, p, q, a, b, c, u, v) ==
    /\ p = 0 /\ q = 0 => x = a
    /\ p = 0 /\ q # 0 => x = b
    /\ p # 0 /\ q = 0 => x = c
    /\ p # 0 /\ q # 0 /\ p > q => x = u
    /\ p # 0 /\ q # 0 /\ q > p => x = v

\* Its cases exclude each other, but for positions that are equal.
LEMMA FiveCases ==
  ASSUME NEW p \in Nat, NEW q \in Nat, NEW a, NEW b, NEW c, NEW u, NEW v
  PROVE  FiveOutcomes(FiveWay(p, q, a, b, c, u, v), p, q, a, b, c, u, v)
BY DEF FiveWay, FiveOutcomes

\* Which separator is decimal, told the same way for both.
LEMMA SeparatorCases ==
  ASSUME NEW s, LastIndex(s, ".") \in Nat, LastIndex(s, ",") \in Nat,
         NEW d \in {".", ","}
  PROVE  LET p == LastIndex(s, d)
             q == LastIndex(s, Comma(d))
         IN  /\ p = 0 /\ q = 0 => Separators(s) = [decimal |-> "", thousand |-> ""]
             /\ p # 0 /\ q = 0 =>
                   Separators(s) = IF Count(s, d) > 1
                                   THEN [decimal |-> "", thousand |-> d]
                                   ELSE [decimal |-> d, thousand |-> ""]
             /\ p # 0 /\ q # 0 /\ p > q => Separators(s) = [decimal |-> d, thousand |-> Comma(d)]
<1> DEFINE dot == LastIndex(s, ".")
           comma == LastIndex(s, ",")
           None == [decimal |-> "", thousand |-> ""]
           DotsOnly == IF Count(s, ".") > 1 THEN [decimal |-> "", thousand |-> "."]
                       ELSE [decimal |-> ".", thousand |-> ""]
           CommasOnly == IF Count(s, ",") > 1 THEN [decimal |-> "", thousand |-> ","]
                         ELSE [decimal |-> ",", thousand |-> ""]
           DotLast == [decimal |-> ".", thousand |-> ","]
           CommaLast == [decimal |-> ",", thousand |-> "."]
<1>1. Separators(s) = FiveWay(dot, comma, None, CommasOnly, DotsOnly, DotLast, CommaLast)
  BY DEF Separators, FiveWay
<1>2. dot \in Nat /\ comma \in Nat
  OBVIOUS
<1> HIDE DEF dot, comma, None, DotsOnly, CommasOnly, DotLast, CommaLast
<1> DEFINE W == FiveWay(dot, comma, None, CommasOnly, DotsOnly, DotLast, CommaLast)
<1>3. FiveOutcomes(W, dot, comma, None, CommasOnly, DotsOnly, DotLast, CommaLast)
  BY <1>2, FiveCases, Zenon
<1>4. Separators(s) = W
  BY <1>1
<1> HIDE DEF W
<1>5. CASE d = "."
  BY <1>3, <1>4, <1>5, Zenon DEF FiveOutcomes, Comma, dot, comma, None, DotsOnly, CommasOnly, DotLast, CommaLast
<1>6. CASE d = ","
  <2>1. Comma(d) = "."
    BY <1>6 DEF Comma
  <2> QED BY <1>3, <1>4, <1>6, <2>1, Zenon DEF FiveOutcomes, dot, comma, None, DotsOnly, CommasOnly, DotLast, CommaLast
<1> QED BY <1>5, <1>6

\* A text at one of its positions.
LEMMA SplitAt ==
  ASSUME NEW C, NEW s \in Seq(C), NEW i \in 1..Len(s)
  PROVE  LET g == SubSeq(s, 1, i - 1)
             h == SubSeq(s, i + 1, Len(s))
         IN  /\ g \in Seq(C) /\ Len(g) = i - 1 /\ \A j \in 1..i - 1 : g[j] = s[j]
             /\ h \in Seq(C) /\ Len(h) = Len(s) - i
             /\ \A j \in 1..Len(s) - i : h[j] = s[i + j]
             /\ s = g \o <<s[i]>> \o h
<1> DEFINE g == SubSeq(s, 1, i - 1)
           h == SubSeq(s, i + 1, Len(s))
           c == s[i]
           t == g \o <<c>> \o h
<1>1. Len(s) \in Nat /\ i \in Nat /\ c \in C
  OBVIOUS
<1>2. g \in Seq(C) /\ Len(g) = i - 1 /\ \A j \in 1..i - 1 : g[j] = s[j]
  <2>1. \A j \in 1..i - 1 : s[j] \in C
    OBVIOUS
  <2> QED BY <2>1
<1>3. h \in Seq(C) /\ Len(h) = Len(s) - i /\ \A j \in 1..Len(s) - i : h[j] = s[i + j]
  <2>1. \A j \in i + 1..Len(s) : s[j] \in C
    OBVIOUS
  <2> QED BY <2>1
<1> HIDE DEF g, h
<1>4. Around(t, g, c, h, C)
  BY <1>1, <1>2, <1>3, AroundShape
<1> HIDE DEF t
<1>5. t \in Seq(C) /\ Len(t) = Len(s)
  BY <1>1, <1>2, <1>3, <1>4 DEF Around
<1>6. \A j \in 1..Len(s) : t[j] = s[j]
  <2> SUFFICES ASSUME NEW j \in 1..Len(s)
               PROVE  t[j] = s[j]
    OBVIOUS
  <2>1. CASE j < i
    BY <1>1, <1>2, <1>4, <2>1 DEF Around
  <2>2. CASE j = i
    BY <1>1, <1>2, <1>4, <2>2 DEF Around
  <2>3. CASE j > i
    <3>1. j - i \in 1..Len(s) - i /\ i + (j - i) = j /\ Len(g) + 1 + (j - i) = j
      BY <1>1, <1>2, <2>3
    <3>2. t[Len(g) + 1 + (j - i)] = h[j - i] /\ h[j - i] = s[i + (j - i)]
      BY <1>3, <1>4, <3>1 DEF Around
    <3> QED BY <3>1, <3>2
  <2> QED BY <2>1, <2>2, <2>3
<1>7. s = t
  BY <1>5, <1>6
<1> QED BY <1>2, <1>3, <1>7, Zenon DEF t, g, h, c

\* What is kept of a text around a character.
KeptAround(g, d, h, S) ==
    Keep(g \o <<d>> \o h, S) = IF d \in S THEN Keep(g, S) \o <<d>> \o Keep(h, S)
                               ELSE Keep(g, S) \o Keep(h, S)

\* It is what is kept of the three.
LEMMA KeepAround ==
  ASSUME NEW C, NEW g \in Seq(C), NEW d \in C, NEW h \in Seq(C), NEW S
  PROVE  KeptAround(g, d, h, S)
<1> DEFINE o == <<d>>
           u == g \o o
<1>1. o \in Seq(C) /\ u \in Seq(C)
  OBVIOUS
<1>2. Keep(o, S) = IF d \in S THEN <<d>> ELSE <<>>
  BY KeepOne
<1> HIDE DEF o
<1>3. Keep(u, S) = Keep(g, S) \o Keep(o, S)
  BY <1>1, KeepConcat
<1> HIDE DEF u
<1>4. Keep(u \o h, S) = Keep(u, S) \o Keep(h, S)
  BY <1>1, KeepConcat, SMTT(30)
<1>5. Keep(g, S) \in Seq(C)
  BY KeepType, Zenon
<1>6. Keep(g, S) \o <<>> = Keep(g, S)
  BY <1>5
<1> QED BY <1>2, <1>3, <1>4, <1>6, Zenon DEF o, u, KeptAround

\* A text without a character.
LEMMA WithoutType ==
  ASSUME NEW C, NEW s \in Seq(C), NEW c
  PROVE  Without(s, c) <=> s \in Seq(C \ {c})
<1>1. ASSUME Without(s, c)
      PROVE  s \in Seq(C \ {c})
  <2>1. Len(s) \in Nat /\ \A i \in 1..Len(s) : s[i] \in C \ {c}
    BY <1>1 DEF Without
  <2>2. s = [i \in 1..Len(s) |-> s[i]]
    OBVIOUS
  <2> QED BY <2>1, <2>2
<1>2. ASSUME s \in Seq(C \ {c})
      PROVE  Without(s, c)
  BY <1>2 DEF Without
<1> QED BY <1>1, <1>2

\* Count is 0 for a character that is not there, and only then.
LEMMA KeepNothing ==
  ASSUME NEW C, NEW s \in Seq(C), NEW c \in C
  PROVE  /\ Without(s, c) => Count(s, c) = 0
         /\ ~Without(s, c) => Count(s, c) >= 1
         /\ Count(s, c) \in Nat
<1> DEFINE K == Keep(s, {c})
<1>1. K \in Seq(C) /\ Len(K) \in Nat
  <2>1. K \in Seq(C)
    BY KeepType
  <2> HIDE DEF K
  <2> QED BY <2>1
<1>2. ASSUME Without(s, c)
      PROVE  Len(K) = 0
  <2>1. s \in Seq(C \ {c})
    BY <1>2, WithoutType
  <2>2. K \in Seq((C \ {c}) \cap {c})
    BY <2>1, KeepType, Zenon
  <2>3. (C \ {c}) \cap {c} = {}
    OBVIOUS
  <2> HIDE DEF K
  <2>4. K \in Seq({})
    BY <2>2, <2>3
  <2> QED BY <2>4
<1>3. ASSUME ~Without(s, c)
      PROVE  Len(K) >= 1
  <2>1. PICK i \in 1..Len(s) : s[i] = c
    BY <1>3 DEF Without
  <2> DEFINE g == SubSeq(s, 1, i - 1)
             h == SubSeq(s, i + 1, Len(s))
  <2>2. g \in Seq(C) /\ h \in Seq(C) /\ s = g \o <<c>> \o h
    BY <2>1, SplitAt
  <2> HIDE DEF g, h
  <2> DEFINE S == {c}
  <2>6. c \in S
    OBVIOUS
  <2> HIDE DEF S
  <2>3. Keep(g \o <<c>> \o h, S) = Keep(g, S) \o <<c>> \o Keep(h, S)
    <3>1. KeptAround(g, c, h, S)
      BY <2>2, KeepAround
    <3> QED BY <2>6, <3>1, Zenon DEF KeptAround
  <2>4. Keep(g, S) \in Seq(C) /\ Keep(h, S) \in Seq(C)
    BY <2>2, KeepType, Zenon
  <2>5. Len(Keep(g, S) \o <<c>> \o Keep(h, S)) >= 1
    BY <2>4
  <2> QED BY <2>2, <2>3, <2>5, Zenon DEF S
<1> QED BY <1>1, <1>2, <1>3 DEF Count

-----------------------------------------------------------------------------
(* A text around its last separator. *)

\* The separators.
Marks == {".", ","}

\* The characters on both sides of the last separator, d, which is at i.
LastMark(s, g, d, h, C) ==
    /\ Marks \subseteq C /\ "" \notin C
    /\ g \in Seq(C) /\ d \in Marks /\ h \in Seq(C \ Marks)
    /\ s = g \o <<d>> \o h

\* Either separator, and the other one.
LEMMA MarkFacts ==
  ASSUME NEW d \in Marks
  PROVE  /\ Comma(d) \in Marks /\ Comma(d) # d /\ Marks = {d, Comma(d)}
         /\ d \notin Digit /\ Comma(d) \notin Digit /\ d # "" /\ Comma(d) # ""
<1>1. /\ Comma(d) \in Marks /\ Comma(d) # d /\ Marks = {d, Comma(d)}
      /\ d # "" /\ Comma(d) # ""
  BY DEF Marks, Comma
<1>2. \A x \in Marks : x \notin Digit
  BY DigitShape DEF Marks
<1> QED BY <1>1, <1>2

\* Such a text, position by position.
LEMMA LastMarkShape ==
  ASSUME NEW s, NEW g, NEW d, NEW h, NEW C, LastMark(s, g, d, h, C)
  PROVE  /\ g \in Seq(C) /\ d \in C /\ h \in Seq(C) /\ s \in Seq(C)
         /\ Around(s, g, d, h, C)
         /\ \A i \in 1..Len(h) : h[i] \notin Marks
         /\ Len(g) \in Nat /\ Len(h) \in Nat
<1>1. g \in Seq(C) /\ d \in C
  BY DEF LastMark
<1>2. h \in Seq(C) /\ \A i \in 1..Len(h) : h[i] \notin Marks
  <2>1. h \in Seq(C \ Marks)
    BY DEF LastMark
  <2> QED BY <2>1
<1>3. Around(s, g, d, h, C)
  BY <1>1, <1>2, AroundShape DEF LastMark
<1> QED BY <1>1, <1>2, <1>3 DEF Around

\* Where the separators are in it.
LEMMA LastMarkIndex ==
  ASSUME NEW s, NEW g, NEW d, NEW h, NEW C, LastMark(s, g, d, h, C)
  PROVE  /\ LastIndex(s, d) = Len(g) + 1
         /\ Without(g, Comma(d)) => LastIndex(s, Comma(d)) = 0
         /\ ~Without(g, Comma(d)) => LastIndex(s, Comma(d)) \in 1..Len(g)
<1> DEFINE k == Comma(d)
           n == Len(g)
           m == Len(h)
<1>1. /\ d \in Marks /\ k \in Marks /\ k # d /\ n \in Nat /\ m \in Nat
      /\ \A i \in 1..m : h[i] # k /\ h[i] # d
      /\ s \in Seq(C) /\ Len(s) = n + 1 + m
      /\ \A i \in 1..n : s[i] = g[i]
      /\ s[n + 1] = d
      /\ \A i \in 1..m : s[n + 1 + i] = h[i]
  <2>1. d \in Marks /\ k \in Marks /\ k # d
    BY MarkFacts DEF LastMark
  <2> QED BY <2>1, LastMarkShape DEF Around
<1> HIDE DEF k, n, m
<1>2. \A i \in n + 2..n + 1 + m : s[i] # k /\ s[i] # d
  <2> SUFFICES ASSUME NEW i \in n + 2..n + 1 + m
               PROVE  s[i] # k /\ s[i] # d
    OBVIOUS
  <2>1. i - (n + 1) \in 1..m /\ n + 1 + (i - (n + 1)) = i
    BY <1>1
  <2> QED BY <1>1, <2>1
<1>3. LastIndex(s, d) = n + 1
  <2>1. n + 1 \in 1..Len(s) /\ (n + 1) + 1 = n + 2
    BY <1>1
  <2> QED BY <1>1, <1>2, <2>1, LastIndexAt
<1>4. ASSUME Without(g, k)
      PROVE  LastIndex(s, k) = 0
  <2>1. \A i \in 1..n : s[i] # k
    BY <1>1, <1>4 DEF Without, n
  <2>2. Without(s, k)
    BY <1>1, <1>2, <2>1 DEF Without
  <2> QED BY <1>1, <2>2, LastIndexNone
<1>5. ASSUME ~Without(g, k)
      PROVE  LastIndex(s, k) \in 1..n
  <2>1. PICK i \in 1..n : g[i] = k
    BY <1>5 DEF Without, n
  <2>2. i \in 1..Len(s) /\ s[i] = k
    BY <1>1, <2>1
  <2>3. ~Without(s, k)
    BY <2>2 DEF Without
  <2>4. LastIndex(s, k) \in 1..Len(s) /\ s[LastIndex(s, k)] = k
    BY <1>1, <2>3, LastIndexSome
  <2> QED BY <1>1, <1>2, <2>4
<1> QED BY <1>3, <1>4, <1>5 DEF k, n

\* IsNumeric is to be a text of digits.
LEMMA NumericText ==
  ASSUME NEW C, NEW s \in Seq(C)
  PROVE  /\ IsNumeric(s) <=> \A i \in 1..Len(s) : s[i] \in Digit
         /\ IsNumeric(s) <=> s \in Seq(Digit)
<1>1. ToSet(s) = {s[i] : i \in 1..Len(s)}
  BY DEF ToSet
<1>2. IsNumeric(s) <=> \A i \in 1..Len(s) : s[i] \in Digit
  BY <1>1 DEF IsNumeric
<1>3. ASSUME \A i \in 1..Len(s) : s[i] \in Digit
      PROVE  s \in Seq(Digit)
  <2>1. Len(s) \in Nat /\ s = [i \in 1..Len(s) |-> s[i]]
    OBVIOUS
  <2> QED BY <1>3, <2>1
<1>4. ASSUME s \in Seq(Digit)
      PROVE  \A i \in 1..Len(s) : s[i] \in Digit
  BY <1>4
<1> QED BY <1>2, <1>3, <1>4

\* To drop one character from a text.
LEMMA KeepBut ==
  ASSUME NEW C, NEW s \in Seq(C), NEW k
  PROVE  /\ Keep(s, ToSet(s) \ {k}) = Keep(s, C \ {k})
         /\ Without(s, k) => Keep(s, C \ {k}) = s
         /\ Keep(s, C \ {k}) \in Seq(C \ {k})
<1> DEFINE A == ToSet(s)
           S == A \ {k}
           U == C \ {k}
<1>1. A = {s[i] : i \in 1..Len(s)} /\ A \subseteq C
  BY DEF ToSet
<1>2. s \in Seq(A)
  <2>1. Len(s) \in Nat /\ s = [i \in 1..Len(s) |-> s[i]] /\ \A i \in 1..Len(s) : s[i] \in A
    BY <1>1
  <2> HIDE DEF A
  <2> QED BY <2>1
<1>3. \A c \in A : c \in S <=> c \in U
  BY <1>1
<1> HIDE DEF S
<1>4. Keep(s, S) = Keep(s, U)
  <2> HIDE DEF A, U
  <2> QED BY <1>2, <1>3, KeepAgree
<1>5. ASSUME Without(s, k)
      PROVE  Keep(s, U) = s
  <2>1. \A i \in 1..Len(s) : s[i] \in U
    BY <1>5 DEF Without
  <2> HIDE DEF U
  <2> QED BY <2>1, KeepAll
<1>6. Keep(s, U) \in Seq(U)
  <2>1. Keep(s, U) \in Seq(C \cap U)
    BY KeepType, Zenon
  <2>2. C \cap U = U
    OBVIOUS
  <2> QED BY <2>1, <2>2, Zenon
<1> QED BY <1>4, <1>5, <1>6 DEF S

\* To drop a character that is not there.
LEMMA KeepWithout ==
  ASSUME NEW C, NEW s \in Seq(C), NEW k, Without(s, k)
  PROVE  Keep(s, C \ {k}) = s
BY KeepBut, Zenon

\* No separators at all.
LEMMA SeparatorsNone ==
  ASSUME NEW C, NEW s \in Seq(C), Without(s, "."), Without(s, ",")
  PROVE  Separators(s) = [decimal |-> "", thousand |-> ""]
<1>1. LastIndex(s, ".") = 0 /\ LastIndex(s, ",") = 0
  BY LastIndexNone
<1>2. Comma(".") = "," /\ "." \in {".", ","} /\ 0 \in Nat
  BY DEF Comma
<1> QED BY <1>1, <1>2, SeparatorCases, Zenon

\* How often the last separator occurs.
LEMMA LastMarkCount ==
  ASSUME NEW s, NEW g, NEW d, NEW h, NEW C, LastMark(s, g, d, h, C)
  PROVE  Count(s, d) > 1 <=> ~Without(g, d)
<1> DEFINE S == {d}
           a == Keep(g, S)
           b == Keep(h, S)
<1>1. g \in Seq(C) /\ d \in C /\ h \in Seq(C) /\ d \in S
  BY LastMarkShape
<1>2. Without(h, d)
  <2>1. d \in Marks
    BY DEF LastMark
  <2>2. \A i \in 1..Len(h) : h[i] \notin Marks
    BY LastMarkShape
  <2> QED BY <2>1, <2>2 DEF Without
<1>3. Len(b) = 0
  BY <1>1, <1>2, KeepNothing DEF Count
<1>4. /\ Without(g, d) => Len(a) = 0
      /\ ~Without(g, d) => Len(a) >= 1
      /\ Len(a) \in Nat
  BY <1>1, KeepNothing DEF Count
<1>5. a \in Seq(C) /\ b \in Seq(C)
  BY <1>1, KeepType, Zenon
<1> HIDE DEF S
<1>6. Keep(s, S) = a \o <<d>> \o b
  <2>1. KeptAround(g, d, h, S)
    BY <1>1, KeepAround
  <2> QED BY <1>1, <2>1, Zenon DEF KeptAround, LastMark
<1> HIDE DEF a, b
<1>7. Len(a \o <<d>> \o b) = Len(a) + 1 + Len(b)
  BY <1>1, <1>5
<1>8. Count(s, d) = Len(a) + 1
  BY <1>3, <1>4, <1>6, <1>7 DEF Count, S
<1> QED BY <1>4, <1>8

\* Otherwise the last one is decimal, unless it is the only kind and comes again.
LEMMA SeparatorsSome ==
  ASSUME NEW s, NEW g, NEW d, NEW h, NEW C, LastMark(s, g, d, h, C)
  PROVE  LET k == Comma(d)
         IN  /\ ~Without(g, k) => Separators(s) = [decimal |-> d, thousand |-> k]
             /\ Without(g, k) /\ Without(g, d) =>
                   Separators(s) = [decimal |-> d, thousand |-> ""]
             /\ Without(g, k) /\ ~Without(g, d) =>
                   Separators(s) = [decimal |-> "", thousand |-> d]
<1> DEFINE k == Comma(d)
           p == LastIndex(s, d)
           q == LastIndex(s, k)
<1>1. /\ p = Len(g) + 1 /\ Len(g) \in Nat
      /\ Without(g, k) => q = 0
      /\ ~Without(g, k) => q \in 1..Len(g)
  BY LastMarkIndex, LastMarkShape
<1>2. d \in Marks /\ Marks = {d, k}
  BY MarkFacts DEF LastMark
<1> HIDE DEF k, p, q
<1>3. p \in Nat /\ q \in Nat /\ p # 0
  BY <1>1
<1>4. ~Without(g, k) => q # 0 /\ p > q
  BY <1>1
<1>5. LastIndex(s, ".") \in Nat /\ LastIndex(s, ",") \in Nat
  <2>1. \A c \in Marks : LastIndex(s, c) \in Nat
    BY <1>2, <1>3 DEF p, q
  <2> QED BY <2>1 DEF Marks
<1>6. /\ p # 0 /\ q = 0 =>
            Separators(s) = IF Count(s, d) > 1 THEN [decimal |-> "", thousand |-> d]
                            ELSE [decimal |-> d, thousand |-> ""]
      /\ p # 0 /\ q # 0 /\ p > q => Separators(s) = [decimal |-> d, thousand |-> k]
  BY <1>2, <1>5, SeparatorCases DEF Marks, p, q, k
<1>7. Count(s, d) > 1 <=> ~Without(g, d)
  BY LastMarkCount
<1> QED BY <1>1, <1>3, <1>4, <1>6, <1>7, Zenon DEF k

-----------------------------------------------------------------------------
(* The integer part and the decimals. *)

\* A character outside the alphabet is not there.
LEMMA WithoutOther ==
  ASSUME NEW C, NEW s \in Seq(C), NEW c, c \notin C
  PROVE  Without(s, c)
BY DEF Without

\* The parts of a text without a decimal separator.
LEMMA WholePart ==
  ASSUME NEW C, NEW s \in Seq(C)
  PROVE  /\ SubSeq(s, 1, (Len(s) + 1) - 1) = s
         /\ SubSeq(s, (Len(s) + 1) + 1, Len(s)) = <<>>
<1>1. Len(s) \in Nat
  OBVIOUS
<1>2. (Len(s) + 1) - 1 = Len(s) /\ (Len(s) + 1) + 1 > Len(s)
  BY <1>1
<1>3. SubSeq(s, 1, Len(s)) = s
  OBVIOUS
<1>4. SubSeq(s, (Len(s) + 1) + 1, Len(s)) = <<>>
  BY <1>1, <1>2
<1> QED BY <1>2, <1>3, <1>4, Zenon

\* What Parts returns once the separators and the kept text are known.
Separated(s, d, k, t, i) ==
    /\ Separators(s) = [decimal |-> d, thousand |-> k]
    /\ Keep(s, ToSet(s) \ {k}) = t
    /\ i = IF d = "" THEN Len(t) + 1 ELSE FirstIndex(t, d)

Parted(s, t, i) ==
    Parts(s, Separators(s)) = [int |-> SubSeq(t, 1, i - 1), dec |-> SubSeq(t, i + 1, Len(t))]

\* Parts, once the separators and the position of the decimal one are known.
LEMMA PartsAt ==
  ASSUME NEW s, NEW d, NEW k, NEW t, NEW i, Separated(s, d, k, t, i)
  PROVE  Parted(s, t, i)
<1> DEFINE sep == [decimal |-> d, thousand |-> k]
<1>1. sep.decimal = d /\ sep.thousand = k
  OBVIOUS
<1> HIDE DEF sep
<1>2. /\ Separators(s) = sep
      /\ Keep(s, ToSet(s) \ {k}) = t
      /\ i = IF d = "" THEN Len(t) + 1 ELSE FirstIndex(t, d)
  BY DEF sep, Separated
<1> QED BY <1>1, <1>2 DEF Parts, Parted

\* A text without separators is an integer part.
LEMMA PartsNone ==
  ASSUME NEW C, NEW s \in Seq(C), "" \notin C, Without(s, "."), Without(s, ",")
  PROVE  Parts(s, Separators(s)) = [int |-> s, dec |-> <<>>]
<1>1. Separators(s) = [decimal |-> "", thousand |-> ""]
  BY SeparatorsNone
<1>2. Keep(s, ToSet(s) \ {""}) = s
  <2>1. Without(s, "")
    BY WithoutOther
  <2> QED BY <2>1, KeepBut, Zenon
<1>3. /\ SubSeq(s, 1, (Len(s) + 1) - 1) = s
      /\ SubSeq(s, (Len(s) + 1) + 1, Len(s)) = <<>>
  BY WholePart
<1>4. Separated(s, "", "", s, Len(s) + 1)
  BY <1>1, <1>2 DEF Separated
<1>5. Parted(s, s, Len(s) + 1)
  BY <1>4, PartsAt
<1> QED BY <1>3, <1>5 DEF Parted

\* The last separator is decimal when it comes once.
LEMMA PartsDecimal ==
  ASSUME NEW s, NEW g, NEW d, NEW h, NEW C, LastMark(s, g, d, h, C), Without(g, d)
  PROVE  Parts(s, Separators(s)) = [int |-> Keep(g, C \ {Comma(d)}), dec |-> h]
<1> DEFINE k == Comma(d)
           g2 == Keep(g, C \ {k})
           t == g2 \o <<d>> \o h
<1>0. s = g \o <<d>> \o h /\ d \in Marks /\ "" \notin C
  BY DEF LastMark
<1>1. g \in Seq(C) /\ d \in C /\ h \in Seq(C) /\ s \in Seq(C)
  BY LastMarkShape
<1>20. \A i \in 1..Len(h) : h[i] \notin Marks
  BY LastMarkShape
<1>2. k \in Marks /\ k # d /\ d # ""
  BY <1>0, MarkFacts
<1>3. Without(h, k)
  BY <1>2, <1>20 DEF Without
<1>4. g2 \in Seq(C \ {k}) /\ g2 \in Seq(C)
  BY <1>1, KeepBut, KeepType, Zenon
<1>5. g2 \in Seq((C \ {d}) \cap (C \ {k}))
  <2>1. g \in Seq(C \ {d})
    BY <1>1, WithoutType
  <2> QED BY <2>1, KeepType, Zenon
<1>6. Without(g2, d)
  <2>1. d \notin (C \ {d}) \cap (C \ {k})
    OBVIOUS
  <2> HIDE DEF g2
  <2> QED BY <1>5, <2>1 DEF Without
<1>7. Keep(s, C \ {k}) = t
  <2>1. KeptAround(g, d, h, C \ {k})
    BY <1>1, KeepAround
  <2>2. d \in C \ {k}
    BY <1>1, <1>2
  <2>3. Keep(h, C \ {k}) = h
    BY <1>1, <1>3, KeepWithout
  <2> QED BY <1>0, <2>1, <2>2, <2>3, Zenon DEF KeptAround
<1>8. PICK x : /\ Separators(s) = [decimal |-> d, thousand |-> x]
               /\ Keep(s, ToSet(s) \ {x}) = t
  <2>1. CASE ~Without(g, k)
    <3>1. Separators(s) = [decimal |-> d, thousand |-> k]
      BY <2>1, SeparatorsSome
    <3>2. Keep(s, ToSet(s) \ {k}) = Keep(s, C \ {k})
      BY <1>1, KeepBut, Zenon
    <3>3. Keep(s, ToSet(s) \ {k}) = t
      BY <1>7, <3>2, Zenon
    <3> HIDE DEF t
    <3> QED BY <3>1, <3>3
  <2>2. CASE Without(g, k)
    <3>1. Separators(s) = [decimal |-> d, thousand |-> ""]
      BY <2>2, SeparatorsSome
    <3>2. Without(s, "")
      BY <1>0, <1>1, WithoutOther, Zenon
    <3>3. Keep(s, ToSet(s) \ {""}) = s
      BY <1>1, <3>2, KeepBut, ZenonT(60)
    <3>4. g2 = g
      BY <1>1, <2>2, KeepBut, Zenon
    <3>5. Keep(s, ToSet(s) \ {""}) = t
      BY <1>0, <3>3, <3>4, Zenon
    <3> HIDE DEF t
    <3> QED BY <3>1, <3>5
  <2> QED BY <2>1, <2>2
<1> HIDE DEF k, g2
<1>9. Around(t, g2, d, h, C)
  BY <1>1, <1>4, AroundShape
<1> HIDE DEF t
<1>10. FirstIndex(t, d) = Len(g2) + 1
  <2>1. Len(g2) \in Nat /\ Len(h) \in Nat
    <3>1. \A y \in Seq(C) : Len(y) \in Nat
      OBVIOUS
    <3> QED BY <1>1, <1>4, <3>1, Zenon
  <2>2. /\ t \in Seq(C) /\ Len(g2) + 1 \in 1..Len(t) /\ t[Len(g2) + 1] = d
        /\ \A j \in 1..(Len(g2) + 1) - 1 : t[j] # d
    BY <1>6, <1>9, <2>1 DEF Around, Without
  <2> QED BY <2>2, FirstIndexAt
<1>11. SubSeq(t, 1, (Len(g2) + 1) - 1) = g2 /\ SubSeq(t, (Len(g2) + 1) + 1, Len(t)) = h
  BY <1>1, <1>4, <1>9, AroundParts
<1>12. Parts(s, Separators(s)) = [int |-> g2, dec |-> h]
  <2>1. Separated(s, d, x, t, Len(g2) + 1)
    BY <1>2, <1>8, <1>10 DEF Separated
  <2>2. Parted(s, t, Len(g2) + 1)
    BY <2>1, PartsAt
  <2> QED BY <1>11, <2>2 DEF Parted
<1> QED BY <1>12 DEF g2, k

\* It groups when it comes again and there is no other,
LEMMA PartsGrouped ==
  ASSUME NEW s, NEW g, NEW d, NEW h, NEW C, LastMark(s, g, d, h, C),
         ~Without(g, d), Without(g, Comma(d))
  PROVE  Parts(s, Separators(s)) = [int |-> Keep(s, C \ {d}), dec |-> <<>>]
<1>1. Separators(s) = [decimal |-> "", thousand |-> d]
  BY SeparatorsSome
<1>2. s \in Seq(C)
  BY LastMarkShape
<1> DEFINE t == Keep(s, C \ {d})
<1>3. Keep(s, ToSet(s) \ {d}) = t /\ t \in Seq(C \ {d})
  BY <1>2, KeepBut, Zenon
<1> HIDE DEF t
<1>4. /\ SubSeq(t, 1, (Len(t) + 1) - 1) = t
      /\ SubSeq(t, (Len(t) + 1) + 1, Len(t)) = <<>>
  BY <1>3, WholePart
<1>5. Separated(s, "", d, t, Len(t) + 1)
  BY <1>1, <1>3 DEF Separated
<1>6. Parted(s, t, Len(t) + 1)
  BY <1>5, PartsAt
<1> QED BY <1>4, <1>6 DEF Parted, t

\* A decimal separator that comes again leaves decimals that are no digits.
LEMMA PartsMixed ==
  ASSUME NEW s, NEW g, NEW d, NEW h, NEW C, LastMark(s, g, d, h, C),
         ~Without(g, d), ~Without(g, Comma(d))
  PROVE  ~IsNumeric(Parts(s, Separators(s)).dec)
<1> DEFINE k == Comma(d)
           g2 == Keep(g, C \ {k})
           h2 == Keep(h, C \ {k})
           t == g2 \o <<d>> \o h2
<1>0. s = g \o <<d>> \o h /\ d \in Marks
  BY DEF LastMark
<1>1. g \in Seq(C) /\ d \in C /\ h \in Seq(C) /\ s \in Seq(C)
  BY LastMarkShape
<1>2. k \in Marks /\ k # d /\ d # "" /\ d \notin Digit
  BY <1>0, MarkFacts
<1>3. Separators(s) = [decimal |-> d, thousand |-> k]
  BY SeparatorsSome
<1>4. g2 \in Seq(C) /\ h2 \in Seq(C)
  BY <1>1, KeepType, Zenon
<1>5. Keep(s, ToSet(s) \ {k}) = t
  <2>1. KeptAround(g, d, h, C \ {k})
    BY <1>1, KeepAround
  <2>2. d \in C \ {k}
    BY <1>1, <1>2
  <2>3. Keep(s, ToSet(s) \ {k}) = Keep(s, C \ {k})
    BY <1>1, KeepBut, Zenon
  <2> QED BY <1>0, <2>1, <2>2, <2>3, Zenon DEF KeptAround
<1>6. ~Without(g2, d)
  <2> DEFINE S == C \ {k}
             D == {d}
  <2>1. PICK i \in 1..Len(g) : g[i] = d
    BY DEF Without
  <2> DEFINE a == SubSeq(g, 1, i - 1)
             b == SubSeq(g, i + 1, Len(g))
  <2>2. a \in Seq(C) /\ b \in Seq(C) /\ g = a \o <<d>> \o b
    BY <1>1, <2>1, SplitAt
  <2> HIDE DEF a, b
  <2>3. d \in S
    BY <1>1, <1>2
  <2> HIDE DEF S
  <2>4. KeptAround(a, d, b, S)
    BY <1>1, <2>2, KeepAround
  <2>5. Keep(g, S) = Keep(a, S) \o <<d>> \o Keep(b, S)
    BY <2>2, <2>3, <2>4, Zenon DEF KeptAround
  <2> DEFINE x == Keep(a, S)
             y == Keep(b, S)
  <2>6. x \in Seq(C) /\ y \in Seq(C)
    BY <2>2, KeepType, Zenon
  <2> HIDE DEF x, y
  <2>7. Around(x \o <<d>> \o y, x, d, y, C)
    BY <1>1, <2>6, AroundShape
  <2>8. g2 = x \o <<d>> \o y
    BY <2>5, Zenon DEF S, x, y
  <2>9. Len(x) \in Nat /\ Len(y) \in Nat
    BY <2>6
  <2> HIDE DEF g2
  <2>10. Len(x) + 1 \in 1..Len(g2) /\ g2[Len(x) + 1] = d
    BY <2>7, <2>8, <2>9 DEF Around
  <2> QED BY <2>10 DEF Without
<1> HIDE DEF k, g2, h2
<1>7. Around(t, g2, d, h2, C)
  BY <1>1, <1>4, AroundShape
<1> HIDE DEF t
<1> DEFINE i == FirstIndex(t, d)
           n == Len(g2) + 1
           dec == SubSeq(t, i + 1, Len(t))
<1>8. /\ t \in Seq(C) /\ n \in 1..Len(t) /\ t[n] = d /\ Len(g2) \in Nat
  <2>1. Len(g2) \in Nat /\ Len(h2) \in Nat
    BY <1>4
  <2> QED BY <1>7, <2>1 DEF Around
<1>9. i \in 1..Len(t) /\ i < n
  <2>1. PICK j \in 1..Len(g2) : g2[j] = d
    BY <1>6 DEF Without
  <2>2. j \in 1..Len(t) /\ t[j] = d /\ j < n
    BY <1>7, <1>8, <2>1 DEF Around
  <2>3. ~Without(t, d)
    BY <2>2 DEF Without
  <2>4. i \in 1..Len(t) /\ \A m \in 1..i - 1 : t[m] # d
    BY <1>8, <2>3, FirstIndexSome
  <2> HIDE DEF i, n
  <2>5. ~(j < i)
    BY <2>1, <2>2, <2>4
  <2>6. n \in 1..Len(t) /\ Len(t) \in Nat
    BY <1>8
  <2> QED BY <2>1, <2>2, <2>4, <2>5, <2>6
<1> HIDE DEF i, n
<1>10. dec \in Seq(C) /\ n - i \in 1..Len(dec) /\ dec[n - i] = d
  <2>1. i \in 1..Len(t) /\ Len(t) \in Nat /\ n - i \in 1..Len(t) - i /\ i + (n - i) = n
    BY <1>8, <1>9
  <2>2. /\ dec \in Seq(C) /\ Len(dec) = Len(t) - i
        /\ \A j \in 1..Len(t) - i : dec[j] = t[i + j]
    BY <1>8, <2>1, SplitAt
  <2> QED BY <1>8, <2>1, <2>2
<1> HIDE DEF dec
<1>11. ~IsNumeric(dec)
  BY <1>2, <1>10, NumericText
<1>12. Parts(s, Separators(s)).dec = dec
  <2>1. Parts(s, Separators(s)) = [int |-> SubSeq(t, 1, i - 1), dec |-> dec]
    <3>1. Separated(s, d, k, t, i)
      BY <1>2, <1>3, <1>5 DEF Separated, i
    <3>2. Parted(s, t, i)
      BY <3>1, PartsAt
    <3> QED BY <3>2 DEF Parted, dec
  <2> QED BY <2>1
<1> QED BY <1>11, <1>12

-----------------------------------------------------------------------------
(* The number of an integer part and decimals. *)

\* What a number with n decimals is worth in cents.
Scale(n) == IF n = 0 THEN 100 ELSE IF n = 1 THEN 10 ELSE 1

\* A number i before the decimals t is worth so much, and t so much alone.
Worth(t, v) ==
    /\ v \in 0..99
    /\ \A s \in Seq(Digit) : /\ s \o t \in Seq(Digit)
                             /\ Number(s \o t) * Scale(Len(t)) = Number(s) * 100 + v

\* One digit more, with its types.
LEMMA OneMoreDigit ==
  ASSUME NEW s \in Seq(Digit), NEW a \in Digit
  PROVE  /\ Append(s, a) \in Seq(Digit) /\ Number(s) \in Nat /\ digitOf[a] \in 0..9
         /\ Number(Append(s, a)) = Number(s) * 10 + digitOf[a]
<1>1. Number(s) \in Nat /\ digitOf[a] \in 0..9
  BY ReadsNumber, DigitShape, Zenon
<1>2. Number(s) \in Int
  BY <1>1
<1> QED BY <1>1, <1>2, NumberAppend

\* Two digits are less than a hundred.
LEMMA TwoPlaces ==
  ASSUME NEW x \in 0..9, NEW y \in 0..9
  PROVE  x * 10 + y \in 0..99 /\ x * 10 \in 0..99 /\ x * 10 + 0 = x * 10
OBVIOUS

\* The zeros that pad the decimals.
LEMMA Padding ==
  /\ SubSeq(<<"0", "0">>, 1, 2) = <<"0", "0">>
  /\ SubSeq(<<"0", "0">>, 1, 1) = <<"0">>
  /\ SubSeq(<<"0", "0">>, 1, 0) = <<>>
  /\ "0" \in Digit /\ digitOf["0"] = 0
<1> DEFINE z == <<"0", "0">>
<1>1. z \in Seq({"0"}) /\ Len(z) = 2 /\ z[1] = "0" /\ z[2] = "0"
  OBVIOUS
<1>2. SubSeq(z, 1, 1) = <<"0">> /\ SubSeq(z, 1, 0) = <<>>
  <2> DEFINE u == SubSeq(z, 1, 1)
  <2> HIDE DEF z
  <2>1. u \in Seq({"0"}) /\ Len(u) = 1 /\ u[1] = "0" /\ SubSeq(z, 1, 0) = <<>>
    BY <1>1
  <2> HIDE DEF u
  <2>2. u = <<"0">>
    BY <2>1
  <2> QED BY <2>1, <2>2 DEF u
<1>3. SubSeq(z, 1, 2) = z
  <2> HIDE DEF z
  <2> QED BY <1>1
<1>4. 0 \in 0..9 /\ Digits[0 + 1] = "0"
  BY TenDigits
<1>5. "0" \in Digit /\ digitOf["0"] = 0
  BY <1>4, DigitShape
<1> QED BY <1>2, <1>3, <1>5

\* Two digits at most are read as they are, none of them being lost.
LEMMA PairRead ==
  ASSUME NEW a \in Digit, NEW b \in Digit
  PROVE  parsePositiveInt64(<<a, b>>) = digitOf[a] * 10 + digitOf[b]
<1> DEFINE s == <<a>>
           e == <<>>
<1>1. e \in Seq(Digit) /\ s = Append(e, a) /\ <<a, b>> = Append(s, b)
  OBVIOUS
<1>2. Number(e) = 0
  BY NothingRead
<1> HIDE DEF e, s
<1>3. s \in Seq(Digit) /\ Number(s) = digitOf[a] /\ digitOf[a] \in 0..9
  <2>1. /\ Append(e, a) \in Seq(Digit) /\ digitOf[a] \in 0..9
        /\ Number(Append(e, a)) = Number(e) * 10 + digitOf[a]
    BY <1>1, OneMoreDigit
  <2> QED BY <1>1, <1>2, <2>1
<1>4. /\ Append(s, b) \in Seq(Digit) /\ digitOf[b] \in 0..9
      /\ Number(Append(s, b)) = Number(s) * 10 + digitOf[b]
  BY <1>3, OneMoreDigit
<1> DEFINE n == digitOf[a] * 10 + digitOf[b]
<1>5. n \in 0..99 /\ n <= MaxInt
  <2>1. MaxInt \in Nat /\ MaxInt >= 99
    BY WidthAssumption, WireAssumption
  <2>2. n \in 0..99
    BY <1>3, <1>4, TwoPlaces
  <2> HIDE DEF n
  <2> QED BY <2>1, <2>2
<1>6. Number(Append(s, b)) = n
  BY <1>3, <1>4
<1> HIDE DEF n
<1>7. parsePositiveInt64(Append(s, b)) = n
  BY <1>4, <1>5, <1>6, ReadsNumber
<1> QED BY <1>1, <1>7 DEF n

\* Two digits side by side.
LEMMA PairOf ==
  ASSUME NEW a \in Digit, NEW z \in Digit
  PROVE  <<a>> \o <<z>> = <<a, z>>
<1> DEFINE s == <<a>>
<1>1. s \in Seq(Digit) /\ <<a, z>> = Append(s, z)
  OBVIOUS
<1> HIDE DEF s
<1>2. s \o <<z>> = Append(s, z)
  BY <1>1
<1> QED BY <1>1, <1>2 DEF s

\* No decimals are 0 cents,
LEMMA NoDecimals == Worth(<<>>, decVal(<<>>))
<1>1. decVal(<<>>) = 0
  <2>1. <<>> \o SubSeq(<<"0", "0">>, 1, 2 - Len(<<>>)) = <<"0", "0">>
    <3>1. 2 - Len(<<>>) = 2
      OBVIOUS
    <3>2. <<>> \o <<"0", "0">> = <<"0", "0">>
      OBVIOUS
    <3> QED BY <3>1, <3>2, Padding, Zenon
  <2>3. parsePositiveInt64(<<"0", "0">>) = 0
    <3>1. parsePositiveInt64(<<"0", "0">>) = 0 * 10 + 0
      BY Padding, PairRead, Zenon
    <3> QED BY <3>1
  <2> QED BY <2>1, <2>3 DEF decVal
<1>2. \A s \in Seq(Digit) : s \o <<>> = s /\ Number(s) \in Nat
  BY ReadsNumber
<1>3. Len(<<>>) = 0
  OBVIOUS
<1> QED BY <1>1, <1>2, <1>3 DEF Worth, Scale

\* one is tens of them,
LEMMA OneDecimal ==
  ASSUME NEW a \in Digit
  PROVE  Worth(<<a>>, decVal(<<a>>))
<1>1. decVal(<<a>>) = digitOf[a] * 10
  <2>1. <<a>> \o SubSeq(<<"0", "0">>, 1, 2 - Len(<<a>>)) = <<a, "0">>
    <3>1. 2 - Len(<<a>>) = 1
      OBVIOUS
    <3>2. <<a>> \o <<"0">> = <<a, "0">>
      <4>1. ASSUME NEW z \in Digit
            PROVE  <<a>> \o <<z>> = <<a, z>>
        BY PairOf
      <4> QED BY <4>1, Padding
    <3> QED BY <3>1, <3>2, Padding, Zenon
  <2>2. parsePositiveInt64(<<a, "0">>) = digitOf[a] * 10 + 0
    BY Padding, PairRead, Zenon
  <2>3. digitOf[a] * 10 + 0 = digitOf[a] * 10
    BY DigitShape, TwoPlaces
  <2> QED BY <2>1, <2>2, <2>3, Zenon DEF decVal
<1>2. ASSUME NEW s \in Seq(Digit)
      PROVE  /\ s \o <<a>> \in Seq(Digit)
             /\ Number(s \o <<a>>) * 10 = Number(s) * 100 + digitOf[a] * 10
  <2> DEFINE t == Append(s, a)
  <2>1. s \o <<a>> = t
    OBVIOUS
  <2>2. /\ t \in Seq(Digit) /\ Number(s) \in Nat /\ digitOf[a] \in 0..9
        /\ Number(t) = Number(s) * 10 + digitOf[a]
    BY OneMoreDigit
  <2> HIDE DEF t
  <2>3. Number(t) * 10 = Number(s) * 100 + digitOf[a] * 10
    BY <2>2
  <2> QED BY <2>1, <2>2, <2>3
<1>3. digitOf[a] \in 0..9
  BY DigitShape
<1>4. digitOf[a] * 10 \in 0..99
  BY <1>3
<1>5. Scale(Len(<<a>>)) = 10
  BY DEF Scale
<1> QED BY <1>1, <1>2, <1>4, <1>5, Zenon DEF Worth

\* and two are what they say.
LEMMA TwoDecimals ==
  ASSUME NEW a \in Digit, NEW b \in Digit
  PROVE  Worth(<<a, b>>, decVal(<<a, b>>))
<1>0. digitOf[a] \in 0..9 /\ digitOf[b] \in 0..9
  BY DigitShape
<1>1. decVal(<<a, b>>) = digitOf[a] * 10 + digitOf[b]
  <2>1. <<a, b>> \o SubSeq(<<"0", "0">>, 1, 2 - Len(<<a, b>>)) = <<a, b>>
    <3>1. 2 - Len(<<a, b>>) = 0
      OBVIOUS
    <3>2. <<a, b>> \o <<>> = <<a, b>>
      OBVIOUS
    <3> QED BY <3>1, <3>2, Padding, Zenon
  <2> QED BY <2>1, PairRead DEF decVal
<1> DEFINE v == digitOf[a] * 10 + digitOf[b]
<1>2. ASSUME NEW s \in Seq(Digit)
      PROVE  s \o <<a, b>> \in Seq(Digit) /\ Number(s \o <<a, b>>) * 1 = Number(s) * 100 + v
  <2> DEFINE t == Append(s, a)
  <2>1. s \o <<a, b>> = Append(t, b)
    OBVIOUS
  <2>2. t \in Seq(Digit) /\ Number(s) \in Nat /\ Number(t) = Number(s) * 10 + digitOf[a]
    BY OneMoreDigit
  <2> HIDE DEF t
  <2>3. Append(t, b) \in Seq(Digit) /\ Number(Append(t, b)) = Number(t) * 10 + digitOf[b]
    BY <2>2, OneMoreDigit
  <2>4. Number(Append(t, b)) * 1 = Number(s) * 100 + v
    <3>1. \A n \in Nat, x \in 0..9, y \in 0..9 :
            ((n * 10 + x) * 10 + y) * 1 = n * 100 + (x * 10 + y)
      OBVIOUS
    <3>2. Number(Append(t, b)) = (Number(s) * 10 + digitOf[a]) * 10 + digitOf[b]
      BY <2>2, <2>3
    <3> QED BY <1>0, <2>2, <3>1, <3>2, ZenonT(60)
  <2> QED BY <2>1, <2>3, <2>4
<1>3. v \in 0..99
  BY <1>0
<1>4. Scale(Len(<<a, b>>)) = 1
  BY DEF Scale
<1> HIDE DEF v
<1> QED BY <1>1, <1>2, <1>3, <1>4, Zenon DEF Worth, v

\* So up to two decimals are worth decVal.
LEMMA Decimals ==
  ASSUME NEW t \in Seq(Digit), Len(t) <= 2
  PROVE  Worth(t, decVal(t))
<1>1. CASE Len(t) = 0
  <2>1. t = <<>>
    BY <1>1
  <2> QED BY <2>1, NoDecimals
<1>2. CASE Len(t) = 1
  <2>1. t = <<t[1]>> /\ t[1] \in Digit
    BY <1>2, SMTT(30)
  <2> QED BY <2>1, OneDecimal, Zenon
<1>3. CASE Len(t) = 2
  <2>1. t = <<t[1], t[2]>> /\ t[1] \in Digit /\ t[2] \in Digit
    BY <1>3
  <2> QED BY <2>1, TwoDecimals, Zenon
<1>4. \A k \in Nat : k <= 2 => k = 0 \/ k = 1 \/ k = 2
  OBVIOUS
<1>5. Len(t) \in Nat
  OBVIOUS
<1> QED BY <1>1, <1>2, <1>3, <1>4, <1>5, Zenon

\* What int and dec are read as.
ReadAs(v, int, dec) ==
    \/ v = Failure("ErrTooManyDecimals") /\ Len(dec) > 2
    \/ /\ Len(dec) <= 2
       /\ Number(int \o dec) * Scale(Len(dec)) \in Nat
       /\ v = IF Number(int \o dec) * Scale(Len(dec)) > MaxInt THEN Failure("ErrOverflow")
              ELSE Value(Number(int \o dec) * Scale(Len(dec)))

\* Unsigned reads the number of its parts, or says why not.
LEMMA UnsignedReads ==
  ASSUME NEW int \in Seq(Digit), NEW dec \in Seq(Digit)
  PROVE  ReadAs(Unsigned(int, dec), int, dec)
<1>1. IsNumeric(int) /\ IsNumeric(dec)
  BY NumericText
<1>2. Len(dec) \in Nat
  OBVIOUS
<1>3. CASE Len(dec) > 2
  BY <1>1, <1>3 DEF Unsigned, ReadAs
<1>4. CASE ~(Len(dec) > 2)
  <2> DEFINE n == Number(int)
             p == parsePositiveInt64(int)
             v == decVal(dec)
             w == Number(int \o dec) * Scale(Len(dec))
  <2>1. n \in Nat /\ p = IF n <= MaxInt THEN n ELSE Overflow
    BY ReadsNumber
  <2>2. Len(dec) <= 2
    BY <1>2, <1>4
  <2>3. v \in 0..99 /\ w = n * 100 + v
    BY <2>2, Decimals DEF Worth
  <2>4. Unsigned(int, dec) = IF p = Overflow \/ p > (MaxInt - v) \div 100
                             THEN Failure("ErrOverflow") ELSE Value(p * 100 + v)
    BY <1>1, <1>4 DEF Unsigned
  <2> HIDE DEF n, p, v, w
  <2>5. MaxInt \in Nat /\ MaxInt >= 99
    BY WidthAssumption, WireAssumption
  <2>6. w \in Nat
    BY <2>1, <2>3
  <2>7. p = Overflow \/ p > (MaxInt - v) \div 100 <=> w > MaxInt
    <3>1. CASE n <= MaxInt
      <4>1. p = n /\ p # Overflow
        BY <2>1, <3>1 DEF Overflow
      <4>2. n > (MaxInt - v) \div 100 <=> n * 100 + v > MaxInt
        BY <2>1, <2>3, <2>5
      <4> QED BY <2>3, <4>1, <4>2
    <3>2. CASE ~(n <= MaxInt)
      <4>1. p = Overflow
        BY <2>1, <3>2
      <4>2. w > MaxInt
        BY <2>1, <2>3, <2>5, <3>2
      <4> QED BY <4>1, <4>2
    <3> QED BY <3>1, <3>2
  <2>8. ~(w > MaxInt) => p * 100 + v = w
    <3> SUFFICES ASSUME ~(w > MaxInt)
                 PROVE  p * 100 + v = w
      OBVIOUS
    <3>1. n <= MaxInt
      BY <2>1, <2>3, <2>5
    <3> QED BY <2>1, <2>3, <3>1
  <2>9. Unsigned(int, dec) = IF w > MaxInt THEN Failure("ErrOverflow") ELSE Value(w)
    BY <2>4, <2>7, <2>8, Zenon
  <2> QED BY <2>2, <2>6, <2>9, Zenon DEF ReadAs, w
<1> QED BY <1>3, <1>4

\* The characters the code tells apart are different.
LEMMA CharacterShape ==
  /\ Marks \subseteq Character /\ "" \notin Character /\ "-" \in Character
  /\ Digit \subseteq Character /\ "-" \notin Digit /\ "-" \notin Marks
  /\ " " \in Character /\ "+" \in Character /\ "+" \notin Marks /\ "+" \notin Digit
  /\ "" \notin Digit
  /\ Quote \in Character /\ "null" \in Character /\ " " \notin Digit /\ " " \notin Marks
BY TenDigits DEF Character, Marks, Quote

\* To keep twice.
LEMMA KeepKeep ==
  ASSUME NEW C, NEW s \in Seq(C), NEW S, NEW U
  PROVE  Keep(Keep(s, S), U) = Keep(s, S \cap U)
<1> DEFINE V == S \cap U
           T == {t \in Seq(C) : Keep(Keep(t, S), U) = Keep(t, V)}
<1>1. <<>> \in T
  <2>1. <<>> \in Seq(C)
    OBVIOUS
  <2>2. Keep(<<>>, S) = <<>> /\ Keep(<<>>, U) = <<>> /\ Keep(<<>>, V) = <<>>
    BY KeepEmpty, Zenon
  <2> QED BY <2>1, <2>2
<1>2. ASSUME NEW t \in T, NEW c \in C
      PROVE  Append(t, c) \in T
  <2>1. c \in V <=> c \in S /\ c \in U
    OBVIOUS
  <2>2. t \in Seq(C) /\ Keep(Keep(t, S), U) = Keep(t, V)
    OBVIOUS
  <2>3. Append(t, c) \in Seq(C)
    OBVIOUS
  <2> HIDE DEF V
  <2> DEFINE x == Keep(t, S)
  <2>4. x \in Seq(C)
    BY <2>2, KeepType, Zenon
  <2>5. Keep(Append(t, c), S) = IF c \in S THEN Append(x, c) ELSE x
    BY <2>2, KeepAppend
  <2>6. Keep(Append(t, c), V) = IF c \in V THEN Append(Keep(t, V), c) ELSE Keep(t, V)
    BY <2>2, KeepAppend
  <2> HIDE DEF x
  <2>7. Keep(Append(x, c), U) = IF c \in U THEN Append(Keep(x, U), c) ELSE Keep(x, U)
    BY <2>4, KeepAppend
  <2>8. Keep(x, U) = Keep(t, V)
    BY <2>2 DEF x
  <2>9. Keep(Keep(Append(t, c), S), U) = Keep(Append(t, c), V)
    BY <2>1, <2>5, <2>6, <2>7, <2>8
  <2> QED BY <2>3, <2>9 DEF V
<1> HIDE DEF T
<1>3. T = Seq(C)
  BY <1>1, <1>2, TextInduction DEF T
<1> QED BY <1>3 DEF T, V

\* What is left of s when the grouping character k goes is digits: they are the
\* digits of s, which has no sign.
LEMMA DigitsOf ==
  ASSUME NEW s \in Seq(Character), NEW k \in Marks,
         Keep(s, Character \ {k}) \in Seq(Digit)
  PROVE  Keep(s, Digit) = Keep(s, Character \ {k}) /\ Without(s, "-")
<1> DEFINE C == Character
           S == C \ {k}
           t == Keep(s, S)
           M == {"-"}
<1>1. t \in Seq(Digit) /\ s \in Seq(C) /\ k \notin Digit /\ k # "-"
  BY MarkFacts, CharacterShape
<1>2. \A c \in C : /\ c \in S \cap Digit <=> c \in Digit
                   /\ c \in S \cap M <=> c \in M
  BY <1>1
<1> HIDE DEF C, S, t, M
<1>3. Keep(t, Digit) = Keep(s, S \cap Digit) /\ Keep(t, M) = Keep(s, S \cap M)
  BY <1>1, KeepKeep DEF t
<1>4. Keep(s, S \cap Digit) = Keep(s, Digit)
  BY <1>1, <1>2, KeepAgree
<1>5. Keep(s, S \cap M) = Keep(s, M)
  BY <1>1, <1>2, KeepAgree
<1>6. Keep(t, Digit) = t
  <2>1. \A i \in 1..Len(t) : t[i] \in Digit
    BY <1>1
  <2> QED BY <1>1, <2>1, KeepAll
<1>7. Without(t, "-")
  <2>1. "-" \notin Digit
    BY CharacterShape
  <2> QED BY <1>1, <2>1, WithoutOther
<1>8. Count(t, "-") = 0
  <2>1. t \in Seq(Character)
    <3>1. Digit \subseteq Character
      BY CharacterShape
    <3> HIDE DEF t
    <3> QED BY <1>1, <3>1
  <2> QED BY <1>7, <2>1, CharacterShape, KeepNothing, Zenon
<1>9. Count(s, "-") = 0
  BY <1>3, <1>5, <1>8 DEF Count, M
<1>10. Without(s, "-")
  <2>1. ~(Count(s, "-") >= 1)
    BY <1>9
  <2> QED BY <1>1, <2>1, CharacterShape, KeepNothing DEF C
<1> QED BY <1>3, <1>4, <1>6, <1>10, Zenon DEF t, S, C

\* A text of digits has nothing else.
LEMMA DigitsAlone ==
  ASSUME NEW s \in Seq(Digit)
  PROVE  Keep(s, Digit) = s /\ Without(s, "-") /\ Without(s, ".") /\ Without(s, ",")
<1>1. \A i \in 1..Len(s) : s[i] \in Digit
  OBVIOUS
<1>2. Keep(s, Digit) = s
  BY <1>1, KeepAll
<1>3. "-" \notin Digit /\ "." \notin Digit /\ "," \notin Digit
  BY DigitShape
<1> QED BY <1>2, <1>3, WithoutOther

-----------------------------------------------------------------------------
(* What a text says. *)

\* The positions of separators.
MarksIn(s) == {i \in 1..Len(s) : s[i] \in Marks}
\* The last of some positions.
LastIn(P) == CHOOSE i \in P : \A j \in P : j <= i

\* WrittenDecimals in these terms.
LEMMA WrittenBy ==
  ASSUME NEW C, NEW s \in Seq(C)
  PROVE  WrittenDecimals(s) = IF MarksIn(s) = {} \/ Count(s, s[LastIn(MarksIn(s))]) > 1
                              THEN 0 ELSE Len(s) - LastIn(MarksIn(s))
<1> DEFINE P == {i \in DOMAIN s : s[i] \in {".", ","}}
<1>1. DOMAIN s = 1..Len(s)
  OBVIOUS
<1>2. P = MarksIn(s)
  BY <1>1, Zenon DEF MarksIn, Marks
<1>3. WrittenDecimals(s) = IF P = {} \/ Count(s, s[LastIn(P)]) > 1
                           THEN 0 ELSE Len(s) - LastIn(P)
  BY Zenon DEF WrittenDecimals, LastIn
<1> HIDE DEF P
<1> QED BY <1>2, <1>3

\* A text without separators shows no decimals,
LEMMA WrittenNone ==
  ASSUME NEW C, NEW s \in Seq(C), Without(s, "."), Without(s, ",")
  PROVE  WrittenDecimals(s) = 0
<1>1. MarksIn(s) = {}
  BY Zenon DEF Without, MarksIn, Marks
<1> QED BY <1>1, WrittenBy

\* and one with a last separator shows what follows it, unless it groups.
LEMMA WrittenSome ==
  ASSUME NEW s, NEW g, NEW d, NEW h, NEW C, LastMark(s, g, d, h, C)
  PROVE  WrittenDecimals(s) = IF Without(g, d) THEN Len(h) ELSE 0
<1> DEFINE P == MarksIn(s)
           n == Len(g) + 1
           m == Len(h)
<1>1. /\ s \in Seq(C) /\ Around(s, g, d, h, C) /\ Len(g) \in Nat /\ m \in Nat
      /\ \A i \in 1..m : h[i] \notin Marks
  BY LastMarkShape
<1>2. d \in Marks
  BY DEF LastMark
<1>3. /\ Len(s) = n + m /\ s[n] = d
      /\ \A i \in 1..m : s[n + i] = h[i]
  BY <1>1 DEF Around
<1>4. n \in Nat /\ n >= 1 /\ n \in 1..Len(s)
  BY <1>1, <1>3
<1> HIDE DEF n, m
<1>5. n \in P
  BY <1>2, <1>3, <1>4, Zenon DEF MarksIn
<1>6. \A j \in P : j \in Nat /\ j <= n
  <2> SUFFICES ASSUME NEW j \in 1..Len(s), s[j] \in Marks
               PROVE  j \in Nat /\ j <= n
    BY DEF MarksIn
  <2>1. j \in Nat /\ j <= n + m
    BY <1>3, <1>1
  <2>2. ASSUME j > n
        PROVE  FALSE
    <3> DEFINE i == j - n
    <3>1. i \in 1..m /\ n + i = j
      BY <1>1, <1>4, <2>1, <2>2
    <3> HIDE DEF i
    <3>2. s[j] = h[i] /\ h[i] \notin Marks
      BY <1>1, <1>3, <3>1
    <3> QED BY <3>2
  <2> QED BY <1>4, <2>1, <2>2
<1>7. LastIn(P) = n /\ P # {}
  <2> HIDE DEF P
  <2>1. \A i \in P : (\A j \in P : j <= i) => i = n
    BY <1>4, <1>5, <1>6
  <2> QED BY <1>5, <1>6, <2>1 DEF LastIn
<1>8. WrittenDecimals(s) = IF P = {} \/ Count(s, s[LastIn(P)]) > 1
                           THEN 0 ELSE Len(s) - LastIn(P)
  BY <1>1, WrittenBy
<1>9. Len(s) - n = m
  BY <1>1, <1>3, <1>4
<1>10. Count(s, d) > 1 <=> ~Without(g, d)
  BY LastMarkCount
<1> HIDE DEF P
<1> QED BY <1>3, <1>7, <1>8, <1>9, <1>10 DEF m

\* There is a last separator.
HasLastMark(s, C) == \E g, d, h : LastMark(s, g, d, h, C)

\* An alphabet that has the separators.
Lettered(C) == Marks \subseteq C /\ "" \notin C
\* There is no separator.
WithoutMarks(s) == Without(s, ".") /\ Without(s, ",")

\* A text without a separator or with a last one.
LEMMA SplitLast ==
  ASSUME NEW C, Lettered(C), NEW s \in Seq(C),
         ~WithoutMarks(s)
  PROVE  HasLastMark(s, C)
<1> DEFINE P == MarksIn(s)
           L == Len(s)
<1>1. L \in Nat
  OBVIOUS
<1> HIDE DEF L
<1>2. \A i \in P : i \in Nat /\ i \in 1..L /\ i <= L /\ s[i] \in Marks
  BY <1>1 DEF MarksIn, L
<1>3. \A i \in 1..L : s[i] \in Marks => i \in P
  BY DEF MarksIn, L
<1>4. P # {} /\ P \in SUBSET Nat
  <2>1. PICK i \in 1..L : s[i] \in Marks
    BY Zenon DEF WithoutMarks, Without, Marks, L
  <2> QED BY <1>2, <1>3, <2>1
<1> HIDE DEF P
<1>5. PICK i \in P : \A j \in P : j <= i
  BY <1>1, <1>2, <1>4, Greatest, Zenon
<1>6. i \in 1..L /\ s[i] \in Marks
  BY <1>2
<1> DEFINE g == SubSeq(s, 1, i - 1)
           h == SubSeq(s, i + 1, Len(s))
           d == s[i]
<1>7. /\ g \in Seq(C) /\ h \in Seq(C) /\ Len(h) = L - i
      /\ \A j \in 1..L - i : h[j] = s[i + j]
      /\ s = g \o <<d>> \o h
  BY <1>6, SplitAt, Zenon DEF L
<1> HIDE DEF g, h, d
<1>8. \A j \in 1..L - i : h[j] \in C \ Marks
  <2> SUFFICES ASSUME NEW j \in 1..L - i
               PROVE  h[j] \in C \ Marks
    OBVIOUS
  <2>1. i + j \in 1..L /\ ~(i + j <= i)
    BY <1>1, <1>6
  <2>2. s[i + j] \notin Marks
    BY <1>3, <1>5, <2>1
  <2>3. j \in 1..Len(h)
    BY <1>7
  <2>4. h[j] \in C
    BY <1>7, <2>3
  <2> QED BY <1>7, <2>2, <2>4
<1>9. h \in Seq(C \ Marks)
  <2> DEFINE D == C \ Marks
  <2>1. L - i \in Nat /\ \A j \in 1..L - i : h[j] \in D
    BY <1>1, <1>6, <1>8
  <2> HIDE DEF D
  <2>2. Len(h) \in Nat /\ \A j \in 1..Len(h) : h[j] \in D
    BY <1>7, <2>1
  <2>3. h = [j \in 1..Len(h) |-> h[j]]
    BY <1>7
  <2> QED BY <2>2, <2>3 DEF D
<1>10. LastMark(s, g, d, h, C)
  BY <1>6, <1>7, <1>9, Zenon DEF LastMark, d, Lettered
<1> QED BY <1>10 DEF HasLastMark

\* s is what its parts say: digits, with no sign among them.
Faithful(s, int, dec) ==
    int \in Seq(Digit) /\ dec \in Seq(Digit) =>
       /\ Keep(s, Digit) = int \o dec
       /\ Without(s, "-")
       /\ WrittenDecimals(s) = Len(dec)

\* The cents that a text shows, without its sign.
Whole(s) == Number(Keep(s, Digit)) * Scale(WrittenDecimals(s))

\* A body read as what it shows.
Exact(s, v) ==
    /\ Without(s, "-")
    /\ WrittenDecimals(s) <= 2 /\ WrittenDecimals(s) \in Nat
    /\ Whole(s) \in Nat
    /\ v = IF Whole(s) > MaxInt THEN Failure("ErrOverflow") ELSE Value(Whole(s))

\* Or refused.
BodyRead(s, v) ==
    \/ v = Failure("ErrInvalidFormat")
    \/ v = Failure("ErrTooManyDecimals")
    \/ Exact(s, v)

\* Only an unsigned text of digits is more than an invalid format.
LEMMA UnsignedRefuses ==
  ASSUME NEW int, NEW dec, ~(IsNumeric(int) /\ IsNumeric(dec))
  PROVE  Unsigned(int, dec) = Failure("ErrInvalidFormat")
BY DEF Unsigned

\* Parts that are what the text says are read as the text says.
LEMMA FaithfulRead ==
  ASSUME NEW s, NEW C, NEW int \in Seq(C), NEW dec \in Seq(C),
         Faithful(s, int, dec)
  PROVE  BodyRead(s, Unsigned(int, dec))
<1>1. CASE ~(IsNumeric(int) /\ IsNumeric(dec))
  BY <1>1, UnsignedRefuses DEF BodyRead
<1>2. CASE IsNumeric(int) /\ IsNumeric(dec)
  <2>1. int \in Seq(Digit) /\ dec \in Seq(Digit)
    BY <1>2, NumericText
  <2>2. /\ Keep(s, Digit) = int \o dec /\ Without(s, "-")
        /\ WrittenDecimals(s) = Len(dec)
    BY <2>1 DEF Faithful
  <2> DEFINE v == Unsigned(int, dec)
  <2>3. ReadAs(v, int, dec)
    BY <2>1, UnsignedReads
  <2>4. Len(dec) \in Nat
    BY <2>1
  <2> HIDE DEF v
  <2>5. CASE Len(dec) <= 2 /\ Number(int \o dec) * Scale(Len(dec)) \in Nat
             /\ v = IF Number(int \o dec) * Scale(Len(dec)) > MaxInt
                    THEN Failure("ErrOverflow")
                    ELSE Value(Number(int \o dec) * Scale(Len(dec)))
    <3>1. Whole(s) = Number(int \o dec) * Scale(Len(dec))
      BY <2>2 DEF Whole
    <3>2. Exact(s, v)
      BY <2>2, <2>4, <2>5, <3>1, Zenon DEF Exact
    <3> QED BY <3>2 DEF BodyRead, v
  <2>6. CASE v = Failure("ErrTooManyDecimals")
    BY <2>6 DEF BodyRead, v
  <2> QED BY <2>3, <2>5, <2>6, Zenon DEF ReadAs
<1> QED BY <1>1, <1>2

\* FromBody, once the parts are known.
LEMMA BodyAt ==
  ASSUME NEW s, NEW int, NEW dec, s # <<>>,
         Parts(s, Separators(s)) = [int |-> int, dec |-> dec]
  PROVE  FromBody(s) = Unsigned(int, dec)
<1> DEFINE p == Parts(s, Separators(s))
<1>1. p.int = int /\ p.dec = dec
  OBVIOUS
<1>2. FromBody(s) = FromParts(p)
  BY Zenon DEF FromBody
<1> HIDE DEF p
<1> QED BY <1>1, <1>2 DEF FromParts

\* The empty text.
LEMMA NoText ==
  ASSUME NEW C
  PROVE  /\ <<>> \in Seq(C) /\ Len(<<>>) = 0
         /\ \A s \in Seq(C) : s \o <<>> = s
OBVIOUS

\* A body without separators,
LEMMA BodyPlain ==
  ASSUME NEW s \in Seq(Character), s # <<>>, Without(s, "."), Without(s, ",")
  PROVE  BodyRead(s, FromBody(s))
<1>1. Parts(s, Separators(s)) = [int |-> s, dec |-> <<>>]
  BY CharacterShape, PartsNone, Zenon
<1>2. FromBody(s) = Unsigned(s, <<>>)
  BY <1>1, BodyAt
<1>3. <<>> \in Seq(Character) /\ Len(<<>>) = 0 /\ <<>> \in Seq(Digit)
  BY NoText, Zenon
<1>4. ASSUME s \in Seq(Digit)
      PROVE  Keep(s, Digit) = s \o <<>> /\ Without(s, "-") /\ WrittenDecimals(s) = 0
  <2>1. Keep(s, Digit) = s /\ Without(s, "-")
    BY <1>4, DigitsAlone
  <2>2. s \o <<>> = s
    BY <1>4, NoText, Zenon
  <2>3. WrittenDecimals(s) = 0
    BY WrittenNone
  <2> QED BY <2>1, <2>2, <2>3
<1>5. Faithful(s, s, <<>>)
  BY <1>3, <1>4, Zenon DEF Faithful
<1>6. BodyRead(s, Unsigned(s, <<>>))
  BY <1>3, <1>5, FaithfulRead
<1> QED BY <1>2, <1>6, Zenon

\* Nothing is taken for a sign that neither part has.
LEMMA SignlessAround ==
  ASSUME NEW s, NEW g, NEW d, NEW h, NEW C, LastMark(s, g, d, h, C), NEW c,
         c \notin Marks, Without(g, c), Without(h, c)
  PROVE  Without(s, c)
<1> DEFINE n == Len(g)
           m == Len(h)
<1>1. /\ n \in Nat /\ m \in Nat /\ Len(s) = n + 1 + m /\ s[n + 1] = d /\ d # c
      /\ \A i \in 1..n : s[i] = g[i] /\ g[i] # c
      /\ \A i \in 1..m : s[n + 1 + i] = h[i] /\ h[i] # c
  <2>1. Around(s, g, d, h, C) /\ n \in Nat /\ m \in Nat
    BY LastMarkShape
  <2>2. d # c
    BY DEF LastMark
  <2> QED BY <2>1, <2>2 DEF Around, Without
<1> HIDE DEF n, m
<1> SUFFICES ASSUME NEW i \in 1..Len(s)
             PROVE  s[i] # c
  BY DEF Without
<1>2. CASE i <= n
  BY <1>1, <1>2
<1>3. CASE i = n + 1
  BY <1>1, <1>3
<1>4. CASE i > n + 1
  <2> DEFINE j == i - (n + 1)
  <2>1. j \in 1..m /\ n + 1 + j = i
    BY <1>1, <1>4
  <2> HIDE DEF j
  <2> QED BY <1>1, <2>1
<1> QED BY <1>1, <1>2, <1>3, <1>4

\* one with decimals,
LEMMA BodyDecimal ==
  ASSUME NEW s, NEW g, NEW d, NEW h, LastMark(s, g, d, h, Character),
         s # <<>>, Without(g, d)
  PROVE  /\ FromBody(s) = Unsigned(Keep(g, Character \ {Comma(d)}), h)
         /\ Keep(g, Character \ {Comma(d)}) \in Seq(Character)
         /\ Faithful(s, Keep(g, Character \ {Comma(d)}), h)
<1> DEFINE k == Comma(d)
           int == Keep(g, Character \ {k})
<1>1. /\ g \in Seq(Character) /\ h \in Seq(Character) /\ d \in Character
      /\ d \in Marks /\ k \in Marks /\ d \notin Digit /\ Len(h) \in Nat
  <2>1. d \in Marks
    BY DEF LastMark
  <2> QED BY <2>1, LastMarkShape, MarkFacts
<1>2. Parts(s, Separators(s)) = [int |-> int, dec |-> h]
  BY PartsDecimal
<1>3. int \in Seq(Character)
  BY <1>1, KeepType, Zenon
<1>4. ASSUME int \in Seq(Digit), h \in Seq(Digit)
      PROVE  /\ Keep(s, Digit) = int \o h
             /\ Without(s, "-")
             /\ WrittenDecimals(s) = Len(h)
  <2>1. Keep(g, Digit) = int /\ Without(g, "-")
    BY <1>1, <1>4, DigitsOf
  <2>2. Keep(h, Digit) = h /\ Without(h, "-")
    BY <1>4, DigitsAlone
  <2>3. KeptAround(g, d, h, Digit)
    BY <1>1, KeepAround
  <2>4. s = g \o <<d>> \o h
    BY Zenon DEF LastMark
  <2>5. Keep(s, Digit) = int \o h
    BY <1>1, <2>1, <2>2, <2>3, <2>4, Zenon DEF KeptAround
  <2>6. Without(s, "-")
    BY <2>1, <2>2, CharacterShape, SignlessAround, Zenon
  <2>7. WrittenDecimals(s) = Len(h)
    BY WrittenSome, Zenon
  <2> QED BY <2>5, <2>6, <2>7
<1> HIDE DEF int
<1>5. Faithful(s, int, h)
  BY <1>4, Zenon DEF Faithful
<1>6. FromBody(s) = Unsigned(int, h)
  BY <1>2, BodyAt, Zenon
<1> QED BY <1>3, <1>5, <1>6, Zenon DEF int, k

\* one with groups alone,
LEMMA BodyGrouped ==
  ASSUME NEW s, NEW g, NEW d, NEW h, LastMark(s, g, d, h, Character),
         s # <<>>, ~Without(g, d), Without(g, Comma(d))
  PROVE  BodyRead(s, FromBody(s))
<1> DEFINE int == Keep(s, Character \ {d})
<1>1. d \in Marks /\ s \in Seq(Character)
  BY LastMarkShape, Zenon DEF LastMark
<1>2. Parts(s, Separators(s)) = [int |-> int, dec |-> <<>>]
  BY PartsGrouped
<1>3. int \in Seq(Character)
  BY <1>1, KeepType, Zenon
<1>4. ASSUME int \in Seq(Digit)
      PROVE  Keep(s, Digit) = int \o <<>> /\ Without(s, "-") /\ WrittenDecimals(s) = 0
  <2>1. Keep(s, Digit) = int /\ Without(s, "-")
    BY <1>1, <1>4, DigitsOf
  <2> HIDE DEF int
  <2>2. int \o <<>> = int
    BY <1>4
  <2>3. WrittenDecimals(s) = 0
    BY WrittenSome, Zenon
  <2> QED BY <2>1, <2>2, <2>3
<1> HIDE DEF int
<1>5. <<>> \in Seq(Character) /\ Len(<<>>) = 0
  OBVIOUS
<1>6. Faithful(s, int, <<>>)
  BY <1>4, <1>5, Zenon DEF Faithful
<1>7. BodyRead(s, Unsigned(int, <<>>))
  BY <1>3, <1>5, <1>6, FaithfulRead
<1> QED BY <1>2, <1>7, BodyAt, Zenon

\* and one that has both more than once, which is refused.
LEMMA BodyMixed ==
  ASSUME NEW s, NEW g, NEW d, NEW h, LastMark(s, g, d, h, Character),
         s # <<>>, ~Without(g, d), ~Without(g, Comma(d))
  PROVE  BodyRead(s, FromBody(s))
<1> DEFINE p == Parts(s, Separators(s))
<1>1. ~IsNumeric(p.dec)
  BY PartsMixed
<1>2. FromBody(s) = Unsigned(p.int, p.dec)
  BY Zenon DEF FromBody, FromParts
<1> HIDE DEF p
<1>3. Unsigned(p.int, p.dec) = Failure("ErrInvalidFormat")
  BY <1>1, UnsignedRefuses
<1> QED BY <1>2, <1>3 DEF BodyRead

\* What FromString makes of a text without its sign: the digits it shows, at the
\* place its last separator gives them, or an error.
LEMMA BodyReads ==
  ASSUME NEW s \in Seq(Character)
  PROVE  BodyRead(s, FromBody(s))
<1>1. CASE s = <<>>
  BY <1>1 DEF FromBody, BodyRead
<1>2. CASE s # <<>> /\ WithoutMarks(s)
  BY <1>2, BodyPlain DEF WithoutMarks
<1>3. CASE s # <<>> /\ ~WithoutMarks(s)
  <2>1. Lettered(Character)
    BY CharacterShape, Zenon DEF Lettered
  <2>2. HasLastMark(s, Character)
    BY <1>3, <2>1, SplitLast
  <2>3. PICK g, d, h : LastMark(s, g, d, h, Character)
    BY <2>2 DEF HasLastMark
  <2>4. CASE Without(g, d)
    <3> DEFINE int == Keep(g, Character \ {Comma(d)})
    <3>1. FromBody(s) = Unsigned(int, h) /\ int \in Seq(Character) /\ Faithful(s, int, h)
      BY <1>3, <2>3, <2>4, BodyDecimal, Zenon
    <3>2. h \in Seq(Character)
      BY <2>3, LastMarkShape
    <3> HIDE DEF int
    <3>3. BodyRead(s, Unsigned(int, h))
      BY <3>1, <3>2, FaithfulRead
    <3> QED BY <3>1, <3>3, Zenon
  <2>5. CASE ~Without(g, d) /\ Without(g, Comma(d))
    BY <1>3, <2>3, <2>5, BodyGrouped
  <2>6. CASE ~Without(g, d) /\ ~Without(g, Comma(d))
    BY <1>3, <2>3, <2>6, BodyMixed
  <2> QED BY <2>4, <2>5, <2>6
<1> QED BY <1>1, <1>2, <1>3

\* Three texts in a row.
Associated(a, b, e, C) ==
    /\ a \o b \in Seq(C) /\ b \o e \in Seq(C) /\ (a \o b) \o e \in Seq(C)
    /\ (a \o b) \o e = a \o (b \o e)

\* They may be joined in any order.
LEMMA Associates ==
  ASSUME NEW C, NEW a \in Seq(C), NEW b \in Seq(C), NEW e \in Seq(C)
  PROVE  Associated(a, b, e, C)
<1> DEFINE x == (a \o b) \o e
           y == a \o (b \o e)
<1>1. x \in Seq(C) /\ y \in Seq(C) /\ Len(x) = Len(y) /\ Len(x) \in Nat
      /\ a \o b \in Seq(C) /\ b \o e \in Seq(C)
  OBVIOUS
<1>2. \A i \in 1..Len(x) : x[i] = y[i]
  OBVIOUS
<1> HIDE DEF x, y
<1>3. x = y
  BY <1>1, <1>2
<1> QED BY <1>1, <1>3 DEF x, y, Associated

\* A text and its first character.
Led(s, c, t, C) == c \in C /\ t \in Seq(C) /\ s = <<c>> \o t

\* Every text but the empty one has a first character.
LEMMA Leads ==
  ASSUME NEW C, NEW s \in Seq(C), s # <<>>
  PROVE  Led(s, s[1], Tail(s), C)
<1> DEFINE t == Tail(s)
           c == s[1]
           n == Len(s)
<1>1. n \in Nat /\ n >= 1 /\ c \in C
  OBVIOUS
<1>2. t \in Seq(C) /\ Len(t) = n - 1 /\ \A i \in 1..n - 1 : t[i] = s[i + 1]
  OBVIOUS
<1> HIDE DEF t
<1> DEFINE u == <<c>> \o t
<1>3. u \in Seq(C) /\ Len(u) = n /\ u[1] = c /\ \A i \in 1..n - 1 : u[i + 1] = t[i]
  BY <1>1, <1>2
<1> HIDE DEF u
<1>4. \A i \in 1..n : u[i] = s[i]
  <2> SUFFICES ASSUME NEW i \in 1..n
               PROVE  u[i] = s[i]
    OBVIOUS
  <2>1. CASE i = 1
    BY <1>3, <2>1
  <2>2. CASE i # 1
    <3>1. i - 1 \in 1..n - 1 /\ (i - 1) + 1 = i
      BY <1>1, <2>2
    <3> QED BY <1>2, <1>3, <3>1
  <2> QED BY <2>1, <2>2
<1>5. s = u
  BY <1>3, <1>4
<1> QED BY <1>1, <1>2, <1>5 DEF Led, t, c, u

\* Such a text, position by position.
LEMMA LedShape ==
  ASSUME NEW s, NEW c, NEW t, NEW C, Led(s, c, t, C)
  PROVE  /\ s \in Seq(C) /\ Len(s) = Len(t) + 1 /\ Len(t) \in Nat /\ s[1] = c
         /\ \A i \in 1..Len(t) : s[i + 1] = t[i]
         /\ s # <<>>
<1>1. c \in C /\ t \in Seq(C) /\ s = <<c>> \o t
  BY DEF Led
<1> QED BY <1>1

\* What is not in it.
LEMMA LedWithout ==
  ASSUME NEW s, NEW c, NEW t, NEW C, Led(s, c, t, C), NEW k
  PROVE  Without(s, k) <=> c # k /\ Without(t, k)
<1> DEFINE m == Len(t)
<1>1. /\ Len(s) = m + 1 /\ m \in Nat /\ s[1] = c
      /\ \A i \in 1..m : s[i + 1] = t[i]
  BY LedShape
<1> HIDE DEF m
<1>2. ASSUME Without(s, k)
      PROVE  c # k /\ \A i \in 1..m : t[i] # k
  <2>1. \A i \in 1..m + 1 : s[i] # k
    BY <1>1, <1>2 DEF Without
  <2>2. 1 \in 1..m + 1 /\ \A i \in 1..m : i + 1 \in 1..m + 1
    BY <1>1
  <2> QED BY <1>1, <2>1, <2>2
<1>3. ASSUME c # k, \A i \in 1..m : t[i] # k
      PROVE  \A i \in 1..m + 1 : s[i] # k
  <2> SUFFICES ASSUME NEW i \in 1..m + 1
               PROVE  s[i] # k
    OBVIOUS
  <2>1. CASE i = 1
    BY <1>1, <1>3, <2>1
  <2>2. CASE i # 1
    <3>1. i - 1 \in 1..m /\ (i - 1) + 1 = i
      BY <1>1, <2>2
    <3> QED BY <1>1, <1>3, <3>1
  <2> QED BY <2>1, <2>2
<1> QED BY <1>1, <1>2, <1>3 DEF Without, m

\* A first character that is dropped.
LEMMA LedKeep ==
  ASSUME NEW s, NEW c, NEW t, NEW C, Led(s, c, t, C), NEW S, c \notin S
  PROVE  Keep(s, S) = Keep(t, S)
<1> DEFINE o == <<c>>
           k == Keep(t, S)
<1>1. o \in Seq(C) /\ t \in Seq(C) /\ s = o \o t
  BY DEF Led
<1>2. Keep(o, S) = <<>>
  BY KeepOne
<1> HIDE DEF o
<1>3. Keep(s, S) = Keep(o, S) \o k
  BY <1>1, KeepConcat
<1>4. k \in Seq(C)
  BY <1>1, KeepType, Zenon
<1> HIDE DEF k
<1>5. <<>> \o k = k
  BY <1>4
<1> QED BY <1>2, <1>3, <1>5 DEF k

\* A first character before the last separator.
LEMMA LedMark ==
  ASSUME NEW s, NEW c, NEW t, NEW C, Led(s, c, t, C), NEW g, NEW d, NEW h,
         LastMark(t, g, d, h, C)
  PROVE  /\ LastMark(s, <<c>> \o g, d, h, C)
         /\ Led(<<c>> \o g, c, g, C)
<1> DEFINE o == <<c>>
           m == <<d>>
           u == o \o g
<1>1. o \in Seq(C) /\ c \in C /\ s = o \o t
  BY DEF Led
<1>2. g \in Seq(C) /\ d \in C /\ h \in Seq(C)
  BY LastMarkShape
<1>3. t = (g \o m) \o h
  BY Zenon DEF LastMark
<1>4. m \in Seq(C)
  BY <1>2
<1> HIDE DEF o, m
<1>5. u \in Seq(C) /\ g \o m \in Seq(C)
      /\ (o \o g) \o m = o \o (g \o m)
  <2>1. Associated(o, g, m, C)
    BY <1>1, <1>2, <1>4, Associates
  <2> QED BY <2>1, Zenon DEF Associated
<1>6. (o \o (g \o m)) \o h = o \o ((g \o m) \o h)
  <2>1. Associated(o, g \o m, h, C)
    BY <1>1, <1>2, <1>5, Associates
  <2> QED BY <2>1, Zenon DEF Associated
<1>7. s = (u \o m) \o h
  BY <1>1, <1>3, <1>5, <1>6
<1> HIDE DEF u
<1>8. LastMark(s, u, d, h, C)
  BY <1>5, <1>7, Zenon DEF LastMark, m
<1>9. Led(u, c, g, C)
  BY <1>1, <1>2, Zenon DEF Led, u, o
<1> QED BY <1>8, <1>9, Zenon DEF u, o

\* A sign shows no decimals,
LEMMA LedDecimals ==
  ASSUME NEW s, NEW c, NEW t, Led(s, c, t, Character), c \notin Marks
  PROVE  WrittenDecimals(s) = WrittenDecimals(t)
<1> DEFINE C == Character
<1>1. s \in Seq(C) /\ t \in Seq(C)
  BY LedShape DEF Led
<1>2. Lettered(C)
  BY CharacterShape, Zenon DEF Lettered
<1>3. c # "." /\ c # ","
  BY DEF Marks
<1>4. CASE WithoutMarks(t)
  <2>1. Without(t, ".") /\ Without(t, ",")
    BY <1>4 DEF WithoutMarks
  <2>2. Without(s, ".") /\ Without(s, ",")
    BY <1>3, <2>1, LedWithout, Zenon
  <2>3. WrittenDecimals(s) = 0 /\ WrittenDecimals(t) = 0
    BY <1>1, <2>1, <2>2, WrittenNone, Zenon
  <2> QED BY <2>3
<1>5. CASE ~WithoutMarks(t)
  <2>1. HasLastMark(t, C)
    BY <1>1, <1>2, <1>5, SplitLast
  <2>2. PICK g, d, h : LastMark(t, g, d, h, C)
    BY <2>1 DEF HasLastMark
  <2> DEFINE u == <<c>> \o g
  <2>3. LastMark(s, u, d, h, C) /\ Led(u, c, g, C)
    BY <2>2, LedMark, Zenon
  <2> HIDE DEF u
  <2>4. d \in Marks
    BY <2>2 DEF LastMark
  <2>5. Without(u, d) <=> Without(g, d)
    <3>1. c # d
      BY <2>4
    <3> QED BY <2>3, <3>1, LedWithout, Zenon
  <2>6. WrittenDecimals(s) = IF Without(u, d) THEN Len(h) ELSE 0
    BY <2>3, WrittenSome, Zenon
  <2>7. WrittenDecimals(t) = IF Without(g, d) THEN Len(h) ELSE 0
    BY <2>2, WrittenSome, Zenon
  <2> QED BY <2>5, <2>6, <2>7
<1> QED BY <1>4, <1>5

\* and no cents.
LEMMA LedWhole ==
  ASSUME NEW s, NEW c, NEW t, Led(s, c, t, Character), c \notin Marks, c \notin Digit
  PROVE  WrittenDecimals(s) = WrittenDecimals(t) /\ Whole(s) = Whole(t)
<1>1. WrittenDecimals(s) = WrittenDecimals(t)
  BY LedDecimals
<1>2. Keep(s, Digit) = Keep(t, Digit)
  BY LedKeep
<1> QED BY <1>1, <1>2 DEF Whole

\* FromString by the sign of the text.
LEMMA Dispatch ==
  ASSUME NEW s, s # <<>>
  PROVE  /\ s[1] = "-" => FromTrimmed(s) = Opposite(FromBody(Tail(s)))
         /\ s[1] = "+" => FromTrimmed(s) = FromBody(Tail(s))
         /\ s[1] \notin {"-", "+"} => FromTrimmed(s) = FromBody(s)
BY DEF FromTrimmed

\* WrittenCents by the sign of the text.
LEMMA SignShown ==
  ASSUME NEW C, NEW s \in Seq(C), WrittenDecimals(s) \in Nat
  PROVE  WrittenCents(s) = IF Without(s, "-") THEN Whole(s) ELSE -Whole(s)
<1> DEFINE d == WrittenDecimals(s)
           n == Number(Keep(s, Digit))
<1>1. "-" \in ToSet(s) <=> ~Without(s, "-")
  <2>1. DOMAIN s = 1..Len(s)
    OBVIOUS
  <2> QED BY <2>1, Zenon DEF ToSet, Without
<1>2. Scale(d) = CASE d = 0 -> 100 [] d = 1 -> 10 [] OTHER -> 1
  BY DEF Scale
<1>3. WrittenCents(s) = IF "-" \in ToSet(s)
                        THEN -(n * (CASE d = 0 -> 100 [] d = 1 -> 10 [] OTHER -> 1))
                        ELSE n * (CASE d = 0 -> 100 [] d = 1 -> 10 [] OTHER -> 1)
  BY Zenon DEF WrittenCents
<1>4. Whole(s) = n * (CASE d = 0 -> 100 [] d = 1 -> 10 [] OTHER -> 1)
  BY <1>2, Zenon DEF Whole
<1> QED BY <1>1, <1>3, <1>4, Zenon

\* What a text says is what its reader makes of it.
ReadExactly(s, v) ==
    /\ WrittenDecimals(s) <= 2
    /\ Whole(s) \in Nat
    /\ WrittenCents(s) = Whole(s) \/ WrittenCents(s) = -Whole(s)
    /\ v = IF Whole(s) > MaxInt THEN Failure("ErrOverflow") ELSE Value(WrittenCents(s))

\* Or refused.
ReadText(s, v) ==
    \/ v = Failure("ErrEmptyString")
    \/ v = Failure("ErrInvalidFormat")
    \/ v = Failure("ErrTooManyDecimals")
    \/ ReadExactly(s, v)

\* The minus sign changes no error.
LEMMA OppositeRead ==
  /\ Opposite(Failure("ErrInvalidFormat")) = Failure("ErrInvalidFormat")
  /\ Opposite(Failure("ErrTooManyDecimals")) = Failure("ErrTooManyDecimals")
  /\ Opposite(Failure("ErrOverflow")) = Failure("ErrOverflow")
  /\ \A x : Opposite(Value(x)) = Value(-x)
BY DEF Opposite, Failure, Value

\* With or without a sign, a text is read as what it says, or refused.
LEMMA TrimmedReads ==
  ASSUME NEW s \in Seq(Character)
  PROVE  ReadText(s, FromTrimmed(s))
<1>1. CASE s = <<>>
  BY <1>1 DEF FromTrimmed, ReadText
<1>2. CASE s # <<>>
  <2> DEFINE c == s[1]
             t == Tail(s)
  <2>1. Led(s, c, t, Character)
    BY <1>2, Leads, Zenon
  <2>2. t \in Seq(Character)
    BY <2>1 DEF Led
  <2>3. /\ c = "-" => FromTrimmed(s) = Opposite(FromBody(t))
        /\ c = "+" => FromTrimmed(s) = FromBody(t)
        /\ c \notin {"-", "+"} => FromTrimmed(s) = FromBody(s)
    BY <1>2, Dispatch
  <2> HIDE DEF c, t
  <2>4. CASE c = "-"
    <3>1. WrittenDecimals(s) = WrittenDecimals(t) /\ Whole(s) = Whole(t)
      BY <2>1, <2>4, CharacterShape, LedWhole, Zenon
    <3>2. ~Without(s, "-")
      BY <2>1, <2>4, LedWithout, Zenon
    <3> DEFINE v == FromBody(t)
    <3>3. BodyRead(t, v)
      BY <2>2, BodyReads
    <3> HIDE DEF v
    <3>4. CASE Exact(t, v)
      <4>1. /\ WrittenDecimals(s) <= 2 /\ WrittenDecimals(s) \in Nat
            /\ Whole(s) \in Nat
            /\ v = IF Whole(s) > MaxInt THEN Failure("ErrOverflow") ELSE Value(Whole(s))
        BY <3>1, <3>4 DEF Exact
      <4>2. WrittenCents(s) = -Whole(s)
        BY <3>2, <4>1, SignShown, Zenon
      <4>3. Opposite(v) = IF Whole(s) > MaxInt THEN Failure("ErrOverflow")
                          ELSE Value(WrittenCents(s))
        BY <4>1, <4>2, OppositeRead, Zenon
      <4>4. ReadExactly(s, Opposite(v))
        BY <4>1, <4>2, <4>3, Zenon DEF ReadExactly
      <4> QED BY <2>3, <2>4, <4>4, Zenon DEF ReadText, v
    <3>5. CASE v = Failure("ErrInvalidFormat") \/ v = Failure("ErrTooManyDecimals")
      <4>1. Opposite(v) = v
        BY <3>5, OppositeRead, Zenon
      <4> QED BY <2>3, <2>4, <3>5, <4>1, Zenon DEF ReadText, v
    <3> QED BY <3>3, <3>4, <3>5, Zenon DEF BodyRead
  <2>5. CASE c = "+"
    <3>1. WrittenDecimals(s) = WrittenDecimals(t) /\ Whole(s) = Whole(t)
      BY <2>1, <2>5, CharacterShape, LedWhole, Zenon
    <3>2. Without(s, "-") <=> Without(t, "-")
      <4>1. c # "-"
        BY <2>5
      <4> QED BY <2>1, <4>1, LedWithout, Zenon
    <3> DEFINE v == FromBody(t)
    <3>3. BodyRead(t, v)
      BY <2>2, BodyReads
    <3> HIDE DEF v
    <3>4. CASE Exact(t, v)
      <4>1. /\ WrittenDecimals(s) <= 2 /\ WrittenDecimals(s) \in Nat
            /\ Whole(s) \in Nat /\ Without(s, "-")
            /\ v = IF Whole(s) > MaxInt THEN Failure("ErrOverflow") ELSE Value(Whole(s))
        BY <3>1, <3>2, <3>4 DEF Exact
      <4>2. WrittenCents(s) = Whole(s)
        BY <4>1, SignShown, Zenon
      <4>4. ReadExactly(s, v)
        BY <4>1, <4>2, Zenon DEF ReadExactly
      <4> QED BY <2>3, <2>5, <4>4, Zenon DEF ReadText, v
    <3>5. CASE v = Failure("ErrInvalidFormat") \/ v = Failure("ErrTooManyDecimals")
      BY <2>3, <2>5, <3>5, Zenon DEF ReadText, v
    <3> QED BY <3>3, <3>4, <3>5, Zenon DEF BodyRead
  <2>6. CASE c \notin {"-", "+"}
    <3> DEFINE v == FromBody(s)
    <3>3. BodyRead(s, v)
      BY BodyReads
    <3> HIDE DEF v
    <3>4. CASE Exact(s, v)
      <4>1. /\ WrittenDecimals(s) <= 2 /\ WrittenDecimals(s) \in Nat
            /\ Whole(s) \in Nat /\ Without(s, "-")
            /\ v = IF Whole(s) > MaxInt THEN Failure("ErrOverflow") ELSE Value(Whole(s))
        BY <3>4 DEF Exact
      <4>2. WrittenCents(s) = Whole(s)
        BY <4>1, SignShown, Zenon
      <4>4. ReadExactly(s, v)
        BY <4>1, <4>2, Zenon DEF ReadExactly
      <4> QED BY <2>3, <2>6, <4>4, Zenon DEF ReadText, v
    <3>5. CASE v = Failure("ErrInvalidFormat") \/ v = Failure("ErrTooManyDecimals")
      BY <2>3, <2>6, <3>5, Zenon DEF ReadText, v
    <3> QED BY <3>3, <3>4, <3>5, Zenon DEF BodyRead
  <2> QED BY <2>4, <2>5, <2>6, Zenon
<1> QED BY <1>1, <1>2

-----------------------------------------------------------------------------
(* Blanks around a text. *)

\* The positions of what is not a blank.
Visible(s) == {i \in 1..Len(s) : s[i] # " "}
\* The first of some positions.
FirstIn(P) == CHOOSE i \in P : \A j \in P : i <= j

\* strings.TrimSpace in these terms.
LEMMA TrimSpaceIs ==
  ASSUME NEW C, NEW s \in Seq(C)
  PROVE  /\ Visible(s) = {} => TrimSpace(s) = <<>>
         /\ Visible(s) # {} =>
               TrimSpace(s) = SubSeq(s, FirstIn(Visible(s)), LastIn(Visible(s)))
<1> DEFINE P == {i \in DOMAIN s : s[i] # " "}
<1>1. DOMAIN s = 1..Len(s)
  OBVIOUS
<1>2. P = Visible(s)
  BY <1>1, Zenon DEF Visible
<1>3. TrimSpace(s) = IF P = {} THEN <<>> ELSE SubSeq(s, FirstIn(P), LastIn(P))
  BY Zenon DEF TrimSpace, FirstIn, LastIn
<1> HIDE DEF P
<1> QED BY <1>2, <1>3, Zenon

\* It is a text of the same characters.
LEMMA TrimType ==
  ASSUME NEW C, NEW s \in Seq(C)
  PROVE  TrimSpace(s) \in Seq(C)
<1> DEFINE P == Visible(s)
           L == Len(s)
<1>1. L \in Nat
  OBVIOUS
<1>2. CASE P = {}
  <2>1. TrimSpace(s) = <<>>
    BY <1>2, TrimSpaceIs
  <2> QED BY <2>1
<1>3. CASE P # {}
  <2>1. P \subseteq 1..L
    BY Zenon DEF Visible
  <2>2. \A i \in P : i \in Nat /\ i <= L
    BY <1>1, <2>1
  <2> HIDE DEF P, L
  <2>3. \E i \in P : \A j \in P : i <= j
    BY <1>1, <1>3, <2>2, Least
  <2>4. \E i \in P : \A j \in P : j <= i
    BY <1>1, <1>3, <2>2, Greatest
  <2>5. FirstIn(P) \in P /\ LastIn(P) \in P
    BY <2>3, <2>4, Zenon DEF FirstIn, LastIn
  <2> DEFINE m == FirstIn(P)
             n == LastIn(P)
  <2>6. m \in 1..L /\ n \in 1..L
    BY <2>1, <2>5
  <2> HIDE DEF m, n
  <2>7. SubSeq(s, m, n) \in Seq(C)
    <3>1. \A i \in m..n : s[i] \in C
      BY <1>1, <2>6 DEF L
    <3> QED BY <1>1, <2>6, <3>1 DEF L
  <2>8. TrimSpace(s) = SubSeq(s, m, n)
    BY <1>3, TrimSpaceIs, Zenon DEF m, n, P
  <2> QED BY <2>7, <2>8
<1> QED BY <1>2, <1>3

\* A text without blanks.
Unbroken(s) == Without(s, " ")
\* An alphabet with a blank.
Spaced(C) == " " \in C

\* A text without blanks, alone or with one at its end.
LEMMA TrimNothing ==
  ASSUME NEW C, NEW s \in Seq(C), s # <<>>, Unbroken(s)
  PROVE  TrimSpace(s) = s
<1> DEFINE P == Visible(s)
           L == Len(s)
<1>1. L \in Nat /\ L >= 1
  OBVIOUS
<1>2. P = 1..L
  BY Zenon DEF Visible, Without, Unbroken
<1> HIDE DEF P, L
<1>3. FirstIn(P) = 1 /\ LastIn(P) = L /\ P # {}
  <2>1. 1 \in P /\ L \in P /\ \A i \in P : 1 <= i /\ i <= L /\ i \in Nat
    BY <1>1, <1>2
  <2>2. \A i \in P : (\A j \in P : i <= j) => i = 1
    BY <2>1
  <2>3. \A i \in P : (\A j \in P : j <= i) => i = L
    BY <1>1, <2>1
  <2> QED BY <2>1, <2>2, <2>3 DEF FirstIn, LastIn
<1>4. SubSeq(s, 1, L) = s
  <2> DEFINE t == SubSeq(s, 1, L)
  <2>1. t \in Seq(C) /\ Len(t) = L /\ \A i \in 1..L : t[i] = s[i]
    BY <1>1 DEF L
  <2> HIDE DEF t
  <2>2. t = s
    BY <2>1 DEF L
  <2> QED BY <2>2 DEF t
<1> QED BY <1>3, <1>4, TrimSpaceIs, Zenon DEF P

\* The blank that came along is dropped.
LEMMA TrimBlank ==
  ASSUME NEW C, NEW s \in Seq(C), s # <<>>, Unbroken(s), Spaced(C)
  PROVE  TrimSpace(Append(s, " ")) = s
<1> DEFINE b == " "
           u == Append(s, b)
           P == Visible(u)
           L == Len(s)
<1>1. b \in C
  BY DEF Spaced
<1>9. \A i \in 1..L : s[i] # b
  BY Zenon DEF Without, Unbroken
<1>8. P = {i \in 1..Len(u) : u[i] # b}
  BY DEF Visible
<1> HIDE DEF b
<1>2. L \in Nat /\ L >= 1
  OBVIOUS
<1>3. u \in Seq(C) /\ Len(u) = L + 1 /\ u[L + 1] = b /\ \A i \in 1..L : u[i] = s[i]
  BY <1>1
<1> HIDE DEF u, L, P
<1>4. P = 1..L
  <2>1. \A i \in 1..L + 1 : i \in 1..L \/ i = L + 1
    BY <1>2
  <2>2. \A i \in 1..L : i \in 1..L + 1
    BY <1>2
  <2>3. ~(L + 1 \in 1..L)
    BY <1>2
  <2> QED BY <1>3, <1>8, <1>9, <2>1, <2>2, <2>3
<1>5. FirstIn(P) = 1 /\ LastIn(P) = L /\ P # {}
  <2>1. 1 \in P /\ L \in P /\ \A i \in P : 1 <= i /\ i <= L /\ i \in Nat
    BY <1>2, <1>4
  <2>2. \A i \in P : (\A j \in P : i <= j) => i = 1
    BY <2>1
  <2>3. \A i \in P : (\A j \in P : j <= i) => i = L
    BY <1>2, <2>1
  <2> QED BY <2>1, <2>2, <2>3 DEF FirstIn, LastIn
<1>6. SubSeq(u, 1, L) = s
  <2> DEFINE t == SubSeq(u, 1, L)
  <2>1. t \in Seq(C) /\ Len(t) = L /\ \A i \in 1..L : t[i] = u[i]
    BY <1>2, <1>3
  <2> HIDE DEF t
  <2>2. t = s
    BY <1>3, <2>1 DEF L
  <2> QED BY <2>2 DEF t
<1>7. TrimSpace(u) = SubSeq(u, FirstIn(P), LastIn(P))
  BY <1>3, <1>5, TrimSpaceIs, Zenon DEF P
<1> QED BY <1>5, <1>6, <1>7, Zenon DEF u, b

-----------------------------------------------------------------------------
(* The numbers in a printed amount. *)

\* The width of amounts.
LEMMA WireWidth ==
  /\ MaxInt \in Nat /\ MaxInt >= 99 /\ MinInt = -MaxInt - 1 /\ 0 \in Cents
  /\ \A x \in Int : x \in Cents <=> MinInt <= x /\ x <= MaxInt
  /\ \A x \in Cents : x \in Int
BY WidthAssumption, WireAssumption DEF MinInt, Cents

\* What is left of a number below the divisor.
LEMMA SmallRemainder ==
  ASSUME NEW w \in Nat, NEW y \in Nat, y < w
  PROVE  y % w = y
<1> DEFINE k == y \div w
           m == y % w
<1>1. k \in Nat /\ m \in Nat /\ m < w /\ y = w * k + m
  OBVIOUS
<1> HIDE DEF k, m
<1>2. ASSUME k >= 1
      PROVE  FALSE
  <2>1. w * k = w * (k - 1) + w /\ w * (k - 1) \in Nat
    BY <1>1, <1>2
  <2> QED BY <1>1, <2>1
<1>3. k = 0
  BY <1>1, <1>2
<1>4. w * k = 0
  BY <1>3
<1>5. m = y
  BY <1>1, <1>4
<1> QED BY <1>5 DEF m

\* What fits is kept.
LEMMA Fits ==
  ASSUME NEW x \in Cents
  PROVE  wrap(x) = x
<1> DEFINE w == 2 * (MaxInt + 1)
           y == x - MinInt
<1>1. w \in Nat /\ y \in Nat /\ y < w /\ x \in Int /\ y + MinInt = x
  BY WireWidth
<1>2. wrap(x) = (y % w) + MinInt
  BY DEF wrap
<1> HIDE DEF w, y
<1>3. y % w = y
  BY <1>1, SmallRemainder
<1> QED BY <1>1, <1>2, <1>3

\* Past the largest amount comes the smallest.
LEMMA FirstThatDoesNot == wrap(MaxInt + 1) = MinInt
<1> DEFINE w == 2 * (MaxInt + 1)
           y == (MaxInt + 1) - MinInt
<1>1. w \in Nat /\ w > 0 /\ y = w /\ MinInt \in Int
  BY WireWidth
<1>2. wrap(MaxInt + 1) = (y % w) + MinInt
  BY Zenon DEF wrap
<1> HIDE DEF w, y
<1>3. w % w = 0
  BY <1>1
<1> QED BY <1>1, <1>2, <1>3

\* Division by a hundred.
LEMMA Hundredth ==
  ASSUME NEW n \in Nat
  PROVE  /\ n \div 100 \in Nat /\ n % 100 \in 0..99
         /\ n = (n \div 100) * 100 + (n % 100) /\ n \div 100 <= n
         /\ n >= 100 => n \div 100 >= 1
OBVIOUS

\* The absolute value, its reais and its centavos.
Split(n, q, r) ==
    /\ q \in Nat /\ r \in 0..99 /\ n = q * 100 + r /\ q <= n

\* The formats split every amount but MinInt into its reais and centavos.
LEMMA AmountSplit ==
  ASSUME NEW c \in Cents, c # MinInt
  PROVE  LET n == Unsign(c)
             q == quo(n, 100)
             r == rem(n, 100)
         IN  /\ Split(n, q, r) /\ n \in 0..MaxInt /\ n = magnitude(c)
             /\ wrap(magnitude(q)) = q
<1> DEFINE n == Unsign(c)
           q == quo(n, 100)
           r == rem(n, 100)
           t == trunc(n, 100)
<1>1. c \in Int /\ MinInt <= c /\ c <= MaxInt /\ MaxInt \in Nat /\ MinInt = -MaxInt - 1
  BY WireWidth
<1>2. n \in 0..MaxInt /\ n = magnitude(c)
  <2>1. CASE c < 0
    <3>1. -c \in 0..MaxInt
      BY <1>1, <2>1
    <3>2. -c \in Cents
      BY <1>1, <3>1, WireWidth
    <3>3. wrap(-c) = -c
      BY <3>2, Fits
    <3> QED BY <2>1, <3>1, <3>3 DEF Unsign, magnitude
  <2>2. CASE ~(c < 0)
    BY <1>1, <2>2 DEF Unsign, magnitude
  <2> QED BY <2>1, <2>2
<1> HIDE DEF n
<1>3. t = n \div 100
  BY <1>2 DEF trunc, magnitude
<1>4. /\ t \in Nat /\ n % 100 \in 0..99 /\ n = t * 100 + (n % 100) /\ t <= n
  BY <1>2, <1>3, Hundredth
<1>5. t \in Cents
  BY <1>1, <1>2, <1>4, WireWidth
<1>6. q = t
  BY <1>5, Fits DEF quo
<1>7. r = n % 100
  <2>1. r = n - 100 * t
    BY DEF rem
  <2> HIDE DEF t, r
  <2> QED BY <1>2, <1>4, <2>1
<1> HIDE DEF q, r, t
<1>8. wrap(magnitude(q)) = q
  <2>1. magnitude(q) = q
    BY <1>4, <1>6 DEF magnitude
  <2> QED BY <1>5, <1>6, <2>1, Fits
<1>9. Split(n, q, r)
  BY <1>4, <1>6, <1>7 DEF Split
<1> QED BY <1>2, <1>8, <1>9 DEF n, q, r

\* MinInt, which stays negative: so do its reais and its centavos.
LEMMA MinSplit ==
  LET n == Unsign(MinInt)
      q == -quo(n, 100)
      r == -rem(n, 100)
  IN  /\ Split(MaxInt + 1, q, r)
      /\ q >= 1 /\ q <= MaxInt + 1
      /\ quo(n, 100) = -q /\ rem(n, 100) = -r
      /\ wrap(magnitude(quo(n, 100))) = q
<1> DEFINE n == Unsign(MinInt)
           m == MaxInt + 1
           q == m \div 100
           r == m % 100
           t == trunc(n, 100)
<1>1. m \in Nat /\ m >= 100 /\ MinInt \in Int /\ MinInt < 0 /\ -MinInt = m /\ MinInt = -m
  BY WireWidth
<1>2. n = MinInt
  <2>1. n = wrap(-MinInt)
    BY <1>1 DEF Unsign
  <2> QED BY <1>1, <2>1, FirstThatDoesNot
<1>3. magnitude(n) = m
  BY <1>1, <1>2 DEF magnitude
<1> HIDE DEF n, m
<1>4. q \in Nat /\ r \in 0..99 /\ m = q * 100 + r /\ q <= m /\ q >= 1
  BY <1>1, Hundredth
<1>5. t = -q
  <2>1. magnitude(100) = 100
    BY DEF magnitude
  <2>2. t = -(m \div 100)
    BY <1>1, <1>2, <1>3, <2>1 DEF trunc
  <2> QED BY <2>2
<1> HIDE DEF q, r
<1>6. -q \in Cents /\ quo(n, 100) = -q
  <2>1. -q \in Cents
    BY <1>1, <1>4, WireWidth DEF m
  <2>2. quo(n, 100) = wrap(t)
    BY DEF quo
  <2> QED BY <1>5, <2>1, <2>2, Fits
<1>7. rem(n, 100) = -r
  <2>1. rem(n, 100) = n - 100 * t
    BY DEF rem
  <2> HIDE DEF t
  <2> QED BY <1>1, <1>2, <1>4, <1>5, <2>1
<1>8. wrap(magnitude(quo(n, 100))) = q
  <2>1. magnitude(-q) = q
    BY <1>4 DEF magnitude
  <2>2. q <= MaxInt
    BY <1>1, <1>4, WireWidth DEF m
  <2>3. q \in Cents
    BY <1>1, <1>4, <2>2, WireWidth
  <2> QED BY <1>6, <2>1, <2>3, Fits
<1>9. -quo(n, 100) = q /\ -rem(n, 100) = r
  BY <1>4, <1>6, <1>7
<1>10. Split(m, q, r)
  BY <1>4 DEF Split
<1> QED BY <1>4, <1>6, <1>7, <1>8, <1>9, <1>10 DEF n, m

\* Two digits that are r.
Pair(h, r) == h \in Seq(Digit) /\ Len(h) = 2 /\ Number(h) = r

\* A text of one digit.
LEMMA OneDigit ==
  ASSUME NEW t \in Seq(Digit), Len(t) = 1
  PROVE  t = <<t[1]>> /\ t[1] \in Digit
BY SMTT(30)

\* To join a text and one more character.
LEMMA PutLast ==
  ASSUME NEW C, NEW s \in Seq(C), NEW a \in C
  PROVE  /\ s \o <<a>> = Append(s, a) /\ Append(s, a) \in Seq(C)
         /\ Len(Append(s, a)) = Len(s) + 1
OBVIOUS

\* fmt's %02d of centavos is two digits that say them.
LEMMA CentsShown ==
  ASSUME NEW r \in 0..99
  PROVE  Pair(FmtCents(r), r)
<1>1. r \in 0..MaxInt + 1 /\ r \in Nat
  BY WireWidth
<1>2. Legible(r)
  BY <1>1, DecimalLegible
<1>3. FmtInt(r) = Decimal[r]
  BY <1>1 DEF FmtInt
<1>4. CASE r >= 10
  <2>1. FmtCents(r) = Decimal[r]
    BY <1>3, <1>4 DEF FmtCents
  <2>2. Decimal[r] \in Seq(Digit) /\ Len(Decimal[r]) = 2 /\ Number(Decimal[r]) = r
    BY <1>1, <1>4, <1>2 DEF Legible
  <2> QED BY <2>1, <2>2 DEF Pair
<1>5. CASE r < 10
  <2> DEFINE t == Decimal[r]
             z == "0"
             o == <<z>>
  <2>1. FmtCents(r) = o \o t
    BY <1>1, <1>3, <1>5 DEF FmtCents
  <2>2. t \in Seq(Digit) /\ Len(t) = 1 /\ Number(t) = r
    BY <1>1, <1>5, <1>2 DEF Legible
  <2>3. z \in Digit /\ digitOf[z] = 0
    BY Padding
  <2> HIDE DEF t, z
  <2> DEFINE a == t[1]
  <2>8. a \in Digit /\ t = <<a>>
    BY <2>2, OneDigit, Zenon
  <2> HIDE DEF a
  <2>9. t = Append(<<>>, a) /\ o = Append(<<>>, z) /\ <<>> \in Seq(Digit)
    BY <2>8
  <2>10. o \in Seq(Digit) /\ Len(o) = 1
    BY <2>3
  <2>4. /\ a \in Digit /\ t = Append(<<>>, a) /\ o = Append(<<>>, z) /\ o \o t = Append(o, a)
        /\ o \in Seq(Digit) /\ Append(o, a) \in Seq(Digit) /\ Len(Append(o, a)) = 2
        /\ <<>> \in Seq(Digit)
    <3> HIDE DEF o
    <3>1. /\ o \o t = Append(o, a) /\ Append(o, a) \in Seq(Digit)
          /\ Len(Append(o, a)) = Len(o) + 1
      BY <2>8, <2>10, PutLast, Zenon
    <3>2. Len(Append(o, a)) = 2
      BY <2>10, <3>1
    <3> QED BY <2>8, <2>9, <2>10, <3>1, <3>2
  <2> HIDE DEF a, o
  <2>5. Number(t) = 0 * 10 + digitOf[a] /\ Number(o) = 0 * 10 + 0
    BY <2>3, <2>4, NothingRead, OneMoreDigit, Zenon
  <2>6. Number(Append(o, a)) = Number(o) * 10 + digitOf[a] /\ digitOf[a] \in 0..9
    BY <2>4, OneMoreDigit, Zenon
  <2>7. Number(Append(o, a)) = r
    BY <2>2, <2>5, <2>6
  <2> QED BY <2>1, <2>4, <2>7, Zenon DEF Pair
<1> QED BY <1>1, <1>4, <1>5

\* fmt's %d of reais is digits that say them.
LEMMA ReaisShown ==
  ASSUME NEW q \in 0..MaxInt + 1
  PROVE  FmtInt(q) \in Seq(Digit) /\ Number(FmtInt(q)) = q
<1>1. q \in Nat
  BY WireWidth
<1>2. FmtInt(q) = Decimal[q]
  BY <1>1 DEF FmtInt
<1> QED BY <1>2, DecimalLegible DEF Legible

\* What a body is read as when it shows the amount n.
Shows(b, n) ==
    /\ b \in Seq(Digit \cup Marks) /\ b # <<>>
    /\ FromBody(b) = IF n > MaxInt THEN Failure("ErrOverflow") ELSE Value(n)

\* Two digits after others are worth hundredths of them.
LEMMA PairWorth ==
  ASSUME NEW g \in Seq(Digit), NEW h, NEW r \in 0..99, Pair(h, r)
  PROVE  Number(g \o h) * Scale(Len(h)) = Number(g) * 100 + r
<1>1. h \in Seq(Digit) /\ Len(h) = 2 /\ Number(h) = r
  BY DEF Pair
<1> DEFINE v == decVal(h)
<1>2. Worth(h, v)
  <2>1. Len(h) <= 2
    BY <1>1
  <2> QED BY <1>1, <2>1, Decimals
<1> HIDE DEF v
<1>3. /\ Number(g \o h) * Scale(Len(h)) = Number(g) * 100 + v
      /\ Number(<<>> \o h) * Scale(Len(h)) = Number(<<>>) * 100 + v
      /\ v \in 0..99
  BY <1>2, NoText, Zenon DEF Worth
<1>4. Scale(Len(h)) = 1
  BY <1>1 DEF Scale
<1>5. <<>> \o h = h
  BY <1>1
<1>6. r * 1 = 0 * 100 + v
  BY <1>1, <1>3, <1>4, <1>5, NothingRead
<1>7. v = r
  BY <1>3, <1>6
<1> QED BY <1>3, <1>7

\* A printed body shows its amount: reais, grouped or not, and two centavos.
LEMMA PrintedBody ==
  ASSUME NEW d \in Marks, NEW g \in Seq(Digit \cup {Comma(d)}),
         NEW n \in Nat, NEW q, NEW r, Split(n, q, r),
         Number(Keep(g, Digit)) = q, NEW h, Pair(h, r)
  PROVE  Shows(g \o <<d>> \o h, n)
<1> DEFINE k == Comma(d)
           C == Digit \cup {k}
           D == Digit \cup Marks
           b == g \o <<d>> \o h
           int == Keep(g, Character \ {k})
<1>1. /\ k \in Marks /\ k # d /\ d \notin Digit /\ k \notin Digit
      /\ Marks \subseteq Character /\ "" \notin Character /\ Digit \subseteq Character
  BY MarkFacts, CharacterShape
<1>2. h \in Seq(Digit) /\ Len(h) = 2
  BY DEF Pair
<1>3. /\ g \in Seq(C) /\ C \subseteq D /\ D \subseteq Character /\ d \in D
      /\ \A c \in C : c \in Character \ {k} <=> c \in Digit
  BY <1>1
<1>4. Digit \subseteq D /\ Digit \subseteq Character \ Marks
  BY <1>1, MarkFacts
<1>5. int = Keep(g, Digit)
  <2> DEFINE S == Character \ {k}
  <2>1. \A c \in C : c \in S <=> c \in Digit
    BY <1>3
  <2> HIDE DEF C, S
  <2>2. Keep(g, S) = Keep(g, Digit)
    BY <1>3, <2>1, KeepAgree
  <2> QED BY <2>2 DEF S
<1>6. Keep(g, Digit) \in Seq(Digit)
  <2>1. C \cap Digit = Digit
    BY <1>1
  <2>2. Keep(g, Digit) \in Seq(C \cap Digit)
    BY <1>3, KeepType, Zenon
  <2> QED BY <2>1, <2>2, Zenon
<1> HIDE DEF int, C
<1>7. d \notin C
  BY <1>1 DEF C
<1>8. Without(g, d)
  BY <1>3, <1>7, WithoutOther
<1>9. g \in Seq(D) /\ h \in Seq(D) /\ g \in Seq(Character) /\ h \in Seq(Character \ Marks)
  <2> HIDE DEF D
  <2> DEFINE E == Character \ Marks
  <2>1. Digit \subseteq E
    BY <1>4
  <2> HIDE DEF E
  <2>2. C \subseteq Character
    BY <1>3
  <2>3. h \in Seq(E)
    BY <1>2, <2>1
  <2> QED BY <1>2, <1>3, <1>4, <2>2, <2>3 DEF E
<1>10. LastMark(b, g, d, h, Character)
  BY <1>1, <1>9, Zenon DEF LastMark
<1>11. b \in Seq(D) /\ b # <<>>
  <2> HIDE DEF D
  <2> QED BY <1>3, <1>9
<1> HIDE DEF b
<1>12. FromBody(b) = Unsigned(int, h)
  BY <1>8, <1>10, <1>11, BodyDecimal, Zenon DEF int, k
<1>13. ReadAs(Unsigned(int, h), int, h)
  BY <1>2, <1>5, <1>6, UnsignedReads
<1> DEFINE w == Number(int \o h) * Scale(Len(h))
<1>14. w = n
  <2>1. q \in Nat /\ r \in 0..99 /\ n = q * 100 + r
    BY DEF Split
  <2>2. w = Number(int) * 100 + r
    BY <1>5, <1>6, <2>1, PairWorth, Zenon
  <2> HIDE DEF w
  <2> QED BY <1>5, <2>1, <2>2
<1>15. ~(Len(h) > 2)
  BY <1>2
<1>16. Unsigned(int, h) = IF w > MaxInt THEN Failure("ErrOverflow") ELSE Value(w)
  BY <1>13, <1>15, Zenon DEF ReadAs
<1> HIDE DEF w
<1>17. FromBody(b) = IF n > MaxInt THEN Failure("ErrOverflow") ELSE Value(n)
  BY <1>12, <1>14, <1>16
<1> QED BY <1>11, <1>17, Zenon DEF Shows, b, D

\* The characters of printed amounts.
Signed == Digit \cup Marks \cup {"-"}

\* What the readers make of an amount that was written: the amount itself, but
\* an error instead of MinInt.
ReadBack(v, c) ==
    \/ v = Value(c)
    \/ c = MinInt /\ v.err # "none"

\* A text that is read back.
Printed(s, c) ==
    /\ s \in Seq(Signed) /\ s # <<>>
    /\ ReadBack(FromTrimmed(s), c)

\* They are characters, with no blank and no quote among them.
LEMMA SignedShape ==
  /\ Digit \cup Marks \subseteq Signed /\ Digit \subseteq Signed /\ Signed \subseteq Character
  /\ "-" \in Signed /\ " " \notin Signed /\ Quote \notin Signed /\ "null" \notin Signed
  /\ "+" \notin Signed /\ "-" \notin Digit \cup Marks
BY TenDigits DEF Signed, Character, Marks, Quote

\* A text of a wider alphabet.
LEMMA Wider ==
  ASSUME NEW C, NEW D, C \subseteq D, NEW s \in Seq(C)
  PROVE  s \in Seq(D)
OBVIOUS

\* A body is read back as its amount,
LEMMA PositivePrinted ==
  ASSUME NEW c \in 0..MaxInt, NEW b, Shows(b, c)
  PROVE  Printed(b, c)
<1> DEFINE D == Digit \cup Marks
<1>1. b \in Seq(D) /\ b # <<>>
  BY DEF Shows
<1>2. b \in Seq(Signed)
  <2>1. D \subseteq Signed
    BY SignedShape
  <2> HIDE DEF D
  <2> QED BY <1>1, <2>1, Wider
<1>3. b[1] \notin {"-", "+"}
  <2>1. b[1] \in D
    <3> HIDE DEF D
    <3> QED BY <1>1
  <2> QED BY <2>1, SignedShape
<1>4. FromTrimmed(b) = FromBody(b)
  BY <1>1, <1>3, Dispatch
<1>5. ~(c > MaxInt)
  BY WireWidth
<1>6. FromBody(b) = Value(c)
  BY <1>5, Zenon DEF Shows
<1> QED BY <1>1, <1>2, <1>4, <1>6, Zenon DEF Printed, ReadBack

\* after a minus sign it is read as the opposite,
LEMMA Negated ==
  ASSUME NEW b \in Seq(Signed)
  PROVE  LET s == <<"-">> \o b
         IN  /\ s \in Seq(Signed) /\ s # <<>> /\ s[1] = "-"
             /\ FromTrimmed(s) = Opposite(FromBody(b))
<1> DEFINE k == "-"
           s == <<k>> \o b
           t == Tail(s)
<1>1. k \in Signed
  BY SignedShape
<1>2. Led(s, k, b, Signed)
  BY <1>1, Zenon DEF Led
<1> HIDE DEF s
<1>3. s \in Seq(Signed) /\ s # <<>> /\ s[1] = k
  BY <1>2, LedShape, Zenon
<1>4. Led(s, s[1], t, Signed)
  BY <1>3, Leads, Zenon
<1> HIDE DEF t
<1>5. t = b
  <2>1. /\ Len(s) = Len(b) + 1 /\ \A i \in 1..Len(b) : s[i + 1] = b[i]
    BY <1>2, LedShape
  <2>2. /\ Len(s) = Len(t) + 1 /\ \A i \in 1..Len(t) : s[i + 1] = t[i]
    BY <1>4, LedShape, Zenon
  <2>3. t \in Seq(Signed)
    BY <1>4 DEF Led
  <2>4. Len(t) = Len(b) /\ Len(b) \in Nat
    BY <2>1, <2>2, <2>3
  <2>5. \A i \in 1..Len(b) : t[i] = b[i]
    BY <2>1, <2>2, <2>4
  <2> QED BY <2>3, <2>4, <2>5
<1>6. FromTrimmed(s) = Opposite(FromBody(t))
  <2>1. s[1] = "-"
    BY <1>3 DEF k
  <2> QED BY <1>3, <2>1, Dispatch DEF t
<1> QED BY <1>3, <1>5, <1>6, Zenon DEF s, k

\* and so read back as the opposite.
LEMMA NegativePrinted ==
  ASSUME NEW n \in 0..MaxInt, NEW b, Shows(b, n)
  PROVE  Printed(<<"-">> \o b, -n)
<1> DEFINE s == <<"-">> \o b
           D == Digit \cup Marks
<1>1. b \in Seq(Signed)
  <2>1. D \subseteq Signed
    BY SignedShape
  <2>2. b \in Seq(D)
    BY DEF Shows
  <2> HIDE DEF D
  <2> QED BY <2>1, <2>2, Wider
<1>2. s \in Seq(Signed) /\ s # <<>> /\ FromTrimmed(s) = Opposite(FromBody(b))
  BY <1>1, Negated, Zenon
<1>3. ~(n > MaxInt)
  BY WireWidth
<1>4. FromBody(b) = Value(n)
  BY <1>3, Zenon DEF Shows
<1>5. Opposite(FromBody(b)) = Value(-n)
  BY <1>4, OppositeRead, Zenon
<1> HIDE DEF s
<1> QED BY <1>2, <1>5, Zenon DEF Printed, ReadBack, s

\* A second sign, or a number past the width, is an error.
LEMMA MinPrinted ==
  ASSUME NEW b \in Seq(Signed), Shows(b, MaxInt + 1) \/ ~Without(b, "-")
  PROVE  Printed(<<"-">> \o b, MinInt)
<1> DEFINE s == <<"-">> \o b
           v == FromBody(b)
<1>1. s \in Seq(Signed) /\ s # <<>> /\ FromTrimmed(s) = Opposite(v)
  BY Negated, Zenon
<1> HIDE DEF s
<1>2. v = Failure("ErrOverflow") \/ v = Failure("ErrInvalidFormat")
      \/ v = Failure("ErrTooManyDecimals")
  <2>1. CASE Shows(b, MaxInt + 1)
    <3>1. MaxInt + 1 > MaxInt
      BY WireWidth
    <3> QED BY <2>1, <3>1, Zenon DEF Shows
  <2>2. CASE ~Without(b, "-")
    <3>1. b \in Seq(Character)
      <4>1. Signed \subseteq Character
        BY SignedShape
      <4> QED BY <4>1, Wider
    <3>2. BodyRead(b, v)
      BY <3>1, BodyReads
    <3> HIDE DEF v
    <3> QED BY <2>2, <3>2, Zenon DEF BodyRead, Exact
  <2> QED BY <2>1, <2>2
<1> HIDE DEF v
<1>3. Opposite(v) = v
  BY <1>2, OppositeRead, Zenon
<1>4. v.err # "none"
  BY <1>2 DEF Failure
<1> QED BY <1>1, <1>3, <1>4, Zenon DEF Printed, ReadBack, s

\* What String and FormatBR share.
Format(c, I, d, H) == Minus(c) \o I \o <<d>> \o H

\* Without a minus sign,
LEMMA Unmarked ==
  ASSUME NEW C, NEW I \in Seq(C), NEW d \in C, NEW H \in Seq(C), NEW c, ~(c < 0)
  PROVE  Format(c, I, d, H) = I \o <<d>> \o H
<1>1. Minus(c) = <<>>
  BY DEF Minus
<1>2. <<>> \o I = I
  OBVIOUS
<1> QED BY <1>1, <1>2, Zenon DEF Format

\* An alphabet with a minus sign.
Minused(C) == "-" \in C
\* The sign before the body.
WithMinus(c, I, d, H) == Format(c, I, d, H) = <<"-">> \o (I \o <<d>> \o H)

\* The bodies are made of those characters.
LEMMA SignedWide ==
  /\ Digit \subseteq Signed /\ Minused(Signed)
  /\ \A d \in Marks : d \in Signed /\ Digit \cup {Comma(d)} \subseteq Signed
<1>1. \A d \in Marks : Comma(d) \in Marks
  BY MarkFacts
<1> QED BY <1>1, SignedShape, Zenon DEF Minused

\* and with one.
LEMMA Marked ==
  ASSUME NEW C, Minused(C), NEW I \in Seq(C), NEW d \in C, NEW H \in Seq(C), NEW c, c < 0
  PROVE  WithMinus(c, I, d, H)
<1> DEFINE k == "-"
           o == <<k>>
           m == <<d>>
<1>1. Minus(c) = o
  BY DEF Minus
<1>2. k \in C
  BY DEF Minused
<1> HIDE DEF k
<1>3. o \in Seq(C) /\ m \in Seq(C)
  BY <1>2
<1> HIDE DEF o, m
<1>4. Associated(o, I, m, C)
  BY <1>3, Associates
<1>5. I \o m \in Seq(C) /\ (o \o I) \o m = o \o (I \o m)
  BY <1>4, Zenon DEF Associated
<1>6. Associated(o, I \o m, H, C)
  BY <1>3, <1>5, Associates
<1>7. (o \o (I \o m)) \o H = o \o ((I \o m) \o H)
  BY <1>6, Zenon DEF Associated
<1>8. Format(c, I, d, H) = ((o \o I) \o m) \o H
  BY <1>1, Zenon DEF Format, m
<1> QED BY <1>5, <1>7, <1>8, Zenon DEF o, m, k, WithMinus

\* Every amount but MinInt is read back from its format.
LEMMA FormatPrinted ==
  ASSUME NEW c \in Cents, c # MinInt, NEW d \in Marks, NEW g \in Seq(Digit \cup {Comma(d)}),
         Number(Keep(g, Digit)) = quo(Unsign(c), 100)
  PROVE  Printed(Format(c, g, d, FmtCents(rem(Unsign(c), 100))), c)
<1> DEFINE n == Unsign(c)
           q == quo(n, 100)
           r == rem(n, 100)
           h == FmtCents(r)
           b == g \o <<d>> \o h
<1>1. Split(n, q, r) /\ n \in 0..MaxInt /\ n = magnitude(c)
  BY AmountSplit
<1>2. r \in 0..99
  BY <1>1 DEF Split
<1> HIDE DEF n, q, r
<1>3. Pair(h, r)
  BY <1>2, CentsShown
<1>4. n \in Nat
  BY <1>1, WireWidth
<1> HIDE DEF h
<1>5. Shows(b, n)
  BY <1>1, <1>3, <1>4, PrintedBody DEF n, q
<1>6. g \in Seq(Signed) /\ d \in Signed /\ h \in Seq(Signed)
  <2>1. Digit \cup {Comma(d)} \subseteq Signed /\ Digit \subseteq Signed /\ d \in Signed
    BY SignedWide
  <2>2. h \in Seq(Digit)
    BY <1>3 DEF Pair
  <2> QED BY <2>1, <2>2, Wider
<1>7. CASE c < 0
  <2>1. -n = c
    BY <1>1, <1>7, WireWidth DEF magnitude
  <2>2. Format(c, g, d, h) = <<"-">> \o b
    <3>1. WithMinus(c, g, d, h)
      BY <1>6, <1>7, SignedWide, Marked
    <3> QED BY <3>1, Zenon DEF WithMinus
  <2> HIDE DEF b
  <2>3. Printed(<<"-">> \o b, -n)
    BY <1>1, <1>5, NegativePrinted
  <2> QED BY <2>1, <2>2, <2>3, Zenon DEF h, r, n
<1>8. CASE ~(c < 0)
  <2>1. n = c
    BY <1>1, <1>8 DEF magnitude
  <2>2. Format(c, g, d, h) = b
    BY <1>6, <1>8, Unmarked, Zenon
  <2> HIDE DEF b
  <2>3. Printed(b, n)
    BY <1>1, <1>5, PositivePrinted
  <2> QED BY <2>1, <2>2, <2>3, Zenon DEF h, r, n
<1> QED BY <1>7, <1>8

\* Zero has no sign.
LEMMA NoSign ==
  ASSUME NEW x \in Int, -x = 0
  PROVE  x = 0
OBVIOUS

\* The cents of MinInt have their own sign, if there are any.
LEMMA MinCentsShown ==
  LET r == -rem(Unsign(MinInt), 100)
      h == FmtCents(rem(Unsign(MinInt), 100))
  IN  r \in 0..99 /\ h \in Seq(Signed) /\ (Pair(h, r) \/ ~Without(h, "-"))
<1> DEFINE e == rem(Unsign(MinInt), 100)
           r == -e
           h == FmtCents(e)
<1>1. r \in 0..99 /\ e = -r
  BY MinSplit, Zenon DEF Split
<1> HIDE DEF e, r
<1>2. Digit \subseteq Signed
  BY SignedShape
<1>3. CASE r = 0
  <2>1. e = 0 /\ 0 \in 0..99
    <3>1. e \in Int /\ 0 \in 0..99
      BY <1>1
    <3>2. -e = 0
      BY <1>3 DEF r
    <3> QED BY <3>1, <3>2, NoSign, Zenon
  <2>2. Pair(h, r)
    BY <1>3, <2>1, CentsShown
  <2>3. h \in Seq(Signed)
    <3>1. h \in Seq(Digit)
      BY <2>2 DEF Pair
    <3> HIDE DEF h
    <3> QED BY <3>1, <1>2, Wider
  <2> QED BY <1>1, <2>2, <2>3 DEF r, e
<1>4. CASE r # 0
  <2> DEFINE t == Decimal[r]
             k == "-"
  <2>1. e < 0 /\ -e = r
    BY <1>1, <1>4
  <2>2. FmtInt(e) = <<k>> \o t
    BY <2>1 DEF FmtInt
  <2>3. h = <<k>> \o t
    <3>1. ~(0 <= e)
      BY <1>1, <1>4
    <3> QED BY <2>2, <3>1, Zenon DEF FmtCents
  <2>4. t \in Seq(Digit)
    <3>1. r \in 0..MaxInt + 1
      BY <1>1, WireWidth
    <3> QED BY <3>1, DecimalLegible DEF Legible
  <2>5. t \in Seq(Signed) /\ k \in Signed
    <3> HIDE DEF t, k
    <3>1. t \in Seq(Signed)
      BY <1>2, <2>4, Wider
    <3> QED BY <3>1, SignedShape, Zenon DEF k
  <2> HIDE DEF t
  <2>6. Led(h, k, t, Signed)
    BY <2>3, <2>5, Zenon DEF Led
  <2>7. h \in Seq(Signed) /\ ~Without(h, k)
    BY <2>6, LedShape, LedWithout, Zenon
  <2> QED BY <1>1, <2>7, Zenon DEF r, e, h, k
<1> QED BY <1>3, <1>4

\* The format of MinInt is never read as an amount.
LEMMA MinFormatPrinted ==
  ASSUME NEW d \in Marks, NEW g \in Seq(Signed),
         ~Without(g, "-") \/ /\ g \in Seq(Digit \cup {Comma(d)})
                             /\ Number(Keep(g, Digit)) = -quo(Unsign(MinInt), 100)
  PROVE  Printed(Format(MinInt, g, d, FmtCents(rem(Unsign(MinInt), 100))), MinInt)
<1> DEFINE e == rem(Unsign(MinInt), 100)
           r == -e
           q == -quo(Unsign(MinInt), 100)
           h == FmtCents(e)
           b == g \o <<d>> \o h
           n == MaxInt + 1
           k == "-"
<1>1. r \in 0..99 /\ h \in Seq(Signed) /\ (Pair(h, r) \/ ~Without(h, k))
  BY MinCentsShown, Zenon
<1>2. Split(n, q, r) /\ n \in Nat /\ MinInt < 0
  <2>1. Split(n, q, r)
    BY MinSplit, Zenon
  <2> HIDE DEF q, r
  <2> QED BY <2>1, WireWidth
<1>3. d \in Signed /\ k \in Signed
  BY SignedShape
<1> HIDE DEF r, q, h, n
<1>4. Around(b, g, d, h, Signed)
  BY <1>1, <1>3, AroundShape
<1>5. Format(MinInt, g, d, h) = <<"-">> \o b
  <2>1. WithMinus(MinInt, g, d, h)
    BY <1>1, <1>2, <1>3, SignedWide, Marked
  <2> QED BY <2>1, Zenon DEF WithMinus
<1>6. Shows(b, n) \/ ~Without(b, k)
  <2>1. CASE Without(g, k) /\ Pair(h, r)
    <3>1. g \in Seq(Digit \cup {Comma(d)}) /\ Number(Keep(g, Digit)) = q
      BY <2>1, Zenon DEF q, k
    <3>2. Shows(b, n)
      <4> HIDE DEF b, k
      <4> QED BY <1>1, <1>2, <2>1, <3>1, PrintedBody DEF b
    <3> QED BY <3>2
  <2>2. CASE ~Without(g, k) \/ ~Without(h, k)
    <3> HIDE DEF b, k
    <3> DEFINE x == Len(g)
               y == Len(h)
    <3>1. /\ x \in Nat /\ y \in Nat /\ Len(b) = x + 1 + y
          /\ \A i \in 1..x : b[i] = g[i]
          /\ \A i \in 1..y : b[x + 1 + i] = h[i]
      BY <1>1, <1>4 DEF Around
    <3> HIDE DEF x, y
    <3>2. CASE ~Without(g, k)
      <4>1. PICK i \in 1..x : g[i] = k
        BY <3>2 DEF Without, x
      <4>2. i \in 1..Len(b) /\ b[i] = k
        BY <3>1, <4>1
      <4> QED BY <4>2 DEF Without
    <3>3. CASE ~Without(h, k)
      <4>1. PICK i \in 1..y : h[i] = k
        BY <3>3 DEF Without, y
      <4>2. x + 1 + i \in 1..Len(b) /\ b[x + 1 + i] = k
        BY <3>1, <4>1
      <4> QED BY <4>2 DEF Without
    <3> QED BY <2>2, <3>2, <3>3
  <2> QED BY <1>1, <2>1, <2>2
<1>7. b \in Seq(Signed)
  BY <1>4 DEF Around
<1> HIDE DEF b
<1>8. Printed(<<"-">> \o b, MinInt)
  BY <1>6, <1>7, MinPrinted, Zenon DEF n, k
<1> QED BY <1>5, <1>8, Zenon DEF h, e

\* Grouping the digits of a number leaves them as they are.
LEMMA GroupedReais ==
  ASSUME NEW x, NEW q \in 0..MaxInt + 1, wrap(magnitude(x)) = q
  PROVE  LET g == insertThousandSeparator(x, ".")
         IN  /\ g \in Seq(Digit \cup {Comma(",")})
             /\ Number(Keep(g, Digit)) = q
<1> DEFINE k == "."
           s == FmtInt(q)
           g == insertThousandSeparator(x, k)
<1>1. s \in Seq(Digit) /\ Number(s) = q
  BY ReaisShown
<1>2. k \notin Digit /\ Comma(",") = k
  BY DigitShape DEF Comma
<1>3. g = GroupedUpTo(s, k)[Len(s)]
  BY Zenon DEF insertThousandSeparator
<1> HIDE DEF s, k, g
<1>4. g \in Seq(Digit \cup {k}) /\ Keep(g, Digit) = s
  BY <1>1, <1>2, <1>3, Grouped, Zenon
<1> QED BY <1>1, <1>2, <1>4, Zenon DEF g, k

\* The separators, by name.
LEMMA MarksAre == "." \in Marks /\ "," \in Marks /\ Comma(".") = ","
BY DEF Marks, Comma

\* The other separator is not there, which is allowed.
LEMMA PlainReais ==
  ASSUME NEW q \in 0..MaxInt + 1, NEW k
  PROVE  /\ FmtInt(q) \in Seq(Digit \cup {k})
         /\ Number(Keep(FmtInt(q), Digit)) = q
<1> DEFINE s == FmtInt(q)
           C == Digit \cup {k}
<1>1. s \in Seq(Digit) /\ Number(s) = q
  BY ReaisShown
<1>2. Digit \subseteq C
  OBVIOUS
<1> HIDE DEF s, C
<1>3. s \in Seq(C)
  BY <1>1, <1>2, Wider
<1>4. \A i \in 1..Len(s) : s[i] \in Digit
  BY <1>1
<1>5. Keep(s, Digit) = s
  BY <1>1, <1>4, KeepAll
<1> QED BY <1>1, <1>3, <1>5, Zenon DEF s, C

\* What String writes is read back.
LEMMA StringPrinted ==
  ASSUME NEW c \in Cents
  PROVE  Printed(String(c), c)
<1> DEFINE n == Unsign(c)
           q == quo(n, 100)
           g == FmtInt(q)
           d == "."
           f == Format(c, g, d, FmtCents(rem(n, 100)))
<1>1. String(c) = f
  BY Zenon DEF String, Format
<1>2. d \in Marks
  BY MarksAre
<1>3. CASE c # MinInt
  <2>1. Split(n, q, rem(n, 100)) /\ n \in 0..MaxInt
    BY <1>3, AmountSplit
  <2>2. q \in 0..MaxInt + 1
    <3> HIDE DEF n, q
    <3> QED BY <2>1, WireWidth DEF Split
  <2> HIDE DEF q, d
  <2>3. g \in Seq(Digit \cup {Comma(d)}) /\ Number(Keep(g, Digit)) = q
    BY <2>2, PlainReais, Zenon
  <2> HIDE DEF g
  <2>4. Printed(f, c)
    BY <1>2, <1>3, <2>3, FormatPrinted, Zenon DEF q
  <2> QED BY <1>1, <2>4, Zenon DEF g, q, d
<1>4. CASE c = MinInt
  <2> DEFINE p == -quo(Unsign(MinInt), 100)
             t == Decimal[p]
             k == "-"
  <2>1. p >= 1 /\ p <= MaxInt + 1 /\ p \in Nat /\ q = -p
    BY <1>4, MinSplit, Zenon DEF Split
  <2> HIDE DEF p, q
  <2>2. p \in 0..MaxInt + 1 /\ q < 0 /\ -q = p
    BY <2>1, WireWidth
  <2>3. g = <<k>> \o t
    BY <2>2, Zenon DEF FmtInt
  <2>4. t \in Seq(Digit)
    BY <2>2, DecimalLegible DEF Legible
  <2>5. Digit \subseteq Signed /\ k \in Signed
    BY SignedShape
  <2> HIDE DEF g, t, d, k
  <2>6. t \in Seq(Signed)
    BY <2>4, <2>5, Wider
  <2>7. Led(g, k, t, Signed)
    BY <2>3, <2>5, <2>6, Zenon DEF Led
  <2>8. g \in Seq(Signed) /\ ~Without(g, k)
    BY <2>7, LedShape, LedWithout, Zenon
  <2>9. Printed(Format(MinInt, g, d, FmtCents(rem(Unsign(MinInt), 100))), MinInt)
    BY <1>2, <2>8, MinFormatPrinted, Zenon DEF k
  <2> QED BY <1>1, <1>4, <2>9, Zenon DEF g, q, d
<1> QED BY <1>3, <1>4

\* What FormatBR writes is read back.
LEMMA FormatBRPrinted ==
  ASSUME NEW c \in Cents
  PROVE  Printed(FormatBR(c), c)
<1> DEFINE n == Unsign(c)
           q == quo(n, 100)
           g == insertThousandSeparator(q, ".")
           d == ","
           f == Format(c, g, d, FmtCents(rem(n, 100)))
<1>1. FormatBR(c) = f
  BY Zenon DEF FormatBR, Format
<1>2. d \in Marks
  BY MarksAre
<1>3. CASE c # MinInt
  <2>1. Split(n, q, rem(n, 100)) /\ n \in 0..MaxInt /\ wrap(magnitude(q)) = q
    BY <1>3, AmountSplit
  <2>2. q \in 0..MaxInt + 1
    <3> HIDE DEF n, q
    <3> QED BY <2>1, WireWidth DEF Split
  <2> HIDE DEF q
  <2>3. g \in Seq(Digit \cup {Comma(d)}) /\ Number(Keep(g, Digit)) = q
    BY <2>1, <2>2, GroupedReais, Zenon
  <2> HIDE DEF g, d
  <2>4. Printed(f, c)
    BY <1>2, <1>3, <2>3, FormatPrinted, Zenon DEF q
  <2> QED BY <1>1, <2>4, Zenon DEF g, q, d
<1>4. CASE c = MinInt
  <2> DEFINE p == -quo(Unsign(MinInt), 100)
  <2>1. p <= MaxInt + 1 /\ p \in Nat /\ wrap(magnitude(q)) = p
    BY <1>4, MinSplit, Zenon DEF Split
  <2> HIDE DEF p, q
  <2>2. p \in 0..MaxInt + 1
    BY <2>1, WireWidth
  <2>3. g \in Seq(Digit \cup {Comma(d)}) /\ Number(Keep(g, Digit)) = p
    BY <2>1, <2>2, GroupedReais, Zenon
  <2> HIDE DEF g, d
  <2>4. Digit \cup {Comma(d)} \subseteq Signed
    BY <1>2, SignedWide
  <2>5. g \in Seq(Signed)
    BY <2>3, <2>4, Wider
  <2>6. Printed(Format(MinInt, g, d, FmtCents(rem(Unsign(MinInt), 100))), MinInt)
    BY <1>2, <2>3, <2>5, MinFormatPrinted, Zenon DEF p
  <2> QED BY <1>1, <1>4, <2>6, Zenon DEF g, q, d
<1> QED BY <1>3, <1>4

-----------------------------------------------------------------------------
(* The readers. *)

\* No blanks are trimmed from a printed amount but the one that came along.
LEMMA SignedTrimmed ==
  ASSUME NEW s \in Seq(Signed), s # <<>>
  PROVE  /\ Unbroken(s) /\ TrimSpace(s) = s /\ TrimSpace(Append(s, " ")) = s
<1> DEFINE b == " "
           C == Character
<1>1. Signed \subseteq C /\ b \notin Signed /\ b \in C
  BY SignedShape, CharacterShape
<1> HIDE DEF b, C
<1>2. Without(s, b)
  BY <1>1, WithoutOther
<1>3. s \in Seq(C)
  BY <1>1, Wider
<1>4. Unbroken(s) /\ Spaced(C)
  BY <1>1, <1>2, Zenon DEF Unbroken, Spaced, b
<1>5. TrimSpace(s) = s
  BY <1>3, <1>4, TrimNothing
<1>6. TrimSpace(Append(s, " ")) = s
  BY <1>3, <1>4, TrimBlank, Zenon
<1> QED BY <1>4, <1>5, <1>6, Zenon

\* FromString reads back what is printed, and typed with a blank.
LEMMA PrintedRead ==
  ASSUME NEW s, NEW c, Printed(s, c)
  PROVE  ReadBack(FromString(s), c) /\ ReadBack(FromString(Append(s, " ")), c)
<1>1. s \in Seq(Signed) /\ s # <<>> /\ ReadBack(FromTrimmed(s), c)
  BY DEF Printed
<1>2. TrimSpace(s) = s /\ TrimSpace(Append(s, " ")) = s
  BY <1>1, SignedTrimmed, Zenon
<1> QED BY <1>1, <1>2, Zenon DEF FromString

\* The characters of a number in JSON.
Numeral == Digit \cup {"-", "+", "."}

\* UnmarshalJSON by its first characters.
LEMMA JSONCases ==
  ASSUME NEW data, NEW raw, TrimSpace(data) = raw, raw # <<>>
  PROVE  /\ raw = Null => UnmarshalJSON(data) = Value(0)
         /\ raw # Null /\ raw[1] = Quote =>
               UnmarshalJSON(data) = FromString(SubSeq(raw, 2, Len(raw) - 1))
         /\ raw # Null /\ raw[1] # Quote =>
               UnmarshalJSON(data) = IF ToSet(raw) \subseteq Numeral THEN FromString(raw)
                                     ELSE Failure("ErrInvalidFormat")
BY Zenon DEF UnmarshalJSON, Numeral

\* They are more than digits.
LEMMA NumeralShape ==
  /\ Digit \subseteq Numeral /\ "-" \in Numeral /\ "." \in Numeral
BY DEF Numeral

\* The characters of a text are in its alphabet.
LEMMA ToSetWithin ==
  ASSUME NEW C, NEW s \in Seq(C)
  PROVE  ToSet(s) \subseteq C
<1>1. ToSet(s) = {s[i] : i \in 1..Len(s)}
  BY DEF ToSet
<1>2. \A i \in 1..Len(s) : s[i] \in C
  OBVIOUS
<1> QED BY <1>1, <1>2

\* Four texts in a row.
LEMMA Strung ==
  ASSUME NEW C, NEW a \in Seq(C), NEW b \in Seq(C), NEW d \in C, NEW h \in Seq(C)
  PROVE  a \o b \o <<d>> \o h \in Seq(C)
<1> DEFINE x == a \o b
           y == x \o <<d>>
<1>1. x \in Seq(C)
  OBVIOUS
<1> HIDE DEF x
<1>2. y \in Seq(C)
  BY <1>1
<1> HIDE DEF y
<1>3. y \o h \in Seq(C)
  BY <1>2
<1> QED BY <1>3, Zenon DEF x, y

\* What String writes is a number in JSON.
LEMMA StringNumeral ==
  ASSUME NEW c \in Cents, c # MinInt
  PROVE  ToSet(String(c)) \subseteq Numeral
<1> DEFINE n == Unsign(c)
           q == quo(n, 100)
           r == rem(n, 100)
           g == FmtInt(q)
           h == FmtCents(r)
           m == Minus(c)
           d == "."
           s == String(c)
<1>1. Split(n, q, r) /\ n \in 0..MaxInt
  BY AmountSplit
<1>2. q \in 0..MaxInt + 1 /\ r \in 0..99
  <2> HIDE DEF n, q, r
  <2> QED BY <1>1, WireWidth DEF Split
<1> HIDE DEF q, r
<1>3. g \in Seq(Digit) /\ h \in Seq(Digit)
  <2>1. g \in Seq(Digit)
    BY <1>2, ReaisShown
  <2>2. Pair(h, r)
    BY <1>2, CentsShown
  <2> QED BY <2>1, <2>2 DEF Pair
<1>4. m \in Seq(Numeral)
  <2> DEFINE k == "-"
  <2>1. k \in Numeral
    BY NumeralShape
  <2>2. m = <<k>> \/ m = <<>>
    BY DEF Minus
  <2> HIDE DEF k, m
  <2>3. <<k>> \in Seq(Numeral) /\ <<>> \in Seq(Numeral)
    BY <2>1
  <2> QED BY <2>2, <2>3
<1> HIDE DEF g, h
<1>5. g \in Seq(Numeral) /\ h \in Seq(Numeral)
  <2>1. Digit \subseteq Numeral
    BY NumeralShape
  <2> QED BY <1>3, <2>1, Wider
<1>6. d \in Numeral
  BY NumeralShape
<1>7. s = m \o g \o <<d>> \o h
  BY Zenon DEF String, g, q, h, r
<1> HIDE DEF m, d, s
<1>8. s \in Seq(Numeral)
  BY <1>4, <1>5, <1>6, <1>7, Strung, Zenon
<1>9. ToSet(s) \subseteq Numeral
  BY <1>8, ToSetWithin
<1> QED BY <1>9 DEF s

\* A printed amount is not null, nor in quotes.
LEMMA NotSpecial ==
  ASSUME NEW s \in Seq(Signed), s # <<>>
  PROVE  s # Null /\ s[1] # Quote
<1>1. s[1] \in Signed
  OBVIOUS
<1>2. Null[1] = "null"
  BY DEF Null
<1>3. s[1] # "null" /\ s[1] # Quote
  BY <1>1, SignedShape
<1> QED BY <1>2, <1>3, Zenon

\* An error is how MinInt is read back.
LEMMA Refused ==
  ASSUME NEW e \in {"ErrEmptyString", "ErrInvalidFormat", "ErrOverflow",
                    "ErrTooManyDecimals"}
  PROVE  ReadBack(Failure(e), MinInt)
BY DEF ReadBack, Failure

\* An amount as a JSON number.
LEMMA NumberRead ==
  ASSUME NEW c \in Cents
  PROVE  ReadBack(UnmarshalJSON(MarshalJSON(c)), c)
<1> DEFINE s == String(c)
           v == UnmarshalJSON(s)
<1>1. Printed(s, c)
  BY StringPrinted
<1>2. c # MinInt => ToSet(s) \subseteq Numeral
  BY StringNumeral
<1> HIDE DEF s
<1>3. s \in Seq(Signed) /\ s # <<>>
  BY <1>1 DEF Printed
<1>4. TrimSpace(s) = s
  BY <1>3, SignedTrimmed, Zenon
<1>5. s # Null /\ s[1] # Quote
  BY <1>3, NotSpecial
<1>6. v = IF ToSet(s) \subseteq Numeral THEN FromString(s) ELSE Failure("ErrInvalidFormat")
  BY <1>3, <1>4, <1>5, JSONCases, Zenon
<1> HIDE DEF v
<1>7. ReadBack(v, c)
  <2>1. CASE ToSet(s) \subseteq Numeral
    <3>1. v = FromString(s)
      BY <1>6, <2>1
    <3> QED BY <1>1, <3>1, PrintedRead, Zenon
  <2>2. CASE ~(ToSet(s) \subseteq Numeral)
    <3>1. v = Failure("ErrInvalidFormat") /\ c = MinInt
      BY <1>2, <1>6, <2>2, Zenon
    <3> QED BY <3>1, Refused
  <2> QED BY <2>1, <2>2
<1> QED BY <1>7, Zenon DEF MarshalJSON, v, s

\* Two texts in a row, position by position.
JoinedAs(u, a, b, C) ==
    /\ u \in Seq(C) /\ Len(u) = Len(a) + Len(b)
    /\ \A i \in 1..Len(a) : u[i] = a[i]
    /\ \A i \in 1..Len(b) : u[Len(a) + i] = b[i]

\* Joining does that.
LEMMA Joined ==
  ASSUME NEW C, NEW a \in Seq(C), NEW b \in Seq(C)
  PROVE  JoinedAs(a \o b, a, b, C)
BY DEF JoinedAs

\* Between quotes.
LEMMA QuotedShape ==
  ASSUME NEW s \in Seq(Signed), s # <<>>
  PROVE  LET t == Quoted(s)
         IN  /\ t \in Seq(Character) /\ t # <<>> /\ t[1] = Quote /\ t # Null
             /\ TrimSpace(t) = t
             /\ SubSeq(t, 2, Len(t) - 1) = s
<1> DEFINE k == Quote
           o == <<k>>
           t == Quoted(s)
           C == Character
           n == Len(s)
           b == " "
           D == Signed \cup {k}
<1>1. Signed \subseteq C /\ k \in C /\ b \notin D /\ b \in C
  BY SignedShape, CharacterShape DEF Quote
<1>2. t = o \o s \o o
  BY DEF Quoted
<1>3. D \subseteq C /\ Signed \subseteq D /\ k \in D
  BY <1>1
<1> HIDE DEF k, t, C, b, D
<1>4. s \in Seq(D)
  BY <1>3, Wider
<1>5. n \in Nat /\ Len(o) = 1 /\ o[1] = k /\ o \in Seq(D)
  BY <1>3
<1> HIDE DEF o
<1> DEFINE u == o \o s
<1>13. u = o \o s /\ t = u \o o
  BY <1>2
<1> HIDE DEF u
<1>14. /\ u \in Seq(D) /\ Len(u) = Len(o) + Len(s) /\ \A i \in 1..Len(o) : u[i] = o[i]
       /\ \A i \in 1..Len(s) : u[Len(o) + i] = s[i]
  <2>1. JoinedAs(u, o, s, D)
    BY <1>4, <1>5, <1>13, Joined, Zenon
  <2> QED BY <2>1 DEF JoinedAs
<1> HIDE DEF n
<1>6. u \in Seq(D) /\ Len(u) = n + 1 /\ u[1] = k /\ \A i \in 1..n : u[i + 1] = s[i]
  <2>1. \A i \in 1..n : u[1 + i] = s[i] /\ 1 + i = i + 1
    BY <1>5, <1>14 DEF n
  <2>2. u[1] = o[1]
    BY <1>5, <1>14
  <2>3. Len(u) = n + 1
    BY <1>5, <1>14 DEF n
  <2> QED BY <1>5, <1>14, <2>1, <2>2, <2>3
<1>7. t \in Seq(D) /\ Len(t) = n + 2 /\ \A i \in 1..n + 1 : t[i] = u[i]
  <2>1. /\ t \in Seq(D) /\ Len(t) = Len(u) + Len(o) /\ \A i \in 1..Len(u) : t[i] = u[i]
    <3>1. JoinedAs(t, u, o, D)
      BY <1>5, <1>6, <1>13, Joined, Zenon
    <3> QED BY <3>1 DEF JoinedAs
  <2> QED BY <1>5, <1>6, <2>1
<1>8. t # <<>> /\ t[1] = k
  BY <1>5, <1>6, <1>7
<1>9. t \in Seq(C)
  BY <1>3, <1>7, Wider
<1>10. TrimSpace(t) = t
  <2>1. Without(t, b)
    BY <1>1, <1>7, WithoutOther
  <2>2. Unbroken(t)
    BY <2>1 DEF Unbroken, b
  <2> QED BY <1>8, <1>9, <2>2, TrimNothing
<1>11. t # Null
  <2>1. Null[1] = "null" /\ Quote # "null"
    BY DEF Null, Quote
  <2> QED BY <1>8, <2>1, Zenon DEF k
<1>12. SubSeq(t, 2, Len(t) - 1) = s
  <2> DEFINE w == SubSeq(t, 2, n + 1)
  <2>1. w \in Seq(D) /\ Len(w) = n /\ \A i \in 1..n : w[i] = t[i + 1]
    <3>1. \A i \in 2..n + 1 : t[i] \in D
      BY <1>5, <1>7
    <3> QED BY <1>5, <1>7, <3>1
  <2> HIDE DEF w
  <2>2. \A i \in 1..n : w[i] = s[i]
    <3> SUFFICES ASSUME NEW i \in 1..n
                 PROVE  w[i] = s[i]
      OBVIOUS
    <3>1. i + 1 \in 1..n + 1
      BY <1>5
    <3> QED BY <1>6, <1>7, <2>1, <3>1
  <2>3. w = s
    BY <1>4, <2>1, <2>2 DEF n
  <2>4. Len(t) - 1 = n + 1
    BY <1>5, <1>7
  <2> QED BY <2>3, <2>4 DEF w
<1> QED BY <1>8, <1>9, <1>10, <1>11, <1>12, Zenon DEF t, C, k

\* An amount as a JSON string.
LEMMA QuotedRead ==
  ASSUME NEW s, NEW c, Printed(s, c)
  PROVE  ReadBack(UnmarshalJSON(Quoted(s)), c)
<1> DEFINE t == Quoted(s)
<1>1. s \in Seq(Signed) /\ s # <<>>
  BY DEF Printed
<1>2. /\ t # <<>> /\ t[1] = Quote /\ t # Null
      /\ TrimSpace(t) = t
      /\ SubSeq(t, 2, Len(t) - 1) = s
  BY <1>1, QuotedShape, Zenon
<1> HIDE DEF t
<1>3. UnmarshalJSON(t) = FromString(s)
  BY <1>2, JSONCases, Zenon
<1>4. ReadBack(FromString(s), c)
  BY PrintedRead
<1> QED BY <1>3, <1>4, Zenon DEF t

\* null is read as zero.
LEMMA NullRead == UnmarshalJSON(Null) = Value(0) /\ Null \in Seq(Character)
<1> DEFINE k == "null"
           t == <<k>>
           b == " "
           C == Character
<1>1. k \in C /\ k # b
  BY CharacterShape
<1>2. t = Null
  BY DEF Null
<1> HIDE DEF k, b, C
<1>3. t \in Seq(C) /\ t # <<>> /\ Without(t, b)
  BY <1>1 DEF Without
<1> HIDE DEF t
<1>4. Unbroken(t)
  BY <1>3 DEF Unbroken, b
<1>5. TrimSpace(t) = t
  BY <1>3, <1>4, TrimNothing
<1>6. UnmarshalJSON(t) = Value(0)
  BY <1>2, <1>3, <1>5, JSONCases, Zenon
<1> QED BY <1>2, <1>3, <1>6 DEF C

\* How a reading may end.
Errors == {"none", "ErrEmptyString", "ErrInvalidFormat", "ErrOverflow",
           "ErrTooManyDecimals"}
\* A reading ends one of those ways, with an amount of the width.
Sound(v) == v.err \in Errors /\ v.cents \in Cents

\* Values that fit and the errors do.
LEMMA SoundValues ==
  /\ \A x \in Cents : Sound(Value(x))
  /\ \A e \in Errors : Sound(Failure(e))
BY WireWidth DEF Sound, Value, Failure, Errors

\* A text read as what it says, unless that does not fit.
ReadsWhole(v, w) ==
    \/ v = Failure("ErrOverflow") /\ magnitude(w) > MaxInt
    \/ v = Value(w) /\ w \in Cents

\* Only what does not fit is refused as too large.
LEMMA ExactWhole ==
  ASSUME NEW s, NEW v, ReadExactly(s, v)
  PROVE  ReadsWhole(v, WrittenCents(s))
<1> DEFINE n == Whole(s)
           w == WrittenCents(s)
<1>1. n \in Nat /\ (w = n \/ w = -n)
  BY DEF ReadExactly
<1>2. v = IF n > MaxInt THEN Failure("ErrOverflow") ELSE Value(w)
  BY DEF ReadExactly
<1> HIDE DEF n, w
<1>3. magnitude(w) = n
  BY <1>1 DEF magnitude
<1>4. ~(n > MaxInt) => w \in Cents
  BY <1>1, WireWidth
<1>5. ReadsWhole(v, w)
  BY <1>2, <1>3, <1>4, Zenon DEF ReadsWhole
<1> QED BY <1>5 DEF w

\* So a text that is read or refused ends well.
LEMMA ReadSound ==
  ASSUME NEW s, NEW v, ReadText(s, v)
  PROVE  Sound(v)
<1>1. CASE ReadExactly(s, v)
  <2>1. "ErrOverflow" \in Errors
    BY DEF Errors
  <2>2. v = Failure("ErrOverflow") \/ (v = Value(WrittenCents(s)) /\ WrittenCents(s) \in Cents)
    <3>1. ReadsWhole(v, WrittenCents(s))
      BY <1>1, ExactWhole
    <3> QED BY <3>1, Zenon DEF ReadsWhole
  <2>3. CASE v = Failure("ErrOverflow")
    BY <2>1, <2>3, SoundValues, Zenon
  <2>4. CASE v = Value(WrittenCents(s)) /\ WrittenCents(s) \in Cents
    BY <2>4, SoundValues, Zenon
  <2> QED BY <2>2, <2>3, <2>4
<1>2. CASE \/ v = Failure("ErrEmptyString") \/ v = Failure("ErrInvalidFormat")
           \/ v = Failure("ErrTooManyDecimals")
  <2>1. "ErrEmptyString" \in Errors /\ "ErrInvalidFormat" \in Errors
        /\ "ErrTooManyDecimals" \in Errors
    BY DEF Errors
  <2> QED BY <1>2, <2>1, SoundValues, Zenon
<1> QED BY <1>1, <1>2, Zenon DEF ReadText

\* FromString of any text at all.
LEMMA StringReads ==
  ASSUME NEW text_ \in Seq(Character)
  PROVE  ReadText(TrimSpace(text_), FromString(text_)) /\ Sound(FromString(text_))
<1> DEFINE s == TrimSpace(text_)
<1>1. s \in Seq(Character)
  BY TrimType
<1> HIDE DEF s
<1>2. ReadText(s, FromTrimmed(s))
  BY <1>1, TrimmedReads
<1>3. FromString(text_) = FromTrimmed(s)
  BY Zenon DEF FromString, s
<1> QED BY <1>2, <1>3, ReadSound, Zenon DEF s

\* What a text says is what it is read as, or there is an error.
LEMMA SaysSo ==
  ASSUME NEW s, NEW v, ReadText(s, v)
  PROVE  /\ v.err = "none" => WrittenDecimals(s) <= 2 /\ v.cents = WrittenCents(s)
         /\ v.err = "ErrOverflow" => magnitude(WrittenCents(s)) > MaxInt
<1>1. CASE ReadExactly(s, v)
  <2>1. WrittenDecimals(s) <= 2
    BY <1>1 DEF ReadExactly
  <2> DEFINE w == WrittenCents(s)
             D == WrittenDecimals(s) <= 2
             M == magnitude(w) > MaxInt
  <2>2. (v = Failure("ErrOverflow") /\ M) \/ v = Value(w)
    <3>1. ReadsWhole(v, WrittenCents(s))
      BY <1>1, ExactWhole
    <3> QED BY <3>1, Zenon DEF ReadsWhole
  <2> HIDE DEF w, D, M
  <2>3. /\ v.err = "none" => v.cents = w
        /\ v.err = "ErrOverflow" => M
    BY <2>2 DEF Failure, Value
  <2> QED BY <2>1, <2>3, Zenon DEF w, M
<1>2. CASE \/ v = Failure("ErrEmptyString") \/ v = Failure("ErrInvalidFormat")
           \/ v = Failure("ErrTooManyDecimals")
  BY <1>2 DEF Failure
<1> QED BY <1>1, <1>2, Zenon DEF ReadText

\* A text without its first and last characters.
LEMMA Shortened ==
  ASSUME NEW C, NEW s \in Seq(C), s # <<>>
  PROVE  SubSeq(s, 2, Len(s) - 1) \in Seq(C)
<1>1. Len(s) \in Nat /\ Len(s) >= 1 /\ \A i \in 2..Len(s) - 1 : s[i] \in C
  OBVIOUS
<1> QED BY <1>1

\* UnmarshalJSON of any text at all ends well.
LEMMA JSONSound ==
  ASSUME NEW data \in Seq(Character)
  PROVE  Sound(UnmarshalJSON(data))
<1> DEFINE raw == TrimSpace(data)
           u == SubSeq(raw, 2, Len(raw) - 1)
           v == UnmarshalJSON(data)
<1>1. raw \in Seq(Character)
  BY TrimType
<1>2. TrimSpace(data) = raw
  OBVIOUS
<1>7. raw = <<>> => v = Failure("ErrEmptyString")
  BY Zenon DEF UnmarshalJSON
<1> HIDE DEF raw
<1>3. "ErrEmptyString" \in Errors /\ "ErrInvalidFormat" \in Errors
  BY DEF Errors
<1>4. CASE raw = <<>>
  BY <1>3, <1>4, <1>7, SoundValues, Zenon
<1>5. CASE raw # <<>>
  <2>1. u \in Seq(Character)
    BY <1>1, <1>5, Shortened
  <2> HIDE DEF u
  <2>2. Sound(FromString(u)) /\ Sound(FromString(raw))
    BY <1>1, <2>1, StringReads
  <2>3. v = Value(0) \/ v = FromString(u) \/ v = FromString(raw)
        \/ v = Failure("ErrInvalidFormat")
    BY <1>2, <1>5, JSONCases, Zenon DEF u
  <2> QED BY <1>3, <2>2, <2>3, SoundValues, WireWidth, Zenon
<1> QED BY <1>4, <1>5

\* What is written is made of characters.
LEMMA Written ==
  ASSUME NEW c \in Cents
  PROVE  /\ String(c) \in Seq(Character) /\ FormatBR(c) \in Seq(Character)
         /\ Quoted(String(c)) \in Seq(Character) /\ Quoted(FormatBR(c)) \in Seq(Character)
         /\ FmtInt(c) \in Seq(Character)
<1>1. ASSUME NEW s, Printed(s, c)
      PROVE  s \in Seq(Character) /\ Quoted(s) \in Seq(Character)
  <2>1. s \in Seq(Signed) /\ s # <<>>
    BY <1>1 DEF Printed
  <2>2. Signed \subseteq Character
    BY SignedShape
  <2>3. s \in Seq(Character)
    BY <2>1, <2>2, Wider
  <2> QED BY <2>1, <2>3, QuotedShape, Zenon
<1>2. FmtInt(c) \in Seq(Character)
  <2> DEFINE k == "-"
             t == Decimal[-c]
  <2>1. Digit \subseteq Character /\ k \in Character
    BY CharacterShape
  <2>2. CASE c < 0
    <3>1. -c \in 0..MaxInt + 1
      BY <2>2, WireWidth
    <3>2. t \in Seq(Digit)
      BY <3>1, DecimalLegible DEF Legible
    <3>3. FmtInt(c) = <<k>> \o t
      BY <2>2 DEF FmtInt
    <3> HIDE DEF k, t
    <3>4. t \in Seq(Character)
      BY <2>1, <3>2, Wider
    <3>5. Led(FmtInt(c), k, t, Character)
      BY <2>1, <3>3, <3>4, Zenon DEF Led
    <3> QED BY <3>5, LedShape, Zenon
  <2>3. CASE ~(c < 0)
    <3>1. c \in 0..MaxInt + 1
      BY <2>3, WireWidth
    <3>2. FmtInt(c) \in Seq(Digit)
      BY <3>1, ReaisShown
    <3> QED BY <2>1, <3>2, Wider
  <2> QED BY <2>2, <2>3
<1> QED BY <1>1, <1>2, StringPrinted, FormatBRPrinted

-----------------------------------------------------------------------------
(* The trips. *)

\* Every reading starts from a text of characters.
LEMMA ReadingsSound ==
  ASSUME NEW c \in Cents, NEW s \in Seq(Character)
  PROVE  /\ Sound(UnmarshalJSON(s)) /\ Sound(FromString(Append(s, " ")))
         /\ Sound(FromString(s)) /\ Sound(Value(c)) /\ Sound(FromString(FmtInt(c)))
<1>1. Append(s, " ") \in Seq(Character)
  <2> DEFINE b == " "
  <2>1. b \in Character
    BY CharacterShape
  <2> HIDE DEF b
  <2>2. Append(s, b) \in Seq(Character)
    BY <2>1
  <2> QED BY <2>2 DEF b
<1>2. FmtInt(c) \in Seq(Character)
  BY Written
<1> QED BY <1>1, <1>2, JSONSound, StringReads, SoundValues

\* The type invariant.
THEOREM TypeCorrect == Spec => []TypeOK
<1>1. Init => TypeOK
  <2>1. <<>> \in Seq(Character)
    BY NoText, Zenon
  <2> QED BY <2>1, WireWidth, WireAssumption DEF Init, TypeOK
<1>2. TypeOK /\ [Next]_vars => TypeOK'
  <2> SUFFICES ASSUME TypeOK, [Next]_vars
               PROVE  TypeOK'
    OBVIOUS
  <2> DEFINE F == {"memoria", "json", "texto", "tela", "coluna", "digitado", "vazio"}
  <2>1. /\ amount \in Cents /\ origin \in Cents /\ form \in F
        /\ text \in Seq(Character) /\ err \in Errors
    BY DEF TypeOK, Errors
  <2>2. ASSUME amount' \in Cents, origin' \in Cents, form' \in F,
               text' \in Seq(Character), err' \in Errors
        PROVE  TypeOK'
    BY <2>2 DEF TypeOK, Errors
  <2>3. ASSUME NEW f \in F, NEW s \in Seq(Character), Put(f, s)
        PROVE  TypeOK'
    BY <2>1, <2>2, <2>3 DEF Put
  <2>4. ASSUME NEW f, NEW v, Sound(v), Take(f, v)
        PROVE  TypeOK'
    <3>1. amount' \in Cents /\ err' \in Errors /\ origin' = origin /\ text' = text
      BY <2>1, <2>4, Zenon DEF Take, Sound
    <3>2. form' \in F
      BY <2>4 DEF Take
    <3> QED BY <2>1, <2>2, <3>1, <3>2
  <2>5. "json" \in F /\ "texto" \in F /\ "tela" \in F /\ "coluna" \in F /\ "digitado" \in F
    OBVIOUS
  <2> HIDE DEF F
  <2>6. CASE SendJSON
    BY <2>1, <2>3, <2>5, <2>6, Written DEF SendJSON, MarshalJSON
  <2>7. CASE ReceiveJSON
    BY <2>1, <2>4, <2>7, ReadingsSound DEF ReceiveJSON
  <2>8. CASE SendString
    <3>1. CASE \E s \in {String(amount), FormatBR(amount)} : Put("texto", Quoted(s))
      <4>1. PICK s \in {String(amount), FormatBR(amount)} : Put("texto", Quoted(s))
        BY <3>1
      <4>2. Quoted(s) \in Seq(Character)
        BY <2>1, Written
      <4> QED BY <2>3, <2>5, <4>1, <4>2, Zenon
    <3>2. CASE Put("texto", Null)
      BY <2>3, <2>5, <3>2, NullRead, Zenon
    <3> QED BY <2>8, <3>1, <3>2 DEF SendString
  <2>9. CASE ReceiveString
    BY <2>1, <2>4, <2>9, ReadingsSound DEF ReceiveString
  <2>10. CASE Show
    BY <2>1, <2>3, <2>5, <2>10, Written DEF Show
  <2>11. CASE Retype
    BY <2>1, <2>4, <2>11, ReadingsSound, Zenon DEF Retype
  <2>12. CASE Store
    BY <2>3, <2>5, <2>12, NoText, Zenon DEF Store
  <2>13. CASE Scan
    <3> DEFINE v == IF Driver = "int64" THEN Value(amount) ELSE FromString(FmtInt(amount))
    <3>1. Sound(v)
      BY <2>1, ReadingsSound, Zenon
    <3>2. Take("coluna", v)
      BY <2>13, Zenon DEF Scan
    <3> HIDE DEF v
    <3> QED BY <2>4, <3>1, <3>2
  <2>14. ASSUME NEW s \in Typed, Enter(s)
         PROVE  TypeOK'
    <3> DEFINE v == FromString(s)
    <3>1. s \in Seq(Character)
      BY WireAssumption
    <3>2. Sound(v)
      BY <2>1, <3>1, ReadingsSound, Zenon
    <3>3. text' = s /\ err' = v.err /\ amount' = v.cents /\ origin' = v.cents
          /\ form' = "digitado"
      BY <2>14 DEF Enter
    <3> HIDE DEF v
    <3> QED BY <2>2, <2>5, <3>1, <3>2, <3>3 DEF Sound
  <2>15. CASE UNCHANGED vars
    BY <2>1, <2>2, <2>15 DEF vars
  <2> QED BY <2>6, <2>7, <2>8, <2>9, <2>10, <2>11, <2>12, <2>13, <2>14, <2>15, Zenon DEF Next
<1> QED BY <1>1, <1>2, PTL DEF Spec

\* A typed text is read as it is written, whatever it is.
THEOREM TypedReadsRight == Spec => []ReadsAsWritten
<1>1. Init => ReadsAsWritten
  BY DEF Init, ReadsAsWritten
<1>2. ReadsAsWritten /\ [Next]_vars => ReadsAsWritten'
  <2> SUFFICES ASSUME ReadsAsWritten, [Next]_vars, form' = "digitado"
               PROVE  /\ err' = "none" => /\ WrittenDecimals(TrimSpace(text')) <= 2
                                          /\ amount' = WrittenCents(TrimSpace(text'))
                      /\ err' = "ErrOverflow" =>
                            magnitude(WrittenCents(TrimSpace(text'))) > MaxInt
    BY Zenon DEF ReadsAsWritten
  <2>1. ASSUME NEW s \in Typed, Enter(s)
        PROVE  /\ err' = "none" => /\ WrittenDecimals(TrimSpace(text')) <= 2
                                   /\ amount' = WrittenCents(TrimSpace(text'))
               /\ err' = "ErrOverflow" =>
                     magnitude(WrittenCents(TrimSpace(text'))) > MaxInt
    <3> DEFINE v == FromString(s)
               t == TrimSpace(s)
    <3>1. s \in Seq(Character)
      BY WireAssumption
    <3>2. ReadText(t, v)
      BY <3>1, StringReads
    <3>3. text' = s /\ err' = v.err /\ amount' = v.cents
      BY <2>1 DEF Enter
    <3> HIDE DEF v
    <3>4. /\ v.err = "none" => WrittenDecimals(t) <= 2 /\ v.cents = WrittenCents(t)
          /\ v.err = "ErrOverflow" => magnitude(WrittenCents(t)) > MaxInt
      BY <3>2, SaysSo, Zenon
    <3> QED BY <3>3, <3>4, Zenon
  <2>2. CASE UNCHANGED vars
    <3>1. form = "digitado" /\ err' = err /\ amount' = amount /\ text' = text
      BY <2>2 DEF vars
    <3> QED BY <3>1, Zenon DEF ReadsAsWritten
  <2>3. ~(\E f \in {"json", "texto", "tela", "coluna"} : \E s : Put(f, s))
    BY DEF Put
  <2>4. ~(\E f, v : Take(f, v))
    BY DEF Take
  <2>5. ~SendJSON /\ ~SendString /\ ~Show /\ ~Store
    BY <2>3, Zenon DEF SendJSON, SendString, Show, Store
  <2>6. ~ReceiveJSON /\ ~ReceiveString /\ ~Retype /\ ~Scan
    BY <2>4, Zenon DEF ReceiveJSON, ReceiveString, Retype, Scan
  <2> QED BY <2>1, <2>2, <2>5, <2>6, Zenon DEF Next
<1> QED BY <1>1, <1>2, PTL DEF Spec

\* What is under way is the amount in memory, as it is written.
Travelling ==
    /\ form = "json" => text = String(amount)
    /\ form = "texto" => \/ text \in {Quoted(String(amount)), Quoted(FormatBR(amount))}
                         \/ text = Null /\ amount = 0
    /\ form = "tela" => text = FormatBR(amount)

\* The inductive invariant.
WireInv == TypeOK /\ AmountKept /\ OnlyMinIntRefused /\ Travelling

\* Every step keeps it.
LEMMA WireInvStep ==
  ASSUME Driver = "int64", WireInv, TypeOK', [Next]_vars
  PROVE  WireInv'
<1>1. amount \in Cents /\ AmountKept /\ OnlyMinIntRefused /\ Travelling
  BY DEF WireInv, TypeOK
<1>2. ASSUME NEW f, NEW v, Take(f, v), ReadBack(v, amount)
      PROVE  WireInv'
  <2>1. form' = "memoria" /\ err' = v.err /\ origin' = origin
    BY <1>2 DEF Take
  <2>2. amount' = amount /\ (err' # "none" => amount = MinInt)
    <3>1. amount' = IF v.err = "none" THEN v.cents ELSE amount
      BY <1>2 DEF Take
    <3>2. CASE v = Value(amount)
      <4>1. v.err = "none" /\ v.cents = amount
        BY <3>2 DEF Value
      <4> QED BY <2>1, <3>1, <4>1
    <3>3. CASE amount = MinInt /\ v.err # "none"
      BY <3>1, <3>3
    <3> QED BY <1>2, <3>2, <3>3 DEF ReadBack
  <2>3. AmountKept'
    BY <1>1, <2>1, <2>2 DEF AmountKept
  <2>4. OnlyMinIntRefused'
    BY <2>2 DEF OnlyMinIntRefused
  <2>5. Travelling'
    BY <2>1 DEF Travelling
  <2> QED BY <2>3, <2>4, <2>5 DEF WireInv
<1>3. ASSUME NEW f, NEW s, Put(f, s), f # "memoria",
             f = "json" => s = String(amount),
             f = "texto" => \/ s \in {Quoted(String(amount)), Quoted(FormatBR(amount))}
                            \/ s = Null /\ amount = 0,
             f = "tela" => s = FormatBR(amount)
      PROVE  WireInv'
  <2>1. form' = f /\ text' = s /\ amount' = amount /\ origin' = origin
    BY <1>3 DEF Put
  <2>2. AmountKept'
    BY <1>1, <2>1 DEF AmountKept
  <2>3. OnlyMinIntRefused'
    BY <1>3, <2>1 DEF OnlyMinIntRefused
  <2>4. Travelling'
    BY <1>3, <2>1, Zenon DEF Travelling
  <2> QED BY <2>2, <2>3, <2>4 DEF WireInv
<1>4. CASE SendJSON
  <2>1. Put("json", String(amount))
    BY <1>4 DEF SendJSON, MarshalJSON
  <2> QED BY <1>3, <2>1
<1>5. CASE ReceiveJSON
  <2>1. Take("json", UnmarshalJSON(text)) /\ form = "json"
    BY <1>5 DEF ReceiveJSON, Take
  <2>2. text = MarshalJSON(amount)
    BY <1>1, <2>1 DEF Travelling, MarshalJSON
  <2>3. ReadBack(UnmarshalJSON(text), amount)
    BY <1>1, <2>2, NumberRead
  <2> QED BY <1>2, <2>1, <2>3
<1>6. CASE SendString
  <2>1. CASE \E s \in {String(amount), FormatBR(amount)} : Put("texto", Quoted(s))
    <3>1. PICK s \in {String(amount), FormatBR(amount)} : Put("texto", Quoted(s))
      BY <2>1
    <3> DEFINE t == Quoted(s)
    <3>2. t \in {Quoted(String(amount)), Quoted(FormatBR(amount))} /\ Put("texto", t)
      BY <3>1
    <3> HIDE DEF t
    <3> QED BY <1>3, <3>2
  <2>2. CASE amount = 0 /\ Put("texto", Null)
    BY <1>3, <2>2
  <2> QED BY <1>6, <2>1, <2>2 DEF SendString
<1>7. CASE ReceiveString
  <2>1. Take("texto", UnmarshalJSON(text)) /\ form = "texto"
    BY <1>7 DEF ReceiveString, Take
  <2>2. \/ text = Quoted(String(amount)) \/ text = Quoted(FormatBR(amount))
        \/ text = Null /\ amount = 0
    BY <1>1, <2>1 DEF Travelling
  <2>3. ReadBack(UnmarshalJSON(text), amount)
    <3>1. CASE text = Quoted(String(amount))
      BY <1>1, <3>1, StringPrinted, QuotedRead, Zenon
    <3>2. CASE text = Quoted(FormatBR(amount))
      BY <1>1, <3>2, FormatBRPrinted, QuotedRead, Zenon
    <3>3. CASE text = Null /\ amount = 0
      BY <3>3, NullRead, Zenon DEF ReadBack
    <3> QED BY <2>2, <3>1, <3>2, <3>3
  <2> QED BY <1>2, <2>1, <2>3
<1>8. CASE Show
  <2>1. Put("tela", FormatBR(amount))
    BY <1>8 DEF Show
  <2> QED BY <1>3, <2>1
<1>9. CASE Retype
  <2> DEFINE v == FromString(Append(text, " "))
  <2>1. Take("tela", v)
    BY <1>9, Zenon DEF Retype
  <2>2. form = "tela"
    BY <2>1, Zenon DEF Take
  <2>3. text = FormatBR(amount)
    BY <1>1, <2>2 DEF Travelling
  <2>4. ReadBack(v, amount)
    BY <1>1, <2>3, FormatBRPrinted, PrintedRead, Zenon
  <2> HIDE DEF v
  <2> QED BY <1>2, <2>1, <2>4
<1>10. CASE Store
  <2> DEFINE s == <<>>
  <2>1. Put("coluna", s)
    BY <1>10 DEF Store
  <2> HIDE DEF s
  <2> QED BY <1>3, <2>1
<1>11. CASE Scan
  <2>1. Take("coluna", Value(amount))
    BY <1>11 DEF Scan
  <2>2. ReadBack(Value(amount), amount)
    BY Zenon DEF ReadBack
  <2> QED BY <1>2, <2>1, <2>2
<1>12. ASSUME NEW s \in Typed, Enter(s)
       PROVE  WireInv'
  <2>1. form' = "digitado" /\ amount' = origin'
    BY <1>12, Zenon DEF Enter
  <2> QED BY <2>1 DEF WireInv, AmountKept, OnlyMinIntRefused, Travelling
<1>13. CASE UNCHANGED vars
  <2>1. form' = form /\ text' = text /\ amount' = amount /\ origin' = origin /\ err' = err
    BY <1>13 DEF vars
  <2>2. AmountKept' /\ OnlyMinIntRefused'
    BY <1>1, <2>1 DEF AmountKept, OnlyMinIntRefused
  <2>3. Travelling'
    BY <1>1, <2>1, Zenon DEF Travelling
  <2> QED BY <2>2, <2>3 DEF WireInv
<1> QED BY <1>4, <1>5, <1>6, <1>7, <1>8, <1>9, <1>10, <1>11, <1>12, <1>13, Zenon DEF Next

\* So it always holds.
LEMMA WireInvariant ==
  ASSUME Driver = "int64"
  PROVE  Spec => []WireInv
<1>1. TypeOK /\ Init => WireInv
  BY DEF Init, WireInv, AmountKept, OnlyMinIntRefused, Travelling
<1>2. WireInv /\ TypeOK' /\ [Next]_vars => WireInv'
  BY WireInvStep
<1> QED BY <1>1, <1>2, TypeCorrect, PTL DEF Spec

\* No trip changes an amount, when the driver hands the column over as an int64.
THEOREM AmountsKept ==
  ASSUME Driver = "int64"
  PROVE  Spec => []AmountKept
<1>1. WireInv => AmountKept
  BY DEF WireInv
<1> QED BY <1>1, WireInvariant, PTL

\* And no reader refuses what was written, but for MinInt.
THEOREM NothingElseRefused ==
  ASSUME Driver = "int64"
  PROVE  Spec => []OnlyMinIntRefused
<1>1. WireInv => OnlyMinIntRefused
  BY DEF WireInv
<1> QED BY <1>1, WireInvariant, PTL
=============================================================================
